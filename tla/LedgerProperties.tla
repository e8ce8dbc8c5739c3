--------------------------- MODULE LedgerProperties ---------------------------
(***************************************************************************)
(* What the committed state of ReleaseGuard must satisfy, whatever order   *)
(* the requests of module Ledger commit in.                                *)
(***************************************************************************)
EXTENDS Ledger

\* A release that holds its environment (active_release_id).
OpenStatus == {"evaluating", "awaiting_approval", "approved", "canary"}

Reasons == [kind : {"none", "gates_failed", "gates_missing",
                    "gates_passed_manual", "gates_passed_auto",
                    "approval_received", "canary_started", "canary_exceeded",
                    "canary_insufficient", "canary_enough", "manual_rollback",
                    "cancelled_by_operator", "timeout"},
            names : SUBSET (Gates \cup {"error_rate", "p95_ms"})]

Actors == Admins \cup Approvers \cup Observers
          \cup {"policy-engine", "ci-webhook", "reconciler"}

Events == [type : {"release.created", "release.status_changed",
                   "release.gates_evaluated", "gate.reported",
                   "canary.observed", "canary.timeout"},
           actor : Actors,
           from : ReleaseStatus \cup {"absent"},
           to : ReleaseStatus \cup {"absent"},
           reason : Reasons]

\* Every column holds a value of its type; the rows of `releases` that exist
\* belong to an environment (columns of models.py).
TypeOK ==
    /\ status \in [Releases -> ReleaseStatus \cup {"absent"}]
    /\ envOf \in [Releases -> Envs \cup {Null}]
    /\ keyOf \in [Releases -> Keys \cup {Null}]
    /\ artifactOf \in [Releases -> Artifacts \cup {Null}]
    /\ previous \in [Releases -> Releases \cup {NoRelease}]
    /\ traffic \in [Releases -> 0..100]
    /\ approvedBy \in [Releases -> Approvers \cup {Null}]
    /\ reason \in [Releases -> Reasons]
    /\ expired \in SUBSET Releases
    /\ active \in [Envs -> Releases \cup {NoRelease}]
    /\ current \in [Envs -> Releases \cup {NoRelease}]
    /\ results \in [Releases -> [Gates -> GateStatus \cup {"missing"}]]
    /\ details \in [Releases -> [Gates -> Details \cup {Null}]]
    /\ receipts \in SUBSET Webhooks
    /\ journal \in [Releases -> Seq(Events)]
    /\ \A r \in Releases : Exists(r) => envOf[r] \in Envs

-------------------------------------------------------------------------------
(* Environments and their releases.                                        *)

\* An environment is held by exactly the one release in flight in it: every
\* release in an open status is the active one of its own environment, and
\* active_release_id names nothing else.  Every handler that ends a release
\* clears the column, and none may clear it for another release.
Ownership ==
    \A r \in Releases, e \in Envs :
        (active[e] = r) <=> (status[r] \in OpenStatus /\ envOf[r] = e)

Succeeded(e) == {r \in Releases : status[r] = "succeeded" /\ envOf[r] = e}

\* x is the newest release of S, or NoRelease when S is empty.
IsNewest(x, S) ==
    /\ x = NoRelease => S = {}
    /\ x # NoRelease => x \in S /\ \A s \in S : s <= x

\* current_release_id is the newest release that succeeded and was not rolled
\* back, and the previous_release_id of a succeeded or open release is the one
\* that a rollback must go back to: following the column from current visits
\* the versions in order and skips none.  create_release copies the pointer
\* once; no late rollback may bring back an older version.
Lineage ==
    /\ \A e \in Envs : IsNewest(current[e], Succeeded(e))
    /\ \A r \in Releases : status[r] \in OpenStatus \cup {"succeeded"} =>
           IsNewest(previous[r], {s \in Succeeded(envOf[r]) : s < r})

\* current_release_id changes in two ways only: the active canary of the
\* environment is promoted, or the current release is rolled back and its
\* previous one returns.  The rollback of a canary writes the column too, and
\* must write the value it already has.
CurrentMoves ==
    [][\A e \in Envs : current'[e] # current[e] =>
           \E r \in Releases :
               \/ /\ active[e] = r /\ current'[e] = r
                  /\ status[r] = "canary" /\ status'[r] = "succeeded"
               \/ /\ current[e] = r /\ active[e] = NoRelease
                  /\ status'[r] = "rolled_back"
                  /\ current'[e] = previous[r]]_ledgerVars

\* The i-th members of S, smallest first.
Nth(S, i) == {s \in S : Cardinality({t \in S : t <= s}) = i}

InOrder(S) == [i \in 1..Cardinality(S) |-> CHOOSE s \in Nth(S, i) : TRUE]

\* The versions of an environment, oldest first: release numbers grow.
Versions == INSTANCE VersionStack WITH
    Versions <- Releases,
    NoVersion <- NoRelease,
    proposed <- {r \in Releases : Exists(r)},
    candidate <- active,
    stack <- [e \in Envs |-> InOrder(Succeeded(e))],
    serving <- current

\* The environments are stacks of versions: whatever requests commit, and in
\* any order, every environment runs the top of the versions that succeeded
\* in it, one candidate is tried at a time and only the top can be undone.
EnvironmentsAreStacks == Versions!Spec

-------------------------------------------------------------------------------
(* Admission.                                                              *)

\* No release gets a canary, and none is promoted, unless every gate its
\* application requires has passed: deploy_release checks again under the
\* lock, for `approved` rows left by older versions too.
GatesGuardCanary ==
    \A r \in Releases : status[r] \in {"canary", "succeeded"} =>
        \A g \in Policy[envOf[r]].required_gates : results[r][g] = "passed"

\* A release is ready for approval or approved only with all its gates passed,
\* and in an environment that asks for approval only an approver lets it past
\* awaiting_approval, while one that does not never waits for it.
Admission ==
    \A r \in Releases :
        /\ status[r] \in {"awaiting_approval", "approved"} =>
               \A g \in Policy[envOf[r]].required_gates :
                   results[r][g] = "passed"
        /\ status[r] \in {"approved", "canary", "succeeded"} =>
               (approvedBy[r] \in Approvers
                    <=> Policy[envOf[r]].requires_approval)
        /\ status[r] = "awaiting_approval" =>
               Policy[envOf[r]].requires_approval

\* The share of traffic the ledger claims follows the status: a canary has its
\* percentage, the succeeded release all of it, and every other release none.
TrafficMatchesStatus ==
    \A r \in Releases :
        /\ status[r] = "canary" => traffic[r] \in CanaryPercents
        /\ status[r] = "succeeded" => traffic[r] = 100
        /\ status[r] \notin {"canary", "succeeded"} => traffic[r] = 0

\* What is decided stays decided: a blocked, cancelled or rolled back release
\* keeps its status, reason and traffic; a reported gate keeps its result; and
\* once the evaluation of a release is over no result of it is added.
SettledStaysSettled ==
    [][\A r \in Releases :
        /\ status[r] \in {"blocked", "cancelled", "rolled_back"} =>
               /\ status'[r] = status[r]
               /\ reason'[r] = reason[r]
               /\ traffic'[r] = traffic[r]
        /\ \A g \in Gates : results[r][g] # "missing" =>
               /\ results'[r][g] = results[r][g]
               /\ details'[r][g] = details[r][g]
        /\ status[r] # "evaluating" => results'[r] = results[r]]_ledgerVars

-------------------------------------------------------------------------------
(* Journal, reasons and receipts.                                          *)

\* Positions in the journal `events` of a release.
StatusChanges(events) ==
    {i \in DOMAIN events : events[i].type = "release.status_changed"}

Reasoned(events) == {i \in DOMAIN events : events[i].reason # NoReason}

\* A reader of the first n events knows the status of the release to be st.
ReplaysTo(events, n, st) ==
    LET read == {i \in StatusChanges(events) : i <= n}
    IN  \/ read = {} /\ st = "evaluating"
        \/ \E i \in read : /\ \A j \in read : j <= i
                            /\ st = events[i].to

\* The journal begins with the creation, each recorded change starts where the
\* one before it ended, and the last one ended in st.
Trail(events, st) ==
    /\ events # <<>> /\ events[1].type = "release.created"
    /\ \A i \in StatusChanges(events) :
           ReplaysTo(events, i - 1, events[i].from)
    /\ ReplaysTo(events, Len(events), st)

\* The journal of a release replays to its status.
AuditTrail == \A r \in Releases : Exists(r) => Trail(journal[r], status[r])

\* `why` is the reason of the latest event that gives one.
LatestReason(events, why) ==
    \/ Reasoned(events) = {} /\ why = NoReason
    \/ \E i \in Reasoned(events) : /\ \A j \in Reasoned(events) : j <= i
                                   /\ why = events[i].reason

\* state_reason is the reason of the latest event that gives one, also when
\* the decision did not change the status.
JournalMatchesReason ==
    \A r \in Releases : LatestReason(journal[r], reason[r])

\* The reasons the operators' runbook lists for each status
\* (docs/runbooks/operator-decisions.md).
Explanations(r) ==
    LET required == Policy[envOf[r]].required_gates
        missing == MissingGates(required, results[r])
    IN  CASE status[r] = "absent" -> {NoReason}
          [] status[r] = "evaluating" ->
                 {IF missing = required THEN NoReason
                  ELSE Reason("gates_missing", missing)}
          [] status[r] = "blocked" ->
                 {Reason("gates_failed", FailedGates(required, results[r]))}
          [] status[r] = "awaiting_approval" ->
                 {Reason("gates_passed_manual", {})}
          [] status[r] = "approved" ->
                 {IF approvedBy[r] # Null THEN Reason("approval_received", {})
                  ELSE Reason("gates_passed_auto", {})}
          [] status[r] = "canary" ->
                 {Reason("canary_started", {}),
                  Reason("canary_insufficient", {})}
          [] status[r] = "succeeded" -> {Reason("canary_enough", {})}
          [] status[r] = "rolled_back" ->
                 {Reason("manual_rollback", {}), Reason("timeout", {})} \cup
                 {Reason("canary_exceeded", limits) :
                      limits \in (SUBSET {"error_rate", "p95_ms"}) \ {{}}}
          [] OTHER -> {Reason("cancelled_by_operator", {})}

\* The reason a client reads fits the status it reads beside it, and names the
\* gates that are missing or failed at that moment and no others.
ReasonExplainsStatus == \A r \in Releases : reason[r] \in Explanations(r)

EventCount(events, type) ==
    Cardinality({i \in DOMAIN events : events[i].type = type})

\* The notifications accepted for release r.
Accepted(r) == {w \in receipts : w.release = r}

\* Each accepted notification of CI is recorded once, however often it is
\* delivered: one receipt, one gate.reported and one gates_evaluated event; and
\* all the notifications accepted for a gate agree with its result.
WebhooksCountOnce ==
    \A r \in Releases :
        LET accepted == Cardinality(Accepted(r))
        IN  /\ EventCount(journal[r], "gate.reported") = accepted
            /\ EventCount(journal[r], "release.gates_evaluated") = accepted
            /\ \A w \in Accepted(r) : /\ results[r][w.gate] = w.status
                                      /\ details[r][w.gate] = w.details

-------------------------------------------------------------------------------
(* Liveness: the reconciler runs for ever and the clock goes on.           *)

ReconcilerRuns ==
    /\ \A r \in Releases : WF_ledgerVars(Expire(r))
    /\ WF_ledgerVars(\E batch \in SUBSET Due : Reconcile(batch))

\* A canary nobody observes to a decision does not hold its environment for
\* ever: it ends, by a decision or by the timeout.
CanaryEnds ==
    \A r \in Releases : status[r] = "canary" ~> status[r] # "canary"

-------------------------------------------------------------------------------
\* A database taken over from a version that did not check every gate: one
\* release is already past evaluation, with any results for its gates.
LegacyInit ==
    /\ EmptyColumns
    /\ \E st \in {"awaiting_approval", "approved"}, e \in Envs, k \in Keys,
          a \in Artifacts, outcome \in [Gates -> GateStatus \cup {"missing"}] :
        /\ \A g \in Gates \ Policy[e].required_gates : outcome[g] = "missing"
        /\ LET first(value, default) ==
                   [r \in Releases |-> IF r = 1 THEN value ELSE default]
           IN  /\ status = first(st, "absent")
               /\ envOf = first(e, Null)
               /\ keyOf = first(k, Null)
               /\ artifactOf = first(a, Null)
               /\ results = first(outcome, [g \in Gates |-> "missing"])
               /\ active = [f \in Envs |-> IF f = e THEN 1 ELSE NoRelease]
    /\ previous = [r \in Releases |-> NoRelease]
    /\ traffic = [r \in Releases |-> 0]
    /\ approvedBy = [r \in Releases |-> Null]
    /\ reason = [r \in Releases |-> NoReason]
    /\ details = [r \in Releases |-> [g \in Gates |-> Null]]
    /\ journal = [r \in Releases |-> <<>>]
===============================================================================
