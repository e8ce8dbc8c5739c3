-------------------------------- MODULE Domain --------------------------------
(***************************************************************************)
(* The pure decisions of ReleaseGuard (src/src/releaseguard/domain.py):    *)
(* which status a release may move to, what the CI results of a release    *)
(* allow, what one canary observation decides, and the reason recorded     *)
(* with each of these decisions.  Nothing here has a state.                *)
(***************************************************************************)
EXTENDS Integers, FiniteSets

ReleaseStatus == {"evaluating", "blocked", "awaiting_approval", "approved",
                  "canary", "succeeded", "rolled_back", "cancelled"}

GateStatus == {"passed", "failed"}

CanaryDecision == {"continue", "promote", "rollback"}

\* The changes of status require_transition accepts; "blocked", "rolled_back"
\* and "cancelled" have no entry in the table of the code.
Allowed == {<<"evaluating", "blocked">>,
            <<"evaluating", "awaiting_approval">>,
            <<"evaluating", "approved">>,
            <<"evaluating", "cancelled">>,
            <<"awaiting_approval", "approved">>,
            <<"awaiting_approval", "blocked">>,
            <<"awaiting_approval", "cancelled">>,
            <<"approved", "canary">>,
            <<"approved", "cancelled">>,
            <<"canary", "succeeded">>,
            <<"canary", "rolled_back">>,
            <<"succeeded", "rolled_back">>}

MayMove(st, to) == <<st, to>> \in Allowed

-------------------------------------------------------------------------------
\* CI results: `outcome` gives every gate its reported status, or "missing"
\* for a gate the dictionary of the code has no entry for.

FailedGates(required, outcome) == {g \in required : outcome[g] = "failed"}

MissingGates(required, outcome) == {g \in required : outcome[g] = "missing"}

\* Mutant: a gate not reported yet does not hold the release back.
EvaluateGatesEarly(required, outcome, requiresApproval) ==
    IF FailedGates(required, outcome) # {} THEN "blocked"
    ELSE IF requiresApproval THEN "awaiting_approval" ELSE "approved"

EvaluateGates(required, outcome, requiresApproval) ==
    IF FailedGates(required, outcome) # {} THEN "blocked"
    ELSE IF MissingGates(required, outcome) # {} THEN "evaluating"
    ELSE IF requiresApproval THEN "awaiting_approval" ELSE "approved"

\* A reason is the sentence the code writes, as its kind and the names the
\* sentence lists.
Reason(kind, names) == [kind |-> kind, names |-> names]

NoReason == Reason("none", {})

GateReason(required, outcome, requiresApproval) ==
    IF FailedGates(required, outcome) # {}
    THEN Reason("gates_failed", FailedGates(required, outcome))
    ELSE IF MissingGates(required, outcome) # {}
    THEN Reason("gates_missing", MissingGates(required, outcome))
    ELSE Reason(IF requiresApproval THEN "gates_passed_manual"
                                    ELSE "gates_passed_auto", {})

-------------------------------------------------------------------------------
\* One canary observation `o` (request_count, error_rate, p95_ms) against the
\* thresholds of the environment `policy`.

\* The limits the sentence of canary_reason names.
ExceededLimits(o, policy) ==
    {name \in {"error_rate", "p95_ms"} :
        \/ name = "error_rate" /\ o.error_rate > policy.max_error_rate
        \/ name = "p95_ms" /\ o.p95_ms > policy.max_p95_ms}

\* Mutant: a threshold met exactly rolls back.
EvaluateCanaryWhenMet(o, policy) ==
    IF \/ o.error_rate >= policy.max_error_rate
       \/ o.p95_ms >= policy.max_p95_ms
    THEN "rollback"
    ELSE IF o.request_count >= policy.min_requests THEN "promote"
    ELSE "continue"

\* The decision is computed apart from its reason.
EvaluateCanary(o, policy) ==
    IF o.error_rate > policy.max_error_rate \/ o.p95_ms > policy.max_p95_ms
    THEN "rollback"
    ELSE IF o.request_count >= policy.min_requests THEN "promote"
    ELSE "continue"

CanaryReason(o, policy) ==
    IF ExceededLimits(o, policy) # {}
    THEN Reason("canary_exceeded", ExceededLimits(o, policy))
    ELSE IF o.request_count < policy.min_requests
    THEN Reason("canary_insufficient", {})
    ELSE Reason("canary_enough", {})

===============================================================================
