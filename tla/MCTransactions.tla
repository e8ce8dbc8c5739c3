---------------------------- MODULE MCTransactions ----------------------------
(***************************************************************************)
(* Instances of Transactions for TLC.                                      *)
(***************************************************************************)
EXTENDS Transactions, TLC

CONSTANTS e1, e2, g1

\* None of these is compared but for equality, and all environments have the
\* same policy.
Symmetry == Permutations(Keys) \cup Permutations(EventIds)
            \cup Permutations(Workers) \cup Permutations(Reconcilers)
            \cup Permutations(Envs)

Thresholds(approval) ==
    [required_gates |-> {g1}, requires_approval |-> approval,
     min_requests |-> 2, max_error_rate |-> 1, max_p95_ms |-> 1]

ManualPolicy == [e \in Envs |-> Thresholds(TRUE)]
AutoPolicy == [e \in Envs |-> Thresholds(FALSE)]

Sample(count, errors) ==
    [request_count |-> count, error_rate |-> errors, p95_ms |-> 1]

Promote == {Sample(2, 1)}

-------------------------------------------------------------------------------
PassingRequests ==
    {req \in WebhookRequests : req.body.status = "passed"}

\* What a reconciler can meet.
CanaryRequests == CreateRequests \cup PassingRequests \cup DeployRequests
                  \cup ObserveRequests \cup RollbackRequests

\* The next release is created while the first one is tried, promoted and
\* rolled back.
SuccessionRequests ==
    CreateRequests \cup {req \in CanaryRequests \ CreateRequests :
                             req.release = 1}
===============================================================================
