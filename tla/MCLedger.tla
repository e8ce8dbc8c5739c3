------------------------------- MODULE MCLedger -------------------------------
(***************************************************************************)
(* Instances of Ledger for TLC.                                            *)
(***************************************************************************)
EXTENDS LedgerProperties, SequencesExt

CONSTANTS e1, e2, g1, g2

-------------------------------------------------------------------------------
Thresholds(gates, approval) ==
    [required_gates |-> gates, requires_approval |-> approval,
     min_requests |-> 2, max_error_rate |-> 1, max_p95_ms |-> 1]

\* Two gates and a manual approval.
TwoGatesPolicy == [e \in Envs |-> Thresholds({g1, g2}, TRUE)]

\* e1 asks for approval, e2 does not.
MixedPolicy == [e \in Envs |-> Thresholds({g1}, e = e1)]

\* Keys and event identifiers are only compared for equality.
Symmetry == Permutations(Keys) \cup Permutations(EventIds)

Sample(count, errors, latency) ==
    [request_count |-> count, error_rate |-> errors, p95_ms |-> latency]

\* Too few requests, enough with both limits just met, and each limit
\* exceeded, with too few requests and with enough.
AllSamples == {Sample(1, 1, 1), Sample(2, 1, 1), Sample(1, 2, 1),
               Sample(2, 1, 2), Sample(2, 2, 2)}

\* One sample for each decision.
DecisiveSamples == {Sample(1, 1, 1), Sample(2, 1, 1), Sample(2, 2, 1)}
===============================================================================
