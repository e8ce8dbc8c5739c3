------------------------------ MODULE MCClocks ------------------------------
(***************************************************************************)
(* Instances of Clocks for TLC.                                            *)
(***************************************************************************)
EXTENDS Clocks

CONSTANT g1

ManualPolicy ==
    [e \in Envs |-> [required_gates |-> {g1}, requires_approval |-> TRUE,
                     min_requests |-> 2, max_error_rate |-> 1,
                     max_p95_ms |-> 1]]

Sample(count, errors) ==
    [request_count |-> count, error_rate |-> errors, p95_ms |-> 1]

\* One sample for each decision.
Samples == {Sample(1, 1), Sample(2, 1), Sample(1, 2)}
===============================================================================
