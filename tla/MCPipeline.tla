----------------------------- MODULE MCPipeline -----------------------------
(***************************************************************************)
(* Instances of Pipeline for TLC.                                          *)
(***************************************************************************)
EXTENDS Pipeline

CONSTANTS e1, e2

Item(raw, name, length) ==
    [raw |-> raw, name |-> name, length |-> length, wellFormed |-> TRUE]

\* A name to be normalised and the longest name; a name of one character
\* beside one that can be reported.
Lists == [e \in Envs |->
              IF e = e1 THEN <<Item(" Tests", "tests", 5),
                               Item("long", "long", 80)>>
              ELSE <<Item("tests", "tests", 5), Item("x", "x", 1)>>]

GatesOfLists ==
    UNION {{item.raw, item.name} : item \in UNION {Items(e) : e \in Envs}}

NotificationIds == Releases \X Gates

PolicyOfAsked ==
    [e \in Envs |-> [required_gates |-> RequiredGates(Asked[e]),
                     requires_approval |-> e = e1, min_requests |-> 2,
                     max_error_rate |-> 1, max_p95_ms |-> 1]]

Sample(count) == [request_count |-> count, error_rate |-> 1, p95_ms |-> 1]

\* Enough requests to decide on, and too few.
Samples == {Sample(1), Sample(2)}
===============================================================================
