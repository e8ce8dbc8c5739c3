------------------------------- MODULE MCClients -------------------------------
(***************************************************************************)
(* Instances of Retries and Scripts for TLC.                               *)
(***************************************************************************)
EXTENDS Scripts, TLC

CONSTANT e1

\* The clients that run no script are only compared for equality.
ClientsSymmetry == Permutations(Clients \ {Runner})

\* What the scripts ask for their environments, and one gate for others,
\* without manual approval.
PolicyOfScripts ==
    [e \in Envs |-> CASE e = SmokeEnv -> SmokePolicy
                      [] e = OperatorEnv -> OperatorPolicy
                      [] OTHER -> [required_gates |-> {"tests"},
                                   requires_approval |-> FALSE,
                                   min_requests |-> 2, max_error_rate |-> 1,
                                   max_p95_ms |-> 1]]

\* All gates of the scripts, and one notification for each.
NotificationIds == Releases \X Gates

ObservationsOf(steps) ==
    {q.observation : q \in {p \in {steps[i].call : i \in DOMAIN steps} :
                                p.kind = "observe"}}

Sample(count, errors) ==
    [request_count |-> count, error_rate |-> errors, p95_ms |-> 1]

\* Enough requests to promote on, and a limit exceeded by more requests than
\* the column holds.
Samples == {Sample(2, 1)}
LargeSamples == {Sample(MaxInteger + 1, 2)}

AllObservations ==
    Samples \cup ObservationsOf(Smoke) \cup ObservationsOf(OperatorScenarios)

CreateCalls == [kind : {"create"}, env : {e1}, key : {1, 2},
                artifact : {1, 2}, who : Admins]

WebhookCalls ==
    {[kind |-> "webhook", body |-> w] :
         w \in [event : {<<1, "tests">>}, release : {1}, gate : {"tests"},
                status : GateStatus, details : Details]}

ReleaseCalls(r, observations) ==
    [kind : {"rollback"}, release : {r}, who : Admins]
    \cup [kind : {"deploy"}, release : {r}, percent : CanaryPercents,
          who : Admins]
    \cup [kind : {"observe"}, release : {r}, observation : observations,
          who : Observers]

CancelCalls == [kind : {"cancel"}, release : {1}, who : Admins]

\* Every call about a first release, with and without another creation under
\* its key, and the creation of a second one.
AllCalls == {q \in CreateCalls : q.key = 1 \/ q.artifact = 2}
            \cup WebhookCalls \cup ReleaseCalls(1, Samples) \cup CancelCalls

LargeCalls == {q \in CreateCalls : q.key = 1 /\ q.artifact = 1}
              \cup WebhookCalls \cup ReleaseCalls(1, LargeSamples)
===============================================================================
