-------------------------------- MODULE Scripts --------------------------------
(***************************************************************************)
(* The scripts that drive a running ReleaseGuard and assert what it        *)
(* answers (src/scripts): main() of smoke.py and the scenarios of          *)
(* operator_scenarios.py, each a list of calls with the answer expected,   *)
(* sent one after the other by one client of module Retries.  The          *)
(* reconciler works in between.  Without a script, the other clients send  *)
(* what they like.                                                         *)
(*                                                                         *)
(* A script has an application and an environment of its own: its n-th     *)
(* creation gives release n.  Quantities are those of the scripts, error   *)
(* rates in thousandths.                                                   *)
(***************************************************************************)
EXTENDS Retries

CONSTANTS
    SmokeEnv, OperatorEnv,      \* the environments of the scripts
    Runner,                     \* the client that runs a script
    Scripts,                    \* the names of the scripts that may run
    Payload,                    \* the details of its notifications
    Admin, Approver, Observer   \* the clients whose keys the script has

ASSUME ScriptsAssumption ==
    /\ {SmokeEnv, OperatorEnv} \subseteq Envs /\ SmokeEnv # OperatorEnv
    /\ Runner \in Clients /\ Payload \in Details
    /\ Scripts \subseteq {"none", "smoke", "operator"}
    /\ Admin \in Admins /\ Approver \in Approvers /\ Observer \in Observers

VARIABLES
    script,     \* the script that is run, "none" for other clients only
    pos,        \* the step to be made
    outcome,    \* "running", "passed", "failed" when an assertion is not met,
                \* "gave_up" when the loop that waits raises TimeoutError
    seen,       \* the journal of each release as its last step has left it
    shown       \* the last answer about each release

scriptVars == <<script, pos, outcome, seen, shown>>
allVars == <<retryVars, scriptVars>>

-------------------------------------------------------------------------------
(* Steps: a call, and the answers that meet the assertions after it.       *)

AnyReason == Reasons

Expect(q, code, statuses, reasons) ==
    [call |-> q, code |-> code, statuses |-> statuses, reasons |-> reasons,
     previous |-> Releases \cup {NoRelease}, traffic |-> 0..100, events |-> 0,
     sameBody |-> FALSE, sameJournal |-> FALSE]

\* request() and signed_gate() raise for any answer but 2xx; what comes with it
\* is not looked at.
Succeeds(q) == Expect(q, "ok", ReleaseStatus, AnyReason)

Shows(q, st) == Expect(q, "ok", {st}, AnyReason)

Explains(q, st, why) == Expect(q, "ok", {st}, {why})

\* previous_release_id is that of release r.
Follows(step, r) == [step EXCEPT !.previous = {r}]

\* traffic_percent is t.
HasTraffic(step, t) == [step EXCEPT !.traffic = {t}]

\* The journal read after the step has at least n events.
HasEvents(step, n) == [step EXCEPT !.events = n]

\* The answer equals the last one about the release.
SameBody(step) == [step EXCEPT !.sameBody = TRUE]

\* The journal of the release is as the last step about it left it.
SameJournal(step) == [step EXCEPT !.sameJournal = TRUE]

CreateOf(e, key) == [kind |-> "create", env |-> e, key |-> key,
                     artifact |-> key, who |-> Admin]

GateOf(r, gate, result) ==
    [kind |-> "webhook",
     body |-> [event |-> <<r, gate>>, release |-> r, gate |-> gate,
               status |-> result, details |-> Payload]]

ApproveOf(r) == [kind |-> "approve", release |-> r, who |-> Approver]
CancelOf(r) == [kind |-> "cancel", release |-> r, who |-> Admin]
RollbackOf(r) == [kind |-> "rollback", release |-> r, who |-> Admin]
DeployOf(r) == [kind |-> "deploy", release |-> r, percent |-> 10, who |-> Admin]

ObserveOf(r, count, errors, latency) ==
    [kind |-> "observe", release |-> r, who |-> Observer,
     observation |-> [request_count |-> count, error_rate |-> errors,
                      p95_ms |-> latency]]

\* The loop that reads release r until it is rolled back, for 90 seconds.
AwaitRollback(r, why) ==
    Explains([kind |-> "await", release |-> r], "rolled_back", why)

Passes(r, gate) == Succeeds(GateOf(r, gate, "passed"))

\* canary() of operator_scenarios.py.
CanaryOf(r) ==
    <<Succeeds(CreateOf(OperatorEnv, r)), Passes(r, "tests"),
      Passes(r, "security"), Succeeds(ApproveOf(r)), Succeeds(DeployOf(r))>>

-------------------------------------------------------------------------------
(* smoke.py                                                                *)

SmokeGates == {"tests", "security", "signature"}

\* What the script asks for its application and environment.
SmokePolicy == [required_gates |-> SmokeGates, requires_approval |-> TRUE,
                min_requests |-> 100, max_error_rate |-> 20,
                max_p95_ms |-> 800]

PassSmokeGates(r) ==
    <<Passes(r, "tests"), Passes(r, "security"), Passes(r, "signature")>>

SmokePromoted ==
    <<Succeeds(CreateOf(SmokeEnv, 1)),
      Passes(1, "tests"), Passes(1, "security"),
      Shows(GateOf(1, "signature", "passed"), "awaiting_approval"),
      Succeeds(ApproveOf(1)),
      Shows(DeployOf(1), "canary"),
      HasEvents(Shows(ObserveOf(1, 500, 2, 240), "succeeded"), 8)>>

SmokeRolledBack ==
    <<Succeeds(CreateOf(SmokeEnv, 2))>> \o PassSmokeGates(2) \o
    <<Succeeds(ApproveOf(2)), Succeeds(DeployOf(2)),
      Follows(Shows(ObserveOf(2, 500, 120, 240), "rolled_back"), 1)>>

\* The repeated cancellation answers what the first one did.
SmokeCancelled ==
    <<Succeeds(CreateOf(SmokeEnv, 3)), Shows(CancelOf(3), "cancelled"),
      Follows(Succeeds(CreateOf(SmokeEnv, 4)), 1),
      SameBody(Succeeds(CancelOf(3))),
      Succeeds(CancelOf(4))>>

Smoke == SmokePromoted \o SmokeRolledBack \o SmokeCancelled

-------------------------------------------------------------------------------
(* operator_scenarios.py                                                   *)

OperatorGates == {"tests", "security"}

OperatorPolicy == [required_gates |-> OperatorGates, requires_approval |-> TRUE,
                   min_requests |-> 10, max_error_rate |-> 10,
                   max_p95_ms |-> 200]

PromotedThenRolledBack ==
    <<Succeeds(CreateOf(OperatorEnv, 1)),
      Explains(GateOf(1, "tests", "passed"), "evaluating",
               Reason("gates_missing", {"security"})),
      Passes(1, "security"),
      Succeeds(ApproveOf(1)), Succeeds(DeployOf(1)),
      Explains(ObserveOf(1, 3, 0, 100), "canary",
               Reason("canary_insufficient", {})),
      HasTraffic(Shows(ObserveOf(1, 10, 10, 200), "succeeded"), 100),
      Explains(RollbackOf(1), "rolled_back", Reason("manual_rollback", {}))>>

\* The late report must get 409.
FailedGateTerminal ==
    <<Succeeds(CreateOf(OperatorEnv, 2)),
      Explains(GateOf(2, "security", "failed"), "blocked",
               Reason("gates_failed", {"security"})),
      SameJournal(Expect(GateOf(2, "tests", "passed"), "refused",
                         {"absent"}, AnyReason))>>

CancelBeforeCanary ==
    <<Succeeds(CreateOf(OperatorEnv, 3)), Succeeds(CancelOf(3)),
      SameBody(SameJournal(Succeeds(CancelOf(3))))>>

BadMetrics ==
    CanaryOf(4) \o
    <<Explains(ObserveOf(4, 3, 20, 201), "rolled_back",
               Reason("canary_exceeded", {"error_rate", "p95_ms"}))>>

MissingMetrics == CanaryOf(5) \o <<AwaitRollback(5, Reason("timeout", {}))>>

OperatorScenarios ==
    PromotedThenRolledBack \o FailedGateTerminal \o CancelBeforeCanary
    \o BadMetrics \o MissingMetrics

-------------------------------------------------------------------------------
(* Running a script.                                                       *)

Steps == CASE script = "smoke" -> Smoke
           [] script = "operator" -> OperatorScenarios
           [] OTHER -> <<>>

ScriptEnv == IF script = "smoke" THEN SmokeEnv ELSE OperatorEnv

Running == script # "none" /\ outcome = "running"

Send(c) ==
    /\ Running
    /\ Steps[pos].call.kind # "await"
    /\ Call(c, Steps[pos].call)
    /\ UNCHANGED scriptVars

\* The calls of a script but for those that only wait.
CallsOf(steps) ==
    {q \in {steps[i].call : i \in DOMAIN steps} : q.kind # "await"}

ASSUME ScriptCallsAssumption ==
    /\ "smoke" \in Scripts => CallsOf(Smoke) \subseteq ApiCalls
    /\ "operator" \in Scripts => CallsOf(OperatorScenarios) \subseteq ApiCalls

\* The environments are as the scripts have created them, and the column holds
\* the numbers of requests they report.
ASSUME ScriptPoliciesAssumption ==
    /\ "smoke" \in Scripts => Policy[SmokeEnv] = SmokePolicy
    /\ "operator" \in Scripts => Policy[OperatorEnv] = OperatorPolicy
    /\ MaxInteger >= 500

\* The release a step is about.
About(q) == CASE q.kind = "create" -> q.key
              [] q.kind = "webhook" -> q.body.release
              [] OTHER -> q.release

\* What the client gets of an answer.
Body(answer) == [answer EXCEPT !.at = 0]

\* The step has ended well or not, with an answer that the script keeps beside
\* the journal it reads.
StepEnds(ok, answer) ==
    LET r == About(Steps[pos].call)
    IN  /\ pos' = IF ok /\ pos < Len(Steps) THEN pos + 1 ELSE pos
        /\ outcome' = IF ~ok THEN "failed"
                      ELSE IF pos = Len(Steps) THEN "passed" ELSE "running"
        /\ seen' = [seen EXCEPT ![r] = journal[r]]
        /\ shown' = [shown EXCEPT ![r] = Body(answer)]
        /\ UNCHANGED script

\* The assertions after a step, on its answer and on the journal of its release.
Meets(step, answer) ==
    LET r == About(step.call)
    IN  /\ answer.code = step.code
        /\ answer.status \in step.statuses
        /\ answer.reason \in step.reasons
        /\ answer.previous \in step.previous
        /\ answer.traffic \in step.traffic
        /\ step.sameBody => Body(answer) = shown[r]
        /\ Len(journal[r]) >= step.events
        /\ step.sameJournal => journal[r] = seen[r]

Check(c) ==
    /\ Running
    /\ stage[c] = "answered"
    /\ StepEnds(Meets(Steps[pos], reply[c]), reply[c])
    /\ Finish(c)

Awaiting == Running /\ Steps[pos].call.kind = "await"

\* The reconciler has rolled back the canary of r, as its journal says.
TimedOut(r) ==
    \E i \in DOMAIN journal[r] : journal[r][i].type = "canary.timeout"

\* One read of the loop sees the rollback; then the assertions on the release
\* and on its journal.
SeeRollback ==
    LET r == About(Steps[pos].call)
    IN  /\ Awaiting
        /\ status[r] = "rolled_back"
        /\ StepEnds(Meets(Steps[pos], ReadRow(r)) /\ TimedOut(r), ReadRow(r))
        /\ UNCHANGED retryVars

\* The 90 seconds are over.
GiveUp ==
    /\ Awaiting
    /\ outcome' = "gave_up"
    /\ UNCHANGED <<retryVars, script, pos, seen, shown>>

ScriptsInit ==
    /\ RetriesInit
    /\ script \in Scripts
    /\ pos = 1
    /\ outcome = "running"
    /\ seen = [r \in Releases |-> <<>>]
    /\ shown = [r \in Releases |-> NoReply]

\* The API handles the script's call.
Serve(c) == (Do(c) \/ AnswerAgain(c) \/ Refuse(c) \/ Refresh(c))
            /\ UNCHANGED scriptVars

ScriptStep(c) == Send(c) \/ Check(c) \/ SeeRollback \/ GiveUp

OtherClients ==
    /\ script = "none"
    /\ \E c \in Clients \ {Runner} : ClientStep(c)
    /\ UNCHANGED scriptVars

ScriptsNext ==
    \/ ScriptStep(Runner)
    \/ Serve(Runner)
    \/ OtherClients
    \/ ReconcilerNext /\ UNCHANGED <<clientVars, scriptVars>>

ScriptsSpec == ScriptsInit /\ [][ScriptsNext]_allVars

-------------------------------------------------------------------------------
\* An assertion of a script fails only on a canary that the reconciler timed
\* out before the script had observed it: at its deployment or its observation,
\* with the timeout in the journal.  Every other assertion is met, those on
\* a timeout the script waits for among them; that the wait itself ends is the
\* reconciler's matter.
FailsOnlyByTime ==
    outcome = "failed" =>
        /\ Steps[pos].call.kind \in {"deploy", "observe"}
        /\ TimedOut(About(Steps[pos].call))

\* A script that passes leaves its environment free, and running the newest
\* release that was not rolled back.
LeavesEnvironmentFree ==
    outcome = "passed" =>
        /\ active[ScriptEnv] = NoRelease
        /\ IsNewest(current[ScriptEnv], Succeeded(ScriptEnv))
===============================================================================
