----------------------------- MODULE ScriptsProofs -----------------------------
(***************************************************************************)
(* What the scripts assert, in every instance of Scripts: with any other   *)
(* environments, bounds and clients, and whenever the reconciler steps in. *)
(***************************************************************************)
EXTENDS RetriesProofs

-------------------------------------------------------------------------------
(* Where a script is: what its environment looks like between two steps.   *)

Closed == {"blocked", "cancelled", "rolled_back", "succeeded"}

\* The last release and its status, the gates with a result, what the
\* environment runs and what it would go back to, how long the journal is at
\* least, and releases that were cancelled.
Place(r, st, reported, base) ==
    [release |-> r, status |-> st, reported |-> reported, newest |-> base,
     previous |-> base, least |-> 0, cancelled |-> {}]

AtLeast(place, n) == [place EXCEPT !.least = n]

SmokePlace(i) ==
    CASE i = 1 -> Place(0, "absent", {}, 0)
      [] i = 2 -> AtLeast(Place(1, "evaluating", {}, 0), 1)
      [] i = 3 -> AtLeast(Place(1, "evaluating", {"tests"}, 0), 3)
      [] i = 4 -> AtLeast(Place(1, "evaluating", {"tests", "security"}, 0), 5)
      [] i = 5 -> AtLeast(Place(1, "awaiting_approval", SmokeGates, 0), 7)
      [] i = 6 -> AtLeast(Place(1, "approved", SmokeGates, 0), 8)
      [] i = 7 -> AtLeast(Place(1, "canary", SmokeGates, 0), 9)
      [] i = 8 -> [release |-> 1, status |-> "succeeded",
                   reported |-> SmokeGates, newest |-> 1, previous |-> 0,
                   least |-> 10, cancelled |-> {}]
      [] i = 9 -> Place(2, "evaluating", {}, 1)
      [] i = 10 -> Place(2, "evaluating", {"tests"}, 1)
      [] i = 11 -> Place(2, "evaluating", {"tests", "security"}, 1)
      [] i = 12 -> Place(2, "awaiting_approval", SmokeGates, 1)
      [] i = 13 -> Place(2, "approved", SmokeGates, 1)
      [] i = 14 -> Place(2, "canary", SmokeGates, 1)
      [] i = 15 -> Place(2, "rolled_back", SmokeGates, 1)
      [] i = 16 -> Place(3, "evaluating", {}, 1)
      [] i = 17 -> [Place(3, "cancelled", {}, 1) EXCEPT !.cancelled = {3}]
      [] i \in {18, 19} ->
             [Place(4, "evaluating", {}, 1) EXCEPT !.cancelled = {3}]
      [] i = 20 -> [Place(4, "cancelled", {}, 1) EXCEPT !.cancelled = {3, 4}]

OperatorPlace(i) ==
    CASE i = 1 -> Place(0, "absent", {}, 0)
      [] i = 2 -> Place(1, "evaluating", {}, 0)
      [] i = 3 -> Place(1, "evaluating", {"tests"}, 0)
      [] i = 4 -> Place(1, "awaiting_approval", OperatorGates, 0)
      [] i = 5 -> Place(1, "approved", OperatorGates, 0)
      [] i \in {6, 7} -> Place(1, "canary", OperatorGates, 0)
      [] i = 8 -> [Place(1, "succeeded", OperatorGates, 0) EXCEPT !.newest = 1]
      [] i = 9 -> Place(1, "rolled_back", OperatorGates, 0)
      [] i = 10 -> Place(2, "evaluating", {}, 0)
      [] i \in {11, 12} -> Place(2, "blocked", {"security"}, 0)
      [] i = 13 -> Place(3, "evaluating", {}, 0)
      [] i \in {14, 15} ->
             [Place(3, "cancelled", {}, 0) EXCEPT !.cancelled = {3}]
      [] i = 16 -> Place(4, "evaluating", {}, 0)
      [] i = 17 -> Place(4, "evaluating", {"tests"}, 0)
      [] i = 18 -> Place(4, "awaiting_approval", OperatorGates, 0)
      [] i = 19 -> Place(4, "approved", OperatorGates, 0)
      [] i = 20 -> Place(4, "canary", OperatorGates, 0)
      [] i = 21 -> Place(4, "rolled_back", OperatorGates, 0)
      [] i = 22 -> Place(5, "evaluating", {}, 0)
      [] i = 23 -> Place(5, "evaluating", {"tests"}, 0)
      [] i = 24 -> Place(5, "awaiting_approval", OperatorGates, 0)
      [] i = 25 -> Place(5, "approved", OperatorGates, 0)
      [] i \in {26, 27} -> Place(5, "canary", OperatorGates, 0)

PlaceAt(i) == IF script = "smoke" THEN SmokePlace(i) ELSE OperatorPlace(i)

Before == PlaceAt(pos)
After == PlaceAt(pos + 1)

\* Nobody else has used the environment, and all releases but the last have
\* ended.
Alone(r) ==
    \A s \in Releases :
        /\ s > r => ~Exists(s)
        /\ s < r => status[s] \in Closed
        /\ Exists(s) => envOf[s] = ScriptEnv /\ keyOf[s] = s

\* Every notification has an event_id of its own.
OneEach == \A w \in receipts : w.event = <<w.release, w.gate>>

\* The environment is at place p.
Stands(p) ==
    /\ p.release \in Nat /\ Alone(p.release) /\ OneEach
    /\ current[ScriptEnv] = p.newest
    /\ \A s \in p.cancelled : s \in Releases /\ status[s] = "cancelled"
    /\ p.release \in Releases =>
           /\ status[p.release] = p.status
           /\ previous[p.release] = p.previous
           /\ Len(journal[p.release]) >= p.least
           /\ \A g \in Gates :
                  results[p.release][g] = "missing" <=> g \notin p.reported
           /\ p.status = "evaluating" =>
                  \A g \in p.reported : results[p.release][g] = "passed"

\* The reconciler has ended the canary of place p.
Overtaken(p) ==
    /\ p.status = "canary" /\ p.release \in Releases
    /\ Alone(p.release) /\ OneEach
    /\ status[p.release] = "rolled_back"
    /\ reason[p.release] = Reason("timeout", {}) /\ TimedOut(p.release)

-------------------------------------------------------------------------------
(* The inductive invariant.                                                *)

\* Step `step`, from place p to place n, is the one to be made.
At(step, p, n) == step = Steps[pos] /\ p = Before /\ n = After

\* The script has seen all of the journal of r.
Noted(r) == seen[r] = journal[r]

\* What an answer shows of each release.
Bodies == [r \in Releases |-> Body(ReadRow(r))]

\* The last answer about r shows its row.
Remembered(r) == shown[r] = Bodies[r]

\* The call is to be made, or to be handled.
Waiting(p) ==
    /\ Stands(p)
    /\ \A s \in Releases : Noted(s)
    /\ \A s \in p.cancelled : Remembered(s)

InTime(step, n) ==
    /\ Stands(n)
    /\ \A s \in Releases \ {About(step.call)} : Noted(s)
    /\ \A s \in n.cancelled \ {About(step.call)} : Remembered(s)

\* The assertions after the step are true at place n.
Fits(step, n) ==
    /\ step.code = "ok" /\ ~step.sameBody /\ ~step.sameJournal
    /\ About(step.call) = n.release /\ n.status \in step.statuses
    /\ \/ step.previous = Releases \cup {NoRelease}
       \/ n.previous \in step.previous
    /\ \/ step.traffic = 0..100
       \/ n.status = "succeeded" /\ step.traffic = {100}
    /\ step.events \in 0..n.least

\* The call has committed.
Served(step, n) ==
    /\ InTime(step, n) /\ Fits(step, n)
    /\ reply[Runner].release = n.release
    /\ reason[n.release] \in step.reasons

\* The answer is what the script asserts, and shows a release that is
\* cancelled as it stays.
Told(step, n) ==
    /\ InTime(step, n)
    /\ reply[Runner].code = step.code
    /\ reply[Runner].status \in step.statuses
    /\ reply[Runner].reason \in step.reasons
    /\ reply[Runner].previous \in step.previous
    /\ reply[Runner].traffic \in step.traffic
    /\ About(step.call) \in n.cancelled =>
           Body(reply[Runner]) = Bodies[About(step.call)]
    /\ step.sameBody => Body(reply[Runner]) = shown[About(step.call)]
    /\ step.sameJournal => Noted(About(step.call))

Progress(step, p, n) ==
    /\ stage[Runner] # "idle" =>
           call[Runner] = step.call /\ step.call.kind # "await"
    /\ stage[Runner] \in {"idle", "sent"} => Waiting(p) \/ Overtaken(p)
    /\ stage[Runner] = "committed" => Served(step, n) \/ Overtaken(n)
    /\ stage[Runner] = "answered" =>
           \/ Told(step, n)
           \/ Overtaken(n)
           \/ Overtaken(p) /\ reply[Runner].code # step.code

\* Nothing is in flight.
AllClosed ==
    /\ OneEach /\ stage[Runner] = "idle"
    /\ \A r \in Releases : Exists(r) => status[r] \in Closed

\* The release of the step was timed out before it was observed.
Lost(step) ==
    /\ stage[Runner] = "idle" /\ step.call.kind \in {"deploy", "observe"}
    /\ About(step.call) \in Releases /\ TimedOut(About(step.call))

MemoryTyped ==
    seen \in [Releases -> Seq(Events)] /\ shown \in [Releases -> Replies]

ScriptInv ==
    script # "none" =>
        /\ MemoryTyped
        /\ \E step, p, n :
               /\ At(step, p, n)
               /\ \/ outcome = "running" /\ Progress(step, p, n)
                  \/ outcome = "passed" /\ AllClosed
                  \/ outcome = "failed" /\ Lost(step)
                  \/ outcome = "gave_up" /\ stage[Runner] = "idle"

-------------------------------------------------------------------------------
(* What the steps of the scripts do, by kind: step leads from place p to   *)
(* place n.                                                                *)

ScriptPolicy == Policy[ScriptEnv]

Explained(step, why) == step.reasons = AnyReason \/ why \in step.reasons

SameRelease(p, n) ==
    /\ p.release \in Releases /\ n.release = p.release
    /\ n.previous = p.previous

\* At most k events more.
Longer(p, n, k) == p.least \in Nat /\ n.least \in 0..(p.least + k)

Opens(step, p, n) ==
    /\ step.call = CreateOf(ScriptEnv, n.release)
    /\ step.reasons = AnyReason
    /\ n.release \in Releases /\ p.release = n.release - 1
    /\ p.release = 0 \/ p.status \in Closed
    /\ n.status = "evaluating" /\ n.reported = {} /\ n.least \in {0, 1}
    /\ n.newest = p.newest /\ n.previous = p.newest
    /\ n.cancelled \subseteq p.cancelled

\* A result for another gate.
Accepts(step, p, n, gate, result) ==
    /\ step.call = GateOf(p.release, gate, result)
    /\ SameRelease(p, n) /\ Longer(p, n, 2)
    /\ p.status = "evaluating" /\ gate \notin p.reported
    /\ p.reported \cup {gate} \subseteq ScriptPolicy.required_gates
    /\ n.reported = p.reported \cup {gate}
    /\ n.newest = p.newest /\ n.cancelled = p.cancelled

Reports(step, p, n) ==
    LET missing == ScriptPolicy.required_gates \ n.reported
    IN  /\ \E gate \in Gates : Accepts(step, p, n, gate, "passed")
        /\ missing # {} /\ n.status = "evaluating"
        /\ Explained(step, Reason("gates_missing", missing))

Completes(step, p, n) ==
    /\ \E gate \in Gates : Accepts(step, p, n, gate, "passed")
    /\ n.reported = ScriptPolicy.required_gates
    /\ ScriptPolicy.requires_approval = TRUE /\ n.status = "awaiting_approval"
    /\ step.reasons = AnyReason

Blocks(step, p, n) ==
    \E gate \in Gates :
        /\ Accepts(step, p, n, gate, "failed")
        /\ n.status = "blocked"
        /\ Explained(step, Reason("gates_failed", {gate}))

\* One more change of status.
Changes(p, n) ==
    /\ SameRelease(p, n) /\ Longer(p, n, 1)
    /\ n.reported = p.reported /\ n.status # "evaluating"

Approves(step, p, n) ==
    /\ step.call = ApproveOf(p.release) /\ step.reasons = AnyReason
    /\ Changes(p, n) /\ n.newest = p.newest /\ n.cancelled = p.cancelled
    /\ p.status = "awaiting_approval" /\ n.status = "approved"

Cancels(step, p, n) ==
    /\ step.call = CancelOf(p.release) /\ step.reasons = AnyReason
    /\ Changes(p, n) /\ n.newest = p.newest
    /\ n.cancelled = p.cancelled \cup {p.release}
    /\ p.status = "evaluating" /\ n.status = "cancelled"

Deploys(step, p, n) ==
    /\ step.call = DeployOf(p.release) /\ step.reasons = AnyReason
    /\ Changes(p, n) /\ n.newest = p.newest /\ n.cancelled = p.cancelled
    /\ p.status = "approved" /\ n.status = "canary"

TakesBack(step, p, n) ==
    /\ step.call = RollbackOf(p.release)
    /\ Explained(step, Reason("manual_rollback", {}))
    /\ Changes(p, n) /\ n.newest = p.previous /\ n.cancelled = p.cancelled
    /\ p.newest = p.release
    /\ p.status = "succeeded" /\ n.status = "rolled_back"

\* Enough requests, a limit exceeded, or neither.
Decides(decision, p, n) ==
    \/ /\ decision = "promote"
       /\ n.status = "succeeded" /\ n.newest = p.release
    \/ /\ decision = "rollback"
       /\ n.status = "rolled_back" /\ n.newest = p.previous
    \/ /\ decision = "continue"
       /\ n.status = "canary" /\ n.newest = p.newest

Observes(step, p, n) ==
    \E o \in [request_count : Nat, error_rate : Nat, p95_ms : Nat] :
        /\ step.call = [kind |-> "observe", release |-> p.release,
                        who |-> Observer, observation |-> o]
        /\ o.request_count <= MaxInteger
        /\ Changes(p, n) /\ n.cancelled = p.cancelled
        /\ p.status = "canary"
        /\ Decides(EvaluateCanary(o, ScriptPolicy), p, n)
        /\ Explained(step, CanaryReason(o, ScriptPolicy))

\* The handler commits.
Acts(step, p, n) ==
    /\ Fits(step, n)
    /\ \/ Opens(step, p, n) \/ Reports(step, p, n) \/ Completes(step, p, n)
       \/ Blocks(step, p, n) \/ Approves(step, p, n) \/ Cancels(step, p, n)
       \/ Deploys(step, p, n) \/ TakesBack(step, p, n) \/ Observes(step, p, n)

\* No single field of the answer is asserted.
AnyBody(step) ==
    /\ step.previous = Releases \cup {NoRelease} /\ step.traffic = 0..100
    /\ step.events = 0

\* Nothing is asserted but the code, and that nothing has changed.
Idles(step, p, n) ==
    /\ n = p /\ About(step.call) \in Releases
    /\ AnyBody(step) /\ step.reasons = AnyReason

\* A report after the decision.
ComesLate(step, p, n) ==
    /\ Idles(step, p, n) /\ step.code = "refused" /\ "absent" \in step.statuses
    /\ ~step.sameBody
    /\ p.status = "blocked" /\ p.release \in Releases
    /\ \E gate \in Gates \ p.reported :
           step.call = GateOf(p.release, gate, "passed")

CancelsAgain(step, p, n) ==
    /\ Idles(step, p, n) /\ step.code = "ok" /\ "cancelled" \in step.statuses
    /\ p.status # "canary"
    /\ \E r \in p.cancelled : step.call = CancelOf(r)

Waits(step, p) ==
    /\ step.call.kind = "await" /\ step.call.release = p.release
    /\ p.status = "canary" /\ p.release \in Releases
    /\ step.code = "ok" /\ "rolled_back" \in step.statuses
    /\ step.reasons = {Reason("timeout", {})}
    /\ AnyBody(step) /\ ~step.sameBody /\ ~step.sameJournal

Turn(step, p, n) ==
    Acts(step, p, n) \/ ComesLate(step, p, n) \/ CancelsAgain(step, p, n)

-------------------------------------------------------------------------------
(* One lemma for each kind: the handler accepts the call, and its commit   *)
(* leads to the next place.                                                *)

\* The commit has led to place n, for the given reason.
Done(n, why) ==
    /\ Stands(n)' /\ reason'[n.release] = why
    /\ \A s \in Releases \ {n.release} : journal'[s] = journal[s]

\* The environment of a script is there.
LEMMA ScriptEnvironment ==
    ASSUME ScriptsTyped, script # "none"
    PROVE  /\ script \in {"smoke", "operator"} /\ ScriptEnv \in Envs
           /\ ScriptPolicy \in Policies
<1>1. script \in {"smoke", "operator"} /\ ScriptEnv \in Envs
  BY ScriptsAssumption DEF ScriptsTyped, ScriptEnv
<1> QED BY <1>1, LedgerAssumption DEF ScriptPolicy

\* Only the last release changes.
LEMMA LastChanges ==
    ASSUME NEW p, NEW n, Stands(p), SameRelease(p, n), TypeOK, TypeOK',
           UNCHANGED <<identity, script>>, OneEach',
           \A s \in Releases \ {p.release} : status'[s] = status[s],
           status[p.release] \notin {"absent", "cancelled"},
           status'[p.release] = n.status, n.status # "absent",
           current'[ScriptEnv] = n.newest,
           n.cancelled = p.cancelled
               \cup (IF n.status = "cancelled" THEN {p.release} ELSE {}),
           Len(journal'[p.release]) >= n.least,
           \A g \in Gates :
               results'[p.release][g] = "missing" <=> g \notin n.reported,
           n.status = "evaluating" =>
               \A g \in n.reported : results'[p.release][g] = "passed"
    PROVE  Stands(n)'
<1>1. ScriptEnv' = ScriptEnv
  BY DEF ScriptEnv
<1>2. p.release \in Releases /\ n.release = p.release
      /\ n.previous = p.previous /\ envOf' = envOf /\ keyOf' = keyOf
      /\ previous' = previous
  BY DEF SameRelease, identity
<1>3. Alone(n.release)'
  BY <1>1, <1>2, ReleaseNumbers DEF Stands, Alone, Exists
<1>4. \A s \in n.cancelled : s \in Releases /\ status'[s] = "cancelled"
  BY <1>2 DEF Stands
<1> QED BY <1>1, <1>2, <1>3, <1>4 DEF Stands

\* transition() of the last release.
LEMMA LastMoves ==
    ASSUME NEW p, NEW n, Stands(p), Changes(p, n), TypeOK, TypeOK',
           NEW actor, NEW why, NEW before,
           Transition(p.release, p.status, n.status, actor, why, before, <<>>),
           Len(journal'[p.release]) > Len(journal[p.release]),
           UNCHANGED <<identity, results, receipts, script>>,
           p.status \notin {"absent", "cancelled"}, n.status # "absent",
           current'[ScriptEnv] = n.newest,
           n.cancelled = p.cancelled
               \cup (IF n.status = "cancelled" THEN {p.release} ELSE {})
    PROVE  Done(n, why)
<1> DEFINE r == p.release
<1>1. /\ r \in Releases /\ n.release = r /\ status[r] = p.status
      /\ Len(journal[r]) >= p.least
      /\ p.least \in Nat /\ n.least \in 0..(p.least + 1)
      /\ n.reported = p.reported /\ n.status # "evaluating"
  BY DEF Stands, Changes, SameRelease, Longer
<1>2. /\ status'[r] = n.status /\ reason'[r] = why
      /\ \A s \in Releases \ {r} : /\ status'[s] = status[s]
                                   /\ journal'[s] = journal[s]
  BY <1>1 DEF Transition, Log, TypeOK
<1>3. Len(journal'[r]) >= n.least
  <2>1. Len(journal[r]) \in Nat /\ Len(journal'[r]) \in Nat
    BY <1>1, LenProperties DEF TypeOK
  <2> QED BY <1>1, <2>1
<1>4. OneEach'
  BY DEF OneEach, Stands
<1>5. Stands(n)'
  BY <1>1, <1>2, <1>3, <1>4, LastChanges DEF Changes, Stands
<1> QED BY <1>1, <1>2, <1>5 DEF Done

\* What is known when the call of a step commits for release r.
Commits(step, r) ==
    /\ RowsInv /\ LineageInv /\ UNCHANGED script
    /\ step.call \in ApiCalls /\ r \in Releases /\ Perform(step.call, r)

\* Columns stay typed, and the journal grows.
LEMMA CommitGrows ==
    ASSUME NEW step, NEW r, Commits(step, r)
    PROVE  /\ TypeOK /\ TypeOK' /\ r \in Releases
           /\ Len(journal'[r]) > Len(journal[r])
<1>1. PICK q \in ApiCalls : q = step.call /\ Perform(q, r)
  BY DEF Commits
<1>2. TypeOK /\ r \in Releases
  BY DEF Commits, RowsInv
<1>3. LedgerNext /\ Performed(q, r)
  BY <1>1, <1>2, PerformPerforms
<1>4. TypeOK'
  BY <1>2, <1>3, TypeStep
<1> QED BY <1>2, <1>3, <1>4 DEF Performed

\* approve_release().
LEMMA ApprovesDone ==
    ASSUME NEW step, NEW p, NEW n, NEW r, Approves(step, p, n), Stands(p),
           Commits(step, r)
    PROVE  r = n.release /\ Done(n, Reason("approval_received", {}))
<1>1. /\ p.release \in Releases /\ n.release = p.release
      /\ n.newest = p.newest /\ n.cancelled = p.cancelled
      /\ p.status = "awaiting_approval" /\ n.status = "approved"
      /\ Changes(p, n)
  BY DEF Approves, Changes, SameRelease
<1>2. r = p.release /\ Approve(r, Approver)
  BY DEF Commits, Perform, Approves, ApproveOf
<1>3. /\ Transition(r, p.status, n.status, Approver,
                    Reason("approval_received", {}), <<>>, <<>>)
      /\ UNCHANGED <<identity, results, receipts, current>>
  BY <1>1, <1>2 DEF Approve, ApproveCommitted, gateTables, pointers
<1>4. current'[ScriptEnv] = n.newest
  BY <1>1, <1>3 DEF Stands
<1> QED BY <1>1, <1>2, <1>3, <1>4, CommitGrows, LastMoves DEF Commits

\* cancel_release().
LEMMA CancelsDone ==
    ASSUME NEW step, NEW p, NEW n, NEW r, Cancels(step, p, n), Stands(p),
           Commits(step, r)
    PROVE  r = n.release /\ Done(n, Reason("cancelled_by_operator", {}))
<1>1. /\ p.release \in Releases /\ n.release = p.release
      /\ n.newest = p.newest /\ n.cancelled = p.cancelled \cup {p.release}
      /\ p.status = "evaluating" /\ n.status = "cancelled"
      /\ Changes(p, n) /\ status[p.release] = p.status
  BY DEF Cancels, Changes, SameRelease, Stands
<1>2. r = p.release /\ Cancel(r, Admin)
  BY DEF Commits, Perform, Cancels, CancelOf
<1>3. /\ Transition(r, p.status, n.status, Admin,
                    Reason("cancelled_by_operator", {}), <<>>, <<>>)
      /\ UNCHANGED <<identity, results, receipts, current>>
  BY <1>1, <1>2 DEF Cancel, CancelCommitted, gateTables
<1>4. current'[ScriptEnv] = n.newest
  BY <1>1, <1>3 DEF Stands
<1> QED BY <1>1, <1>2, <1>3, <1>4, CommitGrows, LastMoves DEF Commits

\* deploy_release().
LEMMA DeploysDone ==
    ASSUME NEW step, NEW p, NEW n, NEW r, Deploys(step, p, n), Stands(p),
           Commits(step, r)
    PROVE  r = n.release /\ Done(n, Reason("canary_started", {}))
<1>1. /\ p.release \in Releases /\ n.release = p.release
      /\ n.newest = p.newest /\ n.cancelled = p.cancelled
      /\ p.status = "approved" /\ n.status = "canary" /\ Changes(p, n)
  BY DEF Deploys, Changes, SameRelease
<1>2. r = p.release /\ Deploy(r, 10, Admin)
  BY DEF Commits, Perform, Deploys, DeployOf
<1>3. /\ Transition(r, p.status, n.status, Admin,
                    Reason("canary_started", {}), <<>>, <<>>)
      /\ UNCHANGED <<identity, results, receipts, current>>
  BY <1>1, <1>2 DEF Deploy, DeployCommitted, gateTables, pointers
<1>4. current'[ScriptEnv] = n.newest
  BY <1>1, <1>3 DEF Stands
<1> QED BY <1>1, <1>2, <1>3, <1>4, CommitGrows, LastMoves DEF Commits

\* rollback_release() of the version that is current.
LEMMA TakesBackDone ==
    ASSUME NEW step, NEW p, NEW n, NEW r, TakesBack(step, p, n), Stands(p),
           Commits(step, r), ScriptEnv \in Envs
    PROVE  r = n.release /\ Done(n, Reason("manual_rollback", {}))
<1>1. /\ p.release \in Releases /\ n.release = p.release
      /\ n.newest = p.previous /\ n.cancelled = p.cancelled
      /\ p.status = "succeeded" /\ n.status = "rolled_back" /\ Changes(p, n)
      /\ status[p.release] = p.status /\ previous[p.release] = p.previous
      /\ envOf[p.release] = ScriptEnv
  BY DEF TakesBack, Changes, SameRelease, Stands, Alone, Exists
<1>2. r = p.release /\ Rollback(r, Admin)
  BY DEF Commits, Perform, TakesBack, RollbackOf
<1>3. /\ Transition(r, p.status, n.status, Admin,
                    Reason("manual_rollback", {}), <<>>, <<>>)
      /\ current' = [current EXCEPT ![ScriptEnv] = previous[r]]
      /\ UNCHANGED <<identity, results, receipts>>
  BY <1>1, <1>2 DEF Rollback, RollbackCommitted, gateTables
<1>4. current'[ScriptEnv] = n.newest
  BY <1>1, <1>2, <1>3, CommitGrows DEF TypeOK
<1> QED BY <1>1, <1>2, <1>3, <1>4, CommitGrows, LastMoves DEF Commits

\* observe_release() of a canary, with any decision.
LEMMA ObservesDone ==
    ASSUME NEW step, NEW p, NEW n, NEW r, Observes(step, p, n), Stands(p),
           Commits(step, r), ScriptEnv \in Envs
    PROVE  /\ r = n.release
           /\ \E why : Done(n, why) /\ Explained(step, why)
<1>1. PICK o \in [request_count : Nat, error_rate : Nat, p95_ms : Nat] :
          /\ step.call = [kind |-> "observe", release |-> p.release,
                          who |-> Observer, observation |-> o]
          /\ Changes(p, n) /\ n.cancelled = p.cancelled
          /\ p.status = "canary"
          /\ Decides(EvaluateCanary(o, ScriptPolicy), p, n)
          /\ Explained(step, CanaryReason(o, ScriptPolicy))
  BY DEF Observes
<1>2. /\ p.release \in Releases /\ n.release = p.release
      /\ status[p.release] = p.status /\ previous[p.release] = p.previous
      /\ envOf[p.release] = ScriptEnv /\ n.previous = p.previous
      /\ current[ScriptEnv] = p.newest
  BY <1>1 DEF Changes, SameRelease, Stands, Alone, Exists
<1>3. r = p.release /\ Observe(r, o, Observer)
  BY <1>1 DEF Commits, Perform
<1>4. PICK why : why = CanaryReason(o, ScriptPolicy)
  OBVIOUS
<1>5. PICK decision : decision = EvaluateCanary(o, ScriptPolicy)
  OBVIOUS
<1>6. PICK observed : observed = <<Note("canary.observed", Observer, why)>>
  OBVIOUS
<1>7. /\ \/ /\ decision = "promote"
            /\ Transition(r, "canary", "succeeded", Observer, why, observed,
                          <<>>)
            /\ current' = [current EXCEPT ![ScriptEnv] = r]
         \/ /\ decision = "rollback"
            /\ Transition(r, "canary", "rolled_back", Observer, why, observed,
                          <<>>)
            /\ current' = [current EXCEPT ![ScriptEnv] = previous[r]]
         \/ /\ decision = "continue"
            /\ reason' = [reason EXCEPT ![r] = why]
            /\ Log(r, observed) /\ status' = status /\ current' = current
      /\ UNCHANGED <<identity, results, receipts, script>>
  BY <1>2, <1>3, <1>4, <1>5, <1>6
  DEF Observe, ObserveCommitted, ScriptPolicy, gateTables, pointers, Commits
<1>8. TypeOK /\ TypeOK' /\ Len(journal'[r]) > Len(journal[r])
  BY CommitGrows
<1>9. CASE decision = "promote"
  <2>1. n.status = "succeeded" /\ n.newest = r
    BY <1>1, <1>3, <1>5, <1>9 DEF Decides
  <2>2. Transition(r, p.status, n.status, Observer, why, observed, <<>>)
    BY <1>1, <1>7, <1>9, <2>1
  <2>3. current'[ScriptEnv] = n.newest
    BY <1>7, <1>8, <1>9, <2>1 DEF TypeOK
  <2>4. n.status \notin {"absent", "cancelled"} /\ r = p.release
    BY <1>3, <2>1
  <2>5. Done(n, why)
    BY <1>1, <1>7, <1>8, <2>2, <2>3, <2>4, LastMoves
  <2> QED BY <1>1, <1>2, <1>3, <1>4, <2>5
<1>10. CASE decision = "rollback"
  <2>1. n.status = "rolled_back" /\ n.newest = p.previous
    BY <1>1, <1>5, <1>10 DEF Decides
  <2>2. Transition(r, p.status, n.status, Observer, why, observed, <<>>)
    BY <1>1, <1>7, <1>10, <2>1
  <2>3. current'[ScriptEnv] = n.newest
    BY <1>2, <1>3, <1>7, <1>8, <1>10, <2>1 DEF TypeOK
  <2>4. n.status \notin {"absent", "cancelled"} /\ r = p.release
    BY <1>3, <2>1
  <2>5. Done(n, why)
    BY <1>1, <1>7, <1>8, <2>2, <2>3, <2>4, LastMoves
  <2> QED BY <1>1, <1>2, <1>3, <1>4, <2>5
<1>11. CASE decision = "continue"
  <2>1. n.status = "canary" /\ n.newest = p.newest
    BY <1>1, <1>5, <1>11 DEF Decides
  <2>2. /\ reason'[r] = why /\ status' = status /\ current' = current
        /\ \A s \in Releases \ {r} : journal'[s] = journal[s]
    BY <1>7, <1>8, <1>11, <1>3, <1>2 DEF Log, TypeOK
  <2>3. Len(journal'[r]) >= n.least
    <3>1. journal[r] \in Seq(Events) /\ journal'[r] \in Seq(Events)
      BY <1>2, <1>3, <1>8 DEF TypeOK
    <3>2. /\ p.least \in Nat /\ n.least \in 0..(p.least + 1)
          /\ Len(journal[r]) >= p.least
      BY <1>1, <1>2, <1>3 DEF Changes, Longer, Stands
    <3>3. Len(journal[r]) \in Nat /\ Len(journal'[r]) \in Nat
      BY <3>1, LenProperties
    <3> QED BY <1>8, <3>2, <3>3
  <2>4. OneEach'
    BY <1>7 DEF OneEach, Stands
  <2>5. \A g \in Gates : results'[r][g] = "missing" <=> g \notin n.reported
    BY <1>1, <1>2, <1>3, <1>7 DEF Changes, Stands
  <2>6. n.cancelled = p.cancelled
            \cup (IF n.status = "cancelled" THEN {r} ELSE {})
    BY <1>1, <2>1
  <2>7. Stands(n)'
    BY <1>1, <1>2, <1>3, <1>7, <1>8, <2>1, <2>2, <2>3, <2>4, <2>5, <2>6,
       LastChanges DEF Changes
  <2>8. Done(n, why)
    BY <1>2, <1>3, <2>2, <2>7 DEF Done
  <2> QED BY <1>1, <1>2, <1>3, <1>4, <2>8
<1> QED BY <1>7, <1>9, <1>10, <1>11

\* A result is two events at least.
LEMMA ReportLogsTwo ==
    ASSUME TypeOK, NEW r \in Releases, NEW w, IsReported(r, w)
    PROVE  Len(journal'[r]) >= Len(journal[r]) + 2
<1> DEFINE why == Why(r)
           a == Note("gate.reported", "ci-webhook", NoReason)
           b == Note("release.gates_evaluated", "policy-engine", why)
           c == StatusChanged("evaluating", Ruling(r), "policy-engine", why)
<1>1. why \in Reasons
  <2>1. Exists(r)
    BY DEF IsReported, Exists
  <2> QED BY <2>1, PolicyOfRelease, GateReasonType DEF Why
<1>2. a \in Events /\ b \in Events
  BY <1>1, NoteType, PlainReasonType DEF NoReason, Actors
<1>3. Ruling(r) = "evaluating" \/ c \in Events
  <2>1. Ruling(r) \in {"evaluating", "blocked", "awaiting_approval", "approved"}
    BY EvaluateGatesType DEF Ruling
  <2>2. "evaluating" \in ReleaseStatus /\ Ruling(r) \in ReleaseStatus
        /\ "policy-engine" \in Actors
    BY <2>1 DEF ReleaseStatus, Actors
  <2> QED BY <1>1, <2>2, StatusChangedType
<1>4. \/ /\ Ruling(r) = "evaluating"
         /\ journal'[r] = journal[r] \o (<<a>> \o <<b>>)
      \/ /\ Ruling(r) # "evaluating"
         /\ journal'[r] = journal[r] \o ((<<a>> \o <<b>>) \o <<c>>)
  BY DEF IsReported, Evaluated, Reported
<1> HIDE DEF a, b, c, why
<1>5. /\ <<a>> \o <<b>> \in Seq(Events) /\ Len(<<a>> \o <<b>>) = 2
  <2>1. <<a>> \in Seq(Events) /\ <<b>> \in Seq(Events)
        /\ Len(<<a>>) = 1 /\ Len(<<b>>) = 1
    BY <1>2
  <2> QED BY <2>1, ConcatProperties
<1>6. PICK two \in Seq(Events) : two = <<a>> \o <<b>> /\ Len(two) = 2
  BY <1>5
<1>7. journal[r] \in Seq(Events) /\ Len(journal[r]) \in Nat
  BY LenProperties DEF TypeOK
<1>8. PICK old \in Seq(Events) : old = journal[r] /\ Len(old) \in Nat
  BY <1>7
<1>9. CASE Ruling(r) = "evaluating"
  <2>1. journal'[r] = old \o two
    BY <1>4, <1>6, <1>8, <1>9
  <2>2. Len(old \o two) = Len(old) + Len(two)
    BY ConcatProperties
  <2> QED BY <1>6, <1>8, <2>1, <2>2
<1>10. CASE Ruling(r) # "evaluating"
  <2>1. <<c>> \in Seq(Events) /\ Len(<<c>>) = 1
    <3>1. c \in Events
      BY <1>3, <1>10
    <3> QED BY <3>1
  <2>2. PICK one \in Seq(Events) : one = <<c>> /\ Len(one) = 1
    BY <2>1
  <2>3. journal'[r] = old \o (two \o one)
    BY <1>4, <1>6, <1>8, <1>10, <2>2
  <2>4. two \o one \in Seq(Events) /\ Len(two \o one) = Len(two) + Len(one)
    BY ConcatProperties
  <2>5. Len(old \o (two \o one)) = Len(old) + Len(two \o one)
    BY <2>4, ConcatProperties
  <2> QED BY <1>6, <1>8, <2>2, <2>3, <2>4, <2>5
<1> QED BY <1>9, <1>10

\* The result that a script reports.
ResultOf(r, gate, result) ==
    [event |-> <<r, gate>>, release |-> r, gate |-> gate, status |-> result,
     details |-> Payload]

\* The result is stored, and the policy engine's decision is place n if it has
\* the same status.
Evaluates(p, n, r, gate, result) ==
    /\ r = n.release /\ status'[r] = Ruling(r) /\ reason'[r] = Why(r)
    /\ envOf[r] = ScriptEnv
    /\ results'[r] = [results[r] EXCEPT ![gate] = result]
    /\ \A g \in Gates : results'[r][g] = "missing" <=> g \notin n.reported
    /\ \A g \in p.reported : results'[r][g] = "passed"
    /\ \A s \in Releases \ {r} : journal'[s] = journal[s]
    /\ /\ status'[r] = n.status /\ n.status \notin {"absent", "cancelled"}
       /\ n.status = "evaluating" => result = "passed"
       => Stands(n)'

\* receive_gate_webhook().
LEMMA AcceptsDone ==
    ASSUME NEW step, NEW p, NEW n, NEW r, NEW gate \in Gates,
           NEW result \in GateStatus, Accepts(step, p, n, gate, result),
           Stands(p), Commits(step, r)
    PROVE  Evaluates(p, n, r, gate, result)
<1> DEFINE w == ResultOf(r, gate, result)
<1>1. /\ p.release \in Releases /\ n.release = p.release
      /\ status[p.release] = "evaluating" /\ gate \notin p.reported
      /\ n.reported = p.reported \cup {gate}
      /\ n.newest = p.newest /\ n.cancelled = p.cancelled
      /\ envOf[p.release] = ScriptEnv /\ current[ScriptEnv] = p.newest
      /\ p.status = "evaluating" /\ SameRelease(p, n)
  BY DEF Accepts, SameRelease, Stands, Alone, Exists
<1>2. r = p.release /\ ReceiveWebhook(w)
  BY DEF Commits, Perform, Accepts, GateOf, ResultOf
<1>3. /\ UNCHANGED <<identity, current, script>>
      /\ receipts' = receipts \cup {w}
      /\ results' = [results EXCEPT ![r][gate] = result]
  BY <1>2 DEF ReceiveWebhook, WebhookCommitted, ResultOf, Commits
<1>4. /\ TypeOK /\ TypeOK' /\ r \in Releases
  BY CommitGrows
<1>5. /\ results'[r] = [results[r] EXCEPT ![gate] = result]
      /\ results[r] \in [Gates -> GateStatus \cup {"missing"}]
  BY <1>3, <1>4 DEF TypeOK
<1>6. \A g \in Gates : results[r][g] = "missing" <=> g \notin p.reported
  BY <1>1, <1>2 DEF Stands
<1>7. \A g \in Gates : results'[r][g] = "missing" <=> g \notin n.reported
  BY <1>1, <1>5, <1>6 DEF GateStatus
<1>8. \A g \in p.reported : results'[r][g] = "passed"
  <2>1. \A g \in p.reported : results[r][g] = "passed"
    BY <1>1, <1>2 DEF Stands
  <2>2. p.reported \subseteq Gates
    <3>1. Exists(r) /\ envOf[r] = ScriptEnv
      BY <1>1, <1>2 DEF Exists
    <3>2. ScriptPolicy.required_gates \subseteq Gates
      BY <1>4, <3>1, PolicyOfRelease DEF ScriptPolicy
    <3> QED BY <3>2 DEF Accepts
  <2> QED BY <1>1, <1>5, <2>1, <2>2
<1>9. w \in Webhooks /\ w.release = r /\ w.event = <<w.release, w.gate>>
  <2>1. step.call \in ApiCalls /\ step.call.kind = "webhook"
        /\ step.call.body = w
    BY <1>2 DEF Commits, Accepts, GateOf, ResultOf
  <2> QED BY <2>1, CallParts DEF ResultOf
<1> HIDE DEF w
<1>10. \A s \in Releases : RowStep(s)
  BY <1>2, <1>4, <1>9, WebhookRow
<1>11. ~GatesKept(r) /\ status[r] = "evaluating"
  BY <1>1, <1>2, <1>5, <1>6, <1>7 DEF GatesKept
<1>12. PICK v \in Webhooks : IsReported(r, v)
  BY <1>4, <1>10, <1>11
  DEF RowStep, Kept, IsCreated, IsApproved, IsCancelled, IsDeployed, GoesOn,
      IsPromoted, IsRolledBack, Moves
<1>13. status'[r] = Ruling(r) /\ reason'[r] = Why(r)
  BY <1>12 DEF IsReported
<1>14. \A s \in Releases \ {r} : journal'[s] = journal[s]
                                 /\ status'[s] = status[s]
  <2>1. PICK e, told, before : GatesRecalculated(r, e, told, before)
    BY <1>2, <1>9 DEF ReceiveWebhook, WebhookCommitted
  <2>2. /\ \E events : Log(r, events)
        /\ \E st : status' = [status EXCEPT ![r] = st] \/ status' = status
    BY <2>1, Zenon DEF GatesRecalculated, Transition
  <2> QED BY <1>4, <2>2, LogRow DEF TypeOK
<1>15. ASSUME status'[r] = n.status, n.status \notin {"absent", "cancelled"},
              n.status = "evaluating" => result = "passed"
       PROVE  Stands(n)'
  <2>1. Len(journal'[r]) >= n.least
    <3>1. /\ p.least \in Nat /\ n.least \in 0..(p.least + 2)
          /\ Len(journal[r]) >= p.least
      BY <1>1, <1>2 DEF Accepts, Longer, Stands
    <3>2. journal[r] \in Seq(Events) /\ journal'[r] \in Seq(Events)
      BY <1>4 DEF TypeOK
    <3>3. Len(journal[r]) \in Nat /\ Len(journal'[r]) \in Nat
      BY <3>2, LenProperties
    <3> QED BY <1>4, <1>12, <3>1, <3>3, ReportLogsTwo
  <2>2. OneEach'
    BY <1>3, <1>9 DEF Stands, OneEach
  <2>3. n.status = "evaluating" =>
            \A g \in n.reported : results'[r][g] = "passed"
    BY <1>1, <1>4, <1>5, <1>8, <1>15
  <2>4. current'[ScriptEnv] = n.newest
    BY <1>1, <1>3
  <2> QED BY <1>1, <1>2, <1>3, <1>4, <1>7, <1>14, <1>15, <2>1, <2>2, <2>3,
             <2>4, LastChanges
<1> QED BY <1>1, <1>2, <1>5, <1>7, <1>8, <1>13, <1>14, <1>15 DEF Evaluates

\* The last result but some.
LEMMA ReportsDone ==
    ASSUME NEW step, NEW p, NEW n, NEW r, Reports(step, p, n), Stands(p),
           Commits(step, r)
    PROVE  /\ r = n.release
           /\ \E why : Done(n, why) /\ Explained(step, why)
<1> DEFINE required == ScriptPolicy.required_gates
           missing == required \ n.reported
<1>1. PICK gate \in Gates : Accepts(step, p, n, gate, "passed")
  BY DEF Reports
<1>2. /\ missing # {} /\ n.status = "evaluating"
      /\ Explained(step, Reason("gates_missing", missing))
  BY DEF Reports
<1>3. /\ r = n.release /\ status'[r] = Ruling(r) /\ reason'[r] = Why(r)
      /\ envOf[r] = ScriptEnv
      /\ results'[r] = [results[r] EXCEPT ![gate] = "passed"]
      /\ \A g \in Gates : results'[r][g] = "missing" <=> g \notin n.reported
      /\ \A g \in p.reported : results'[r][g] = "passed"
      /\ \A s \in Releases \ {r} : journal'[s] = journal[s]
      /\ status'[r] = n.status => Stands(n)'
  <2>1. Evaluates(p, n, r, gate, "passed")
    BY <1>1, AcceptsDone DEF GateStatus
  <2> QED BY <1>1, <1>2, <2>1 DEF Evaluates
<1>4. r \in Releases /\ TypeOK
  BY CommitGrows
<1>5. /\ n.reported = p.reported \cup {gate} /\ n.reported \subseteq required
      /\ Exists(r) /\ required \subseteq Gates
  <2>1. /\ n.reported = p.reported \cup {gate} /\ n.reported \subseteq required
        /\ p.release = n.release /\ p.release \in Releases
        /\ p.status = "evaluating"
    BY <1>1 DEF Accepts, SameRelease
  <2>2. Exists(r)
    BY <1>3, <2>1 DEF Stands, Exists
  <2> QED BY <1>3, <1>4, <2>1, <2>2, PolicyOfRelease DEF ScriptPolicy
<1>6. /\ \A g \in n.reported : results'[r][g] = "passed"
  BY <1>3, <1>4, <1>5 DEF TypeOK
<1>7. /\ FailedGates(required, results'[r]) = {}
      /\ MissingGates(required, results'[r]) = missing
  BY <1>3, <1>5, <1>6 DEF FailedGates, MissingGates
<1>8. Ruling(r) = "evaluating" /\ Why(r) = Reason("gates_missing", missing)
  BY <1>2, <1>3, <1>7
  DEF Ruling, Why, EvaluateGates, GateReason, ScriptPolicy
<1>9. Done(n, Reason("gates_missing", missing))
  BY <1>2, <1>3, <1>8 DEF Done
<1> QED BY <1>2, <1>3, <1>9

\* The last result.
LEMMA CompletesDone ==
    ASSUME NEW step, NEW p, NEW n, NEW r, Completes(step, p, n), Stands(p),
           Commits(step, r)
    PROVE  r = n.release /\ \E why : Done(n, why)
<1> DEFINE required == ScriptPolicy.required_gates
<1>1. PICK gate \in Gates : Accepts(step, p, n, gate, "passed")
  BY DEF Completes
<1>2. /\ n.reported = required /\ ScriptPolicy.requires_approval = TRUE
      /\ n.status = "awaiting_approval"
  BY DEF Completes
<1>3. /\ r = n.release /\ status'[r] = Ruling(r) /\ reason'[r] = Why(r)
      /\ envOf[r] = ScriptEnv
      /\ results'[r] = [results[r] EXCEPT ![gate] = "passed"]
      /\ \A g \in p.reported : results'[r][g] = "passed"
      /\ \A s \in Releases \ {r} : journal'[s] = journal[s]
      /\ status'[r] = n.status => Stands(n)'
  <2>1. Evaluates(p, n, r, gate, "passed")
    BY <1>1, AcceptsDone DEF GateStatus
  <2> QED BY <1>1, <1>2, <2>1 DEF Evaluates
<1>4. r \in Releases /\ TypeOK
  BY CommitGrows
<1>5. n.reported = p.reported \cup {gate} /\ required \subseteq Gates
  <2>1. /\ n.reported = p.reported \cup {gate}
        /\ p.release = n.release /\ p.release \in Releases
        /\ p.status = "evaluating"
    BY <1>1 DEF Accepts, SameRelease
  <2>2. Exists(r)
    BY <1>3, <2>1 DEF Stands, Exists
  <2> QED BY <1>3, <1>4, <2>1, <2>2, PolicyOfRelease DEF ScriptPolicy
<1>6. \A g \in required : results'[r][g] = "passed"
  BY <1>2, <1>3, <1>4, <1>5 DEF TypeOK
<1>7. /\ FailedGates(required, results'[r]) = {}
      /\ MissingGates(required, results'[r]) = {}
  BY <1>6 DEF FailedGates, MissingGates
<1>8. Ruling(r) = "awaiting_approval"
  BY <1>2, <1>3, <1>7 DEF Ruling, EvaluateGates, ScriptPolicy
<1>9. Done(n, Why(r))
  BY <1>2, <1>3, <1>8 DEF Done
<1> QED BY <1>3, <1>9

\* A result that blocks the release.
LEMMA BlocksDone ==
    ASSUME NEW step, NEW p, NEW n, NEW r, Blocks(step, p, n), Stands(p),
           Commits(step, r)
    PROVE  /\ r = n.release
           /\ \E why : Done(n, why) /\ Explained(step, why)
<1> DEFINE required == ScriptPolicy.required_gates
<1>1. PICK gate \in Gates :
          /\ Accepts(step, p, n, gate, "failed") /\ n.status = "blocked"
          /\ Explained(step, Reason("gates_failed", {gate}))
  BY DEF Blocks
<1>2. /\ r = n.release /\ status'[r] = Ruling(r) /\ reason'[r] = Why(r)
      /\ envOf[r] = ScriptEnv
      /\ results'[r] = [results[r] EXCEPT ![gate] = "failed"]
      /\ \A g \in Gates : results'[r][g] = "missing" <=> g \notin n.reported
      /\ \A g \in p.reported : results'[r][g] = "passed"
      /\ \A s \in Releases \ {r} : journal'[s] = journal[s]
      /\ status'[r] = n.status => Stands(n)'
  <2>1. Evaluates(p, n, r, gate, "failed")
    BY <1>1, AcceptsDone DEF GateStatus
  <2> QED BY <1>1, <2>1 DEF Evaluates
<1>3. r \in Releases /\ TypeOK
  BY CommitGrows
<1>4. /\ n.reported = p.reported \cup {gate} /\ n.reported \subseteq required
      /\ required \subseteq Gates
  <2>1. /\ n.reported = p.reported \cup {gate} /\ n.reported \subseteq required
        /\ p.release = n.release /\ p.release \in Releases
        /\ p.status = "evaluating"
    BY <1>1 DEF Accepts, SameRelease
  <2>2. Exists(r)
    BY <1>2, <2>1 DEF Stands, Exists
  <2> QED BY <1>2, <1>3, <2>1, <2>2, PolicyOfRelease DEF ScriptPolicy
<1>5. FailedGates(required, results'[r]) = {gate}
  <2>1. results'[r][gate] = "failed"
    BY <1>2, <1>3 DEF TypeOK
  <2>2. ASSUME NEW g \in required, g # gate PROVE results'[r][g] # "failed"
    BY <1>2, <1>4, <2>2
  <2> QED BY <1>4, <2>1, <2>2 DEF FailedGates
<1>6. Ruling(r) = "blocked" /\ Why(r) = Reason("gates_failed", {gate})
  BY <1>2, <1>5 DEF Ruling, Why, EvaluateGates, GateReason, ScriptPolicy
<1>7. Done(n, Reason("gates_failed", {gate}))
  BY <1>1, <1>2, <1>6 DEF Done
<1> QED BY <1>1, <1>2, <1>7

\* create_release().
LEMMA OpensDone ==
    ASSUME NEW step, NEW p, NEW n, NEW r, Opens(step, p, n), Stands(p),
           Commits(step, r), ScriptEnv \in Envs
    PROVE  r = n.release /\ \E why : Done(n, why)
<1>1. /\ n.release \in Releases /\ p.release = n.release - 1
      /\ p.release = 0 \/ p.status \in Closed
      /\ n.status = "evaluating" /\ n.reported = {} /\ n.least \in {0, 1}
      /\ n.newest = p.newest /\ n.previous = p.newest
      /\ n.cancelled \subseteq p.cancelled
  BY DEF Opens
<1>2. /\ Create(r, ScriptEnv, n.release, n.release, Admin)
      /\ UNCHANGED script
  BY DEF Commits, Perform, Opens, CreateOf
<1>3. /\ TypeOK /\ TypeOK' /\ r \in Releases
      /\ Len(journal'[r]) > Len(journal[r])
  BY CommitGrows
<1>4. /\ IsNext(r)
      /\ status' = [status EXCEPT ![r] = "evaluating"]
      /\ envOf' = [envOf EXCEPT ![r] = ScriptEnv]
      /\ keyOf' = [keyOf EXCEPT ![r] = n.release]
      /\ previous' = [previous EXCEPT ![r] = current[ScriptEnv]]
      /\ UNCHANGED <<current, results, receipts, script>>
      /\ \E events : Log(r, events)
  BY <1>2 DEF Create, CreateCommitted, gateTables
<1>5. \A s \in Releases : Exists(s) <=> s <= p.release
  <2>1. \A s \in Releases : s > p.release => ~Exists(s)
    BY DEF Stands, Alone
  <2>2. \A s \in Releases : s < p.release => Exists(s)
    BY DEF Stands, Alone, Closed, Exists
  <2>3. p.release \in Releases => Exists(p.release)
    BY <1>1, ReleaseNumbers DEF Stands, Closed, Exists
  <2>4. \A s \in Releases : s \in Nat /\ s > 0
    BY ReleaseNumbers
  <2> QED BY <1>1, <2>1, <2>2, <2>3, <2>4
<1>6. r = n.release
  <2>1. ~Exists(r) /\ \A s \in Releases : s < r => Exists(s)
    BY <1>4 DEF IsNext
  <2> QED BY <1>1, <1>3, <1>5, <2>1, ReleaseNumbers
<1>7. /\ status'[r] = "evaluating" /\ envOf'[r] = ScriptEnv
      /\ keyOf'[r] = r /\ previous'[r] = n.newest
      /\ \A s \in Releases \ {r} :
             /\ status'[s] = status[s] /\ envOf'[s] = envOf[s]
             /\ keyOf'[s] = keyOf[s] /\ journal'[s] = journal[s]
  <2>1. \A s \in Releases \ {r} : journal'[s] = journal[s]
    BY <1>3, <1>4, LogRow
  <2>2. current[ScriptEnv] = n.newest
    BY <1>1 DEF Stands
  <2> QED BY <1>3, <1>4, <1>6, <2>1, <2>2 DEF TypeOK
<1>8. ScriptEnv' = ScriptEnv
  BY <1>2 DEF ScriptEnv
<1>9. Alone(r)'
  <2> SUFFICES ASSUME NEW s \in Releases
               PROVE  /\ s > r => ~Exists(s)'
                      /\ s < r => status'[s] \in Closed
                      /\ Exists(s)' => /\ envOf'[s] = ScriptEnv
                                       /\ keyOf'[s] = s
    BY <1>8 DEF Alone
  <2>1. CASE s = r
    BY <1>3, <1>7, <2>1, ReleaseNumbers
  <2>2. CASE s # r
    <3>1. /\ status'[s] = status[s] /\ envOf'[s] = envOf[s]
          /\ keyOf'[s] = keyOf[s]
          /\ Exists(s)' <=> Exists(s)
      BY <1>7, <2>2 DEF Exists
    <3>2. s > r => ~Exists(s)
      BY <1>1, <1>5, <1>6, ReleaseNumbers
    <3>3. ASSUME s < r PROVE status[s] \in Closed
      <4>1. s < p.release \/ (s = p.release /\ p.release # 0)
        BY <1>1, <1>6, <3>3, ReleaseNumbers
      <4>2. /\ s < p.release => status[s] \in Closed
            /\ p.release \in Releases => status[p.release] = p.status
        BY DEF Stands, Alone
      <4> QED BY <1>1, <4>1, <4>2
    <3>4. Exists(s) => envOf[s] = ScriptEnv /\ keyOf[s] = s
      BY DEF Stands, Alone
    <3> QED BY <3>1, <3>2, <3>3, <3>4
  <2> QED BY <2>1, <2>2
<1>10. OneEach'
  BY <1>4 DEF Stands, OneEach
<1>11. \A s \in n.cancelled : s \in Releases /\ status'[s] = "cancelled"
  <2>1. \A s \in n.cancelled : s \in Releases /\ status[s] = "cancelled"
    BY <1>1 DEF Stands
  <2>2. status[r] = "absent"
    BY <1>4 DEF IsNext, Exists
  <2> QED BY <1>7, <2>1, <2>2
<1>12. results'[r] = [g \in Gates |-> "missing"]
  <2>1. Blank(r) /\ status[r] = "absent"
    BY <1>3, <1>4 DEF Commits, RowsInv, RowInv, IsNext, Exists
  <2> QED BY <1>4, <2>1 DEF Blank
<1>13. Len(journal'[r]) >= n.least
  <2>1. journal[r] \in Seq(Events) /\ journal'[r] \in Seq(Events)
    BY <1>3 DEF TypeOK
  <2>2. Len(journal[r]) \in Nat /\ Len(journal'[r]) \in Nat
    BY <2>1, LenProperties
  <2> QED BY <1>1, <1>3, <2>2
<1>14. Stands(n)'
  <2>1. current'[ScriptEnv] = n.newest
    BY <1>1, <1>4 DEF Stands
  <2>2. n.release \in Nat
    BY <1>1, ReleaseNumbers
  <2> QED BY <1>1, <1>6, <1>7, <1>8, <1>9, <1>10, <1>11, <1>12, <1>13, <2>1,
             <2>2 DEF Stands
<1> QED BY <1>6, <1>7, <1>14 DEF Done

-------------------------------------------------------------------------------
(* What the handlers answer.                                               *)

\* What is known when the call of a step is handled.
Handles(step) ==
    /\ RowsInv /\ LineageInv /\ ScriptEnv \in Envs
    /\ step.call \in ApiCalls

\* Nobody holds the environment.
LEMMA FreeWhenClosed ==
    ASSUME TypeOK, Ownership, ScriptEnv \in Envs, NEW r \in Nat, Alone(r),
           r \in Releases => status[r] \in Closed
    PROVE  active[ScriptEnv] = NoRelease
<1> SUFFICES ASSUME active[ScriptEnv] # NoRelease PROVE FALSE
  OBVIOUS
<1>1. PICK s \in Releases : active[ScriptEnv] = s
  BY DEF TypeOK
<1>2. status[s] \in OpenStatus
  BY <1>1 DEF Ownership
<1>3. status[s] # "absent" /\ status[s] \notin Closed
  BY <1>2 DEF OpenStatus, Closed
<1>4. ~(s > r) /\ ~(s < r) /\ s # r
  BY <1>3 DEF Alone, Exists
<1> QED BY <1>4, ReleaseNumbers

\* The last release holds the environment while it is in flight.
LEMMA LastIsActive ==
    ASSUME NEW step, Handles(step), NEW p, Stands(p), p.release \in Releases,
           p.status \in OpenStatus
    PROVE  /\ Exists(p.release) /\ envOf[p.release] = ScriptEnv
           /\ status[p.release] = p.status
           /\ OwnsEnvironment(p.release, active[envOf[p.release]])
<1>1. status[p.release] = p.status /\ Ownership /\ ScriptEnv \in Envs
  BY DEF Stands, Handles, LineageInv
<1>2. Exists(p.release) /\ envOf[p.release] = ScriptEnv
  BY <1>1 DEF Stands, Alone, Exists, OpenStatus
<1> QED BY <1>1, <1>2 DEF Ownership, OwnsEnvironment

\* Its key is new.
LEMMA OpensAccepted ==
    ASSUME NEW step, Handles(step), NEW p, NEW n, Opens(step, p, n), Stands(p)
    PROVE  Verdict(step.call) = "do"
<1>1. /\ n.release \in Releases /\ p.release = n.release - 1
      /\ p.release = 0 \/ p.status \in Closed
      /\ step.call = CreateOf(ScriptEnv, n.release)
  BY DEF Opens
<1>2. p.release \in Nat /\ n.release > p.release
  BY <1>1, ReleaseNumbers
<1>3. p.release \in Releases => status[p.release] \in Closed
  BY <1>1, ReleaseNumbers DEF Stands
<1>4. active[ScriptEnv] = NoRelease
  BY <1>2, <1>3, FreeWhenClosed DEF Handles, LineageInv, Stands
<1>5. WithKey(ScriptEnv, n.release) = {}
  <2> SUFFICES ASSUME NEW r \in Releases, Exists(r), keyOf[r] = n.release
               PROVE  FALSE
    BY DEF WithKey
  <2>1. r = n.release /\ r > p.release
    BY <1>2 DEF Stands, Alone
  <2> QED BY <2>1 DEF Stands, Alone
<1> QED BY <1>1, <1>4, <1>5
        DEF Verdict, CreateOf, CreateVerdict, DoOrRefuse

\* No notification for the gate has come.
LEMMA NoReceiptYet ==
    ASSUME NEW step, Handles(step), NEW p, Stands(p), p.release \in Releases,
           NEW gate \in Gates, gate \notin p.reported
    PROVE  ReceiptsOf(<<p.release, gate>>) = {}
<1> SUFFICES ASSUME NEW w \in receipts, w.event = <<p.release, gate>>
             PROVE  FALSE
  BY DEF ReceiptsOf
<1>1. w.release = p.release /\ w.gate = gate
  BY DEF Stands, OneEach
<1>2. w \in Webhooks
  BY DEF Handles, RowsInv, TypeOK
<1>3. results[p.release][gate] = w.status
  BY <1>1 DEF Handles, RowsInv, Agrees, Accepted
<1>4. results[p.release][gate] = "missing"
  BY DEF Stands
<1>5. w.status # "missing"
  BY <1>2 DEF Webhooks, GateStatus
<1> QED BY <1>3, <1>4, <1>5

\* It is accepted.
LEMMA AcceptsAccepted ==
    ASSUME NEW step, Handles(step), NEW p, NEW n, NEW gate \in Gates,
           NEW result \in GateStatus, Accepts(step, p, n, gate, result),
           Stands(p)
    PROVE  Verdict(step.call) = "do"
<1>1. /\ p.release \in Releases /\ p.status = "evaluating"
      /\ gate \notin p.reported /\ gate \in ScriptPolicy.required_gates
      /\ step.call = GateOf(p.release, gate, result)
  BY DEF Accepts, SameRelease
<1>2. /\ Exists(p.release) /\ envOf[p.release] = ScriptEnv
      /\ status[p.release] = "evaluating"
  BY <1>1, LastIsActive DEF OpenStatus
<1>3. ReceiptsOf(<<p.release, gate>>) = {}
  BY <1>1, NoReceiptYet
<1>4. results[p.release][gate] = "missing"
  BY <1>1 DEF Stands
<1> DEFINE w == ResultOf(p.release, gate, result)
<1>5. WebhookVerdict(w) = "do"
  BY <1>1, <1>2, <1>3, <1>4
  DEF ResultOf, WebhookVerdict, DoOrRefuse, SameResult, ScriptPolicy
<1>6. step.call.kind = "webhook" /\ step.call.body = w
  BY <1>1 DEF GateOf, ResultOf
<1> QED BY <1>5, <1>6 DEF Verdict

\* The gates that a release past its evaluation needs have passed.
LEMMA GatesHavePassed ==
    ASSUME NEW step, Handles(step), NEW r \in Releases,
           status[r] \in {"awaiting_approval", "approved"}
    PROVE  PassedGates(envOf[r], results[r])
<1>1. TypeOK /\ Admission /\ Exists(r)
  BY DEF Handles, RowsInv, Exists
<1>2. \A g \in Policy[envOf[r]].required_gates : results[r][g] = "passed"
  BY <1>1 DEF Admission
<1>3. /\ Policy[envOf[r]].required_gates \in SUBSET Gates
      /\ results[r] \in [Gates -> GateStatus \cup {"missing"}]
  BY <1>1, PolicyOfRelease DEF TypeOK
<1> QED BY <1>2, <1>3, GatesDecide DEF PassedGates

\* The other calls of a script are accepted too.
LEMMA MovesAccepted ==
    ASSUME NEW step, Handles(step), NEW p, NEW n, Stands(p),
           \/ Approves(step, p, n) \/ Cancels(step, p, n)
           \/ Deploys(step, p, n) \/ Observes(step, p, n)
    PROVE  Verdict(step.call) = "do"
<1>1. p.release \in Releases /\ p.status \in OpenStatus
  BY DEF Approves, Cancels, Deploys, Observes, Changes, SameRelease, OpenStatus
<1>2. /\ Exists(p.release) /\ status[p.release] = p.status
      /\ OwnsEnvironment(p.release, active[envOf[p.release]])
  BY <1>1, LastIsActive
<1>3. CASE Approves(step, p, n)
  <2>1. step.call = ApproveOf(p.release) /\ p.status = "awaiting_approval"
    BY <1>3 DEF Approves
  <2>2. PassedGates(envOf[p.release], results[p.release])
    BY <1>1, <1>2, <2>1, GatesHavePassed
  <2> QED BY <1>2, <2>1, <2>2 DEF Verdict, ApproveOf, DoOrRefuse
<1>4. CASE Cancels(step, p, n)
  <2>1. step.call = CancelOf(p.release) /\ p.status = "evaluating"
    BY <1>4 DEF Cancels
  <2> QED BY <1>2, <2>1
          DEF Verdict, CancelOf, CancelVerdict, MayCancel, MayMove, Allowed
<1>5. CASE Deploys(step, p, n)
  <2>1. step.call = DeployOf(p.release) /\ p.status = "approved"
    BY <1>5 DEF Deploys
  <2>2. PassedGates(envOf[p.release], results[p.release])
    BY <1>1, <1>2, <2>1, GatesHavePassed
  <2> QED BY <1>2, <2>1, <2>2
          DEF Verdict, DeployOf, DoOrRefuse, MayDeploy, MayMove, Allowed
<1>6. CASE Observes(step, p, n)
  <2>1. PICK o \in [request_count : Nat, error_rate : Nat, p95_ms : Nat] :
            /\ step.call = [kind |-> "observe", release |-> p.release,
                            who |-> Observer, observation |-> o]
            /\ o.request_count <= MaxInteger /\ p.status = "canary"
    BY <1>6 DEF Observes
  <2> QED BY <1>2, <2>1 DEF Verdict, ObserveVerdict, Storable
<1> QED BY <1>3, <1>4, <1>5, <1>6

\* So is the rollback of the release that is current.
LEMMA TakesBackAccepted ==
    ASSUME NEW step, Handles(step), NEW p, NEW n, Stands(p),
           TakesBack(step, p, n)
    PROVE  Verdict(step.call) = "do"
<1>1. /\ step.call = RollbackOf(p.release) /\ p.status = "succeeded"
      /\ p.release \in Releases /\ p.newest = p.release
  BY DEF TakesBack, Changes, SameRelease
<1>2. /\ status[p.release] = "succeeded" /\ Exists(p.release)
      /\ envOf[p.release] = ScriptEnv /\ current[ScriptEnv] = p.release
  BY <1>1 DEF Stands, Alone, Exists
<1>3. active[ScriptEnv] = NoRelease
  BY <1>1, <1>2, FreeWhenClosed, ReleaseNumbers
  DEF Handles, LineageInv, Stands, Closed
<1> QED BY <1>1, <1>2, <1>3
        DEF Verdict, RollbackOf, DoOrRefuse, MayRollBack, MayMove, Allowed

\* A step that commits is accepted, and leads to its place.
LEMMA ActsAccepted ==
    ASSUME NEW step, Handles(step), NEW p, NEW n, Stands(p), Acts(step, p, n)
    PROVE  Verdict(step.call) = "do"
<1>1. ASSUME NEW gate \in Gates, NEW result \in GateStatus,
             Accepts(step, p, n, gate, result)
      PROVE  Verdict(step.call) = "do"
  BY <1>1, AcceptsAccepted
<1>2. CASE Reports(step, p, n) \/ Completes(step, p, n) \/ Blocks(step, p, n)
  <2>1. "passed" \in GateStatus /\ "failed" \in GateStatus
    BY DEF GateStatus
  <2> QED BY <1>1, <1>2, <2>1 DEF Reports, Completes, Blocks
<1> QED BY <1>2, OpensAccepted, MovesAccepted, TakesBackAccepted DEF Acts

\* The commit of a step.
LEMMA ActsDone ==
    ASSUME NEW step, Handles(step), NEW p, NEW n, Stands(p), Acts(step, p, n),
           NEW r, Commits(step, r)
    PROVE  /\ r = n.release /\ Stands(n)' /\ reason'[r] \in step.reasons
           /\ \A s \in Releases \ {r} : journal'[s] = journal[s]
<1>1. r = n.release
      /\ \E why : Done(n, why)
                  /\ (step.reasons = AnyReason \/ why \in step.reasons)
  <2>1. ScriptEnv \in Envs
    BY DEF Handles
  <2>2. CASE Opens(step, p, n)
    BY <2>1, <2>2, OpensDone DEF Opens
  <2>3. CASE Reports(step, p, n)
    BY <2>3, ReportsDone DEF Explained
  <2>4. CASE Completes(step, p, n)
    BY <2>4, CompletesDone DEF Completes
  <2>5. CASE Blocks(step, p, n)
    BY <2>5, BlocksDone DEF Explained
  <2>6. CASE Approves(step, p, n)
    BY <2>6, ApprovesDone DEF Approves
  <2>7. CASE Cancels(step, p, n)
    BY <2>7, CancelsDone DEF Cancels
  <2>8. CASE Deploys(step, p, n)
    BY <2>8, DeploysDone DEF Deploys
  <2>9. CASE TakesBack(step, p, n)
    BY <2>1, <2>9, TakesBackDone DEF TakesBack, Explained
  <2>10. CASE Observes(step, p, n)
    BY <2>1, <2>10, ObservesDone DEF Explained
  <2> QED BY <2>2, <2>3, <2>4, <2>5, <2>6, <2>7, <2>8, <2>9, <2>10 DEF Acts
<1>2. PICK why : /\ Done(n, why)
                 /\ step.reasons = AnyReason \/ why \in step.reasons
  BY <1>1
<1>3. Stands(n)' /\ reason'[r] = why
      /\ \A s \in Releases \ {r} : journal'[s] = journal[s]
  BY <1>1, <1>2 DEF Done
<1>4. reason'[r] \in AnyReason
  BY CommitGrows DEF TypeOK, AnyReason
<1> QED BY <1>1, <1>2, <1>3, <1>4

\* A report after the decision is refused.
LEMMA LateIsRefused ==
    ASSUME NEW step, Handles(step), NEW p, NEW n, Stands(p),
           ComesLate(step, p, n)
    PROVE  Verdict(step.call) = "refused"
<1>1. PICK gate \in Gates \ p.reported :
          step.call = GateOf(p.release, gate, "passed")
  BY DEF ComesLate
<1>2. p.release \in Releases /\ status[p.release] = "blocked"
  BY DEF ComesLate, Stands
<1>3. ReceiptsOf(<<p.release, gate>>) = {}
  BY <1>2, NoReceiptYet
<1> DEFINE w == ResultOf(p.release, gate, "passed")
<1>4. WebhookVerdict(w) = "refused"
  BY <1>2, <1>3 DEF ResultOf, WebhookVerdict, DoOrRefuse, Exists
<1>5. step.call.kind = "webhook" /\ step.call.body = w
  BY <1>1 DEF GateOf, ResultOf
<1> QED BY <1>4, <1>5 DEF Verdict

\* A repeated cancellation is found to be done.
LEMMA AgainIsFound ==
    ASSUME NEW step, Handles(step), NEW p, NEW n, Stands(p),
           CancelsAgain(step, p, n)
    PROVE  /\ Verdict(step.call) = "again"
           /\ Shown(step.call) = {About(step.call)}
           /\ About(step.call) \in Releases
           /\ status[About(step.call)] = "cancelled"
<1>1. PICK r \in p.cancelled : step.call = CancelOf(r)
  BY DEF CancelsAgain
<1>2. r \in Releases /\ status[r] = "cancelled"
  BY DEF Stands
<1>3. step.call.kind = "cancel" /\ step.call.release = r
  BY <1>1 DEF CancelOf
<1>4. Verdict(step.call) = "again"
  <2>1. CancelVerdict(r) = "again"
    BY <1>2 DEF CancelVerdict, MayCancel, MayMove, Allowed
  <2> QED BY <1>3, <2>1 DEF Verdict
<1>5. Shown(step.call) = {r} /\ About(step.call) = r
  BY <1>3 DEF Shown, About
<1> QED BY <1>2, <1>4, <1>5

\* The commit of a step leaves the rows of other releases alone.
LEMMA OtherRowsStay ==
    ASSUME NEW step, NEW r, Commits(step, r), NEW s \in Releases \ {r},
           journal'[s] = journal[s]
    PROVE  Bodies'[s] = Bodies[s]
<1>1. PICK q : q = step.call
  OBVIOUS
<1>2. Perform(q, r) /\ r \in Releases /\ TypeOK
  BY <1>1 DEF Commits, RowsInv
<1>3. SUFFICES /\ status'[s] = status[s] /\ reason'[s] = reason[s]
               /\ envOf'[s] = envOf[s] /\ keyOf'[s] = keyOf[s]
               /\ artifactOf'[s] = artifactOf[s] /\ traffic'[s] = traffic[s]
               /\ previous'[s] = previous[s] /\ approvedBy'[s] = approvedBy[s]
  BY DEF Bodies, Body, ReadRow
<1>4. CASE Create(r, q.env, q.key, q.artifact, q.who)
  BY <1>2, <1>4 DEF Create, CreateCommitted, TypeOK
<1>5. ASSUME NEW from, NEW to, NEW actor, NEW why, NEW before,
             Transition(r, from, to, actor, why, before, <<>>)
      PROVE  status'[s] = status[s] /\ reason'[s] = reason[s]
  BY <1>2, <1>5 DEF Transition, TypeOK
<1>6. CASE Approve(r, q.who)
  BY <1>2, <1>5, <1>6 DEF Approve, ApproveCommitted, TypeOK, identity
<1>7. CASE Cancel(r, q.who)
  BY <1>2, <1>5, <1>7 DEF Cancel, CancelCommitted, TypeOK, identity
<1>8. CASE Deploy(r, q.percent, q.who)
  BY <1>2, <1>5, <1>8 DEF Deploy, DeployCommitted, TypeOK, identity
<1>9. CASE Rollback(r, q.who)
  BY <1>2, <1>5, <1>9 DEF Rollback, RollbackCommitted, TypeOK, identity
<1>10. CASE Observe(r, q.observation, q.who)
  <2>1. PICK e, o : ObserveCommitted(r, e, o, q.who)
    BY <1>10 DEF Observe
  <2>2. PICK why : why = CanaryReason(o, Policy[e])
    OBVIOUS
  <2>3. \/ \E from, to, before :
               Transition(r, from, to, q.who, why, before, <<>>)
        \/ status' = status /\ reason' = [reason EXCEPT ![r] = why]
    BY <2>1, <2>2 DEF ObserveCommitted
  <2>4. status'[s] = status[s] /\ reason'[s] = reason[s]
    BY <1>2, <1>5, <2>3 DEF TypeOK
  <2>5. traffic'[s] = traffic[s] /\ UNCHANGED <<identity, approvedBy>>
    BY <1>2, <2>1 DEF ObserveCommitted, TypeOK
  <2> QED BY <2>4, <2>5 DEF identity
<1>11. CASE ReceiveWebhook(q.body) /\ r = q.body.release
  <2>1. PICK e, given : WebhookCommitted(q.body, e, given)
    BY <1>11 DEF ReceiveWebhook
  <2>2. PICK before : GatesRecalculated(r, e, given, before)
    BY <1>11, <2>1 DEF WebhookCommitted
  <2>3. \/ \E from, to, actor, why, events :
               Transition(r, from, to, actor, why, events, <<>>)
        \/ status' = status /\ \E why : reason' = [reason EXCEPT ![r] = why]
    BY <2>2 DEF GatesRecalculated
  <2>4. status'[s] = status[s] /\ reason'[s] = reason[s]
    BY <1>2, <1>5, <2>3 DEF TypeOK
  <2>5. UNCHANGED <<identity, traffic, approvedBy>>
    BY <2>1 DEF WebhookCommitted
  <2> QED BY <2>4, <2>5 DEF identity
<1> QED BY <1>2, <1>4, <1>6, <1>7, <1>8, <1>9, <1>10, <1>11 DEF Perform

\* Only the release of a step can be cancelled by it.
LEMMA ActsCancelOne ==
    ASSUME NEW step, NEW p, NEW n, Acts(step, p, n)
    PROVE  n.cancelled \subseteq p.cancelled \cup {n.release}
BY DEF Acts, Opens, Reports, Completes, Blocks, Accepts, Approves, Cancels,
       Deploys, TakesBack, Observes, Changes, SameRelease

\* A canary is where a deployment or an observation leads to, and only an
\* observation leads on from it.
LEMMA CanarySteps ==
    ASSUME NEW step, NEW p, NEW n, Turn(step, p, n),
           \/ n.status = "canary"
           \/ p.status = "canary" /\ p.release \in Releases
    PROVE  /\ Deploys(step, p, n) \/ Observes(step, p, n)
           /\ p.status = "canary" => Observes(step, p, n)
           /\ step.code = "ok" /\ step.call.kind \in {"deploy", "observe"}
           /\ About(step.call) = p.release /\ n.release = p.release
           /\ p.release \in Releases
<1>1. Acts(step, p, n)
  BY DEF Turn, ComesLate, CancelsAgain, Idles
<1>2. ~Opens(step, p, n)
  BY ReleaseNumbers DEF Opens, Closed
<1>3. ~Reports(step, p, n) /\ ~Completes(step, p, n) /\ ~Blocks(step, p, n)
  BY DEF Reports, Completes, Blocks, Accepts
<1>4. /\ ~Approves(step, p, n) /\ ~Cancels(step, p, n)
      /\ ~TakesBack(step, p, n)
      /\ p.status = "canary" => ~Deploys(step, p, n)
  BY DEF Approves, Cancels, Deploys, TakesBack
<1>5. Deploys(step, p, n) \/ Observes(step, p, n)
  BY <1>1, <1>2, <1>3, <1>4 DEF Acts
<1>6. /\ step.call.kind \in {"deploy", "observe"}
      /\ About(step.call) = p.release
  <2>1. CASE Deploys(step, p, n)
    BY <2>1 DEF Deploys, DeployOf, About
  <2>2. CASE Observes(step, p, n)
    <3>1. PICK o : step.call = [kind |-> "observe", release |-> p.release,
                                who |-> Observer, observation |-> o]
      BY <2>2 DEF Observes
    <3> QED BY <3>1 DEF About
  <2> QED BY <1>5, <2>1, <2>2
<1>7. SameRelease(p, n)
  BY <1>5 DEF Deploys, Observes, Changes
<1> QED BY <1>1, <1>4, <1>5, <1>6, <1>7 DEF Acts, Fits, SameRelease

\* The release of a canary that was timed out takes no observation.
LEMMA OvertakenIsRefused ==
    ASSUME NEW step, NEW p, NEW n, Overtaken(p), Turn(step, p, n)
    PROVE  Verdict(step.call) = "refused" /\ step.code = "ok"
<1>1. p.status = "canary" /\ status[p.release] = "rolled_back"
      /\ p.release \in Releases
  BY DEF Overtaken
<1>2. Observes(step, p, n) /\ step.code = "ok"
  BY <1>1, CanarySteps
<1>3. PICK o : step.call = [kind |-> "observe", release |-> p.release,
                            who |-> Observer, observation |-> o]
  BY <1>2 DEF Observes
<1> QED BY <1>1, <1>2, <1>3 DEF Verdict, ObserveVerdict

-------------------------------------------------------------------------------
(* The scripts lead from place to place.                                   *)

\* The first step of s starts at place k, the others where the one before ends.
Leads(s, k) ==
    \A i \in 1..Len(s) : Turn(s[i], PlaceAt(k + i - 1), PlaceAt(k + i))

\* The steps of two lists, one after the other.
LEMMA JoinedSteps ==
    ASSUME NEW s, NEW t, IsList(s), IsList(t)
    PROVE  /\ Len(s) \in Nat \ {0} /\ Len(t) \in Nat \ {0}
           /\ Len(s \o t) = Len(s) + Len(t)
           /\ \A i \in 1..Len(s) : (s \o t)[i] = s[i]
           /\ \A i \in 1..Len(t) : (s \o t)[Len(s) + i] = t[i]
<1>1. PICK S : s \in Seq(S)
  BY DEF IsList
<1>2. PICK T : t \in Seq(T)
  BY DEF IsList
<1>3. s \in Seq(S \cup T) /\ t \in Seq(S \cup T)
  BY <1>1, <1>2, SeqMonotonic
<1>4. Len(s) \in Nat \ {0} /\ Len(t) \in Nat \ {0}
  BY ListSteps
<1>5. /\ Len(s \o t) = Len(s) + Len(t)
      /\ \A i \in 1..(Len(s) + Len(t)) :
             (s \o t)[i] = IF i <= Len(s) THEN s[i] ELSE t[i - Len(s)]
  BY <1>3, ConcatProperties
<1>6. ASSUME NEW i \in 1..Len(s) PROVE (s \o t)[i] = s[i]
  BY <1>4, <1>5
<1>7. ASSUME NEW i \in 1..Len(t) PROVE (s \o t)[Len(s) + i] = t[i]
  <2>1. PICK j : j = Len(s) + i
    OBVIOUS
  <2>2. j \in 1..(Len(s) + Len(t)) /\ ~(j <= Len(s)) /\ j - Len(s) = i
    BY <1>4, <2>1
  <2> QED BY <1>5, <2>1, <2>2
<1> QED BY <1>4, <1>5, <1>6, <1>7

\* One list goes on where the other ends.
LEMMA LeadsOn ==
    ASSUME NEW s, NEW t, IsList(s), IsList(t), NEW k \in Nat, Leads(s, k),
           Leads(t, k + Len(s))
    PROVE  Leads(s \o t, k)
<1> SUFFICES ASSUME NEW i \in 1..Len(s \o t)
             PROVE  Turn((s \o t)[i], PlaceAt(k + i - 1), PlaceAt(k + i))
  BY DEF Leads
<1>1. /\ Len(s) \in Nat \ {0} /\ Len(t) \in Nat \ {0}
      /\ i \in 1..(Len(s) + Len(t))
      /\ \A j \in 1..Len(s) : (s \o t)[j] = s[j]
      /\ \A j \in 1..Len(t) : (s \o t)[Len(s) + j] = t[j]
  BY JoinedSteps
<1>2. CASE i <= Len(s)
  <2>1. i \in 1..Len(s)
    BY <1>1, <1>2
  <2> QED BY <1>1, <2>1 DEF Leads
<1>3. CASE i > Len(s)
  <2>1. PICK j \in 1..Len(t) : i = Len(s) + j
    <3>1. i - Len(s) \in 1..Len(t) /\ i = Len(s) + (i - Len(s))
      BY <1>1, <1>3
    <3> QED BY <3>1
  <2>2. Turn(t[j], PlaceAt((k + Len(s)) + j - 1), PlaceAt((k + Len(s)) + j))
    BY DEF Leads
  <2>3. (k + Len(s)) + j - 1 = k + i - 1 /\ (k + Len(s)) + j = k + i
    BY <1>1, <2>1
  <2>4. (s \o t)[i] = t[j]
    BY <1>1, <2>1
  <2> QED BY <2>2, <2>3, <2>4
<1> QED BY <1>1, <1>2, <1>3

\* The same, for lists of known lengths.
LEMMA ListLeadsOn ==
    ASSUME NEW s, NEW t, IsList(s), IsList(t), NEW k \in Nat, NEW m \in Nat,
           Leads(s, k), Leads(t, m), m = k + Len(s)
    PROVE  Leads(s \o t, k) /\ Len(s \o t) = Len(s) + Len(t) /\ IsList(s \o t)
BY LeadsOn, JoinedSteps, ListsJoin

\* The calls of a list are those of its parts.
LEMMA CallsOfParts ==
    ASSUME NEW s, NEW t, IsList(s), IsList(t),
           CallsOf(s \o t) \subseteq ApiCalls
    PROVE  CallsOf(s) \subseteq ApiCalls /\ CallsOf(t) \subseteq ApiCalls
<1>1. /\ Len(s) \in Nat \ {0} /\ Len(t) \in Nat \ {0}
      /\ Len(s \o t) = Len(s) + Len(t)
      /\ \A j \in 1..Len(s) : (s \o t)[j] = s[j]
      /\ \A j \in 1..Len(t) : (s \o t)[Len(s) + j] = t[j]
      /\ DOMAIN s = 1..Len(s) /\ DOMAIN t = 1..Len(t)
      /\ DOMAIN (s \o t) = 1..(Len(s) + Len(t))
  BY JoinedSteps, ListSteps, ListsJoin
<1>2. ASSUME NEW j \in DOMAIN s, s[j].call.kind # "await"
      PROVE  s[j].call \in ApiCalls
  <2>1. j \in DOMAIN (s \o t) /\ (s \o t)[j] = s[j]
    BY <1>1
  <2>2. s[j].call \in CallsOf(s \o t)
    BY <1>2, <2>1, Zenon DEF CallsOf
  <2> QED BY <2>2
<1>3. ASSUME NEW j \in DOMAIN t, t[j].call.kind # "await"
      PROVE  t[j].call \in ApiCalls
  <2>1. PICK i : i = Len(s) + j
    OBVIOUS
  <2>2. i \in DOMAIN (s \o t) /\ (s \o t)[i] = t[j]
    BY <1>1, <2>1
  <2>3. t[j].call \in CallsOf(s \o t)
    BY <1>3, <2>2, Zenon DEF CallsOf
  <2> QED BY <2>3
<1> QED BY <1>2, <1>3 DEF CallsOf

\* Lists written step by step.
LEMMA OneLeads ==
    ASSUME NEW k \in Nat, NEW a, Turn(a, PlaceAt(k), PlaceAt(k + 1))
    PROVE  Leads(<<a>>, k) /\ Len(<<a>>) = 1
<1>1. PICK s : s = <<a>>
  OBVIOUS
<1>2. /\ Len(s) = 1 /\ s[1] = a
  BY <1>1
<1>3. \A i \in 1..1 : Turn(s[i], PlaceAt(k + i - 1), PlaceAt(k + i))
  BY <1>2
<1> QED BY <1>1, <1>2, <1>3 DEF Leads

\* Three steps.
LEMMA ThreeLead ==
    ASSUME NEW k \in Nat, NEW a, NEW b, NEW c,
           Turn(a, PlaceAt(k), PlaceAt(k + 1)),
           Turn(b, PlaceAt(k + 1), PlaceAt(k + 2)),
           Turn(c, PlaceAt(k + 2), PlaceAt(k + 3))
    PROVE  Leads(<<a, b, c>>, k) /\ Len(<<a, b, c>>) = 3
<1>1. PICK s : s = <<a, b, c>>
  OBVIOUS
<1>2. /\ Len(s) = 3 /\ s[1] = a /\ s[2] = b /\ s[3] = c
  BY <1>1
<1>3. \A i \in 1..3 : Turn(s[i], PlaceAt(k + i - 1), PlaceAt(k + i))
  BY <1>2
<1> QED BY <1>1, <1>2, <1>3 DEF Leads

\* Five steps.
LEMMA FiveLead ==
    ASSUME NEW k \in Nat, NEW a, NEW b, NEW c, NEW d, NEW e,
           Turn(a, PlaceAt(k), PlaceAt(k + 1)),
           Turn(b, PlaceAt(k + 1), PlaceAt(k + 2)),
           Turn(c, PlaceAt(k + 2), PlaceAt(k + 3)),
           Turn(d, PlaceAt(k + 3), PlaceAt(k + 4)),
           Turn(e, PlaceAt(k + 4), PlaceAt(k + 5))
    PROVE  Leads(<<a, b, c, d, e>>, k) /\ Len(<<a, b, c, d, e>>) = 5
<1>1. PICK s : s = <<a, b, c, d, e>>
  OBVIOUS
<1>2. /\ Len(s) = 5
      /\ s[1] = a /\ s[2] = b /\ s[3] = c /\ s[4] = d /\ s[5] = e
  BY <1>1
<1>3. \A i \in 1..5 : Turn(s[i], PlaceAt(k + i - 1), PlaceAt(k + i))
  BY <1>2
<1> QED BY <1>1, <1>2, <1>3 DEF Leads

\* Seven steps.
LEMMA SevenLead ==
    ASSUME NEW k \in Nat, NEW a, NEW b, NEW c, NEW d, NEW e, NEW f, NEW g,
           Turn(a, PlaceAt(k), PlaceAt(k + 1)),
           Turn(b, PlaceAt(k + 1), PlaceAt(k + 2)),
           Turn(c, PlaceAt(k + 2), PlaceAt(k + 3)),
           Turn(d, PlaceAt(k + 3), PlaceAt(k + 4)),
           Turn(e, PlaceAt(k + 4), PlaceAt(k + 5)),
           Turn(f, PlaceAt(k + 5), PlaceAt(k + 6)),
           Turn(g, PlaceAt(k + 6), PlaceAt(k + 7))
    PROVE  /\ Leads(<<a, b, c, d, e, f, g>>, k)
           /\ Len(<<a, b, c, d, e, f, g>>) = 7
<1>1. PICK s : s = <<a, b, c, d, e, f, g>>
  OBVIOUS
<1>2. /\ Len(s) = 7
      /\ s[1] = a /\ s[2] = b /\ s[3] = c /\ s[4] = d /\ s[5] = e
      /\ s[6] = f /\ s[7] = g
  BY <1>1
<1>3. \A i \in 1..7 : Turn(s[i], PlaceAt(k + i - 1), PlaceAt(k + i))
  BY <1>2
<1> QED BY <1>1, <1>2, <1>3 DEF Leads

\* Eight steps.
LEMMA EightLead ==
    ASSUME NEW k \in Nat, NEW a, NEW b, NEW c, NEW d, NEW e, NEW f, NEW g,
           NEW h,
           Turn(a, PlaceAt(k), PlaceAt(k + 1)),
           Turn(b, PlaceAt(k + 1), PlaceAt(k + 2)),
           Turn(c, PlaceAt(k + 2), PlaceAt(k + 3)),
           Turn(d, PlaceAt(k + 3), PlaceAt(k + 4)),
           Turn(e, PlaceAt(k + 4), PlaceAt(k + 5)),
           Turn(f, PlaceAt(k + 5), PlaceAt(k + 6)),
           Turn(g, PlaceAt(k + 6), PlaceAt(k + 7)),
           Turn(h, PlaceAt(k + 7), PlaceAt(k + 8))
    PROVE  /\ Leads(<<a, b, c, d, e, f, g, h>>, k)
           /\ Len(<<a, b, c, d, e, f, g, h>>) = 8
<1>1. PICK s : s = <<a, b, c, d, e, f, g, h>>
  OBVIOUS
<1>2. /\ Len(s) = 8
      /\ s[1] = a /\ s[2] = b /\ s[3] = c /\ s[4] = d /\ s[5] = e
      /\ s[6] = f /\ s[7] = g /\ s[8] = h
  BY <1>1
<1>3. \A i \in 1..8 : Turn(s[i], PlaceAt(k + i - 1), PlaceAt(k + i))
  BY <1>2
<1> QED BY <1>1, <1>2, <1>3 DEF Leads

\* An observation that is stored decides by the environment's limits.
LEMMA ObservationTurns ==
    ASSUME NEW step, NEW p, NEW n, NEW count \in Nat, NEW errors \in Nat,
           NEW latency \in Nat,
           step.call = ObserveOf(p.release, count, errors, latency),
           count <= MaxInteger, Fits(step, n), Changes(p, n),
           n.cancelled = p.cancelled, p.status = "canary",
           NEW o, o = [request_count |-> count, error_rate |-> errors,
                       p95_ms |-> latency],
           Decides(EvaluateCanary(o, ScriptPolicy), p, n),
           Explained(step, CanaryReason(o, ScriptPolicy))
    PROVE  Turn(step, p, n)
<1>1. o \in [request_count : Nat, error_rate : Nat, p95_ms : Nat]
  OBVIOUS
<1>2. o.request_count <= MaxInteger
  OBVIOUS
<1>3. step.call = [kind |-> "observe", release |-> p.release,
                   who |-> Observer, observation |-> o]
  BY DEF ObserveOf
<1>4. Observes(step, p, n)
  BY <1>1, <1>2, <1>3 DEF Observes
<1> QED BY <1>4 DEF Turn, Acts

\* What smoke.py is run with.
LEMMA SmokeRuns ==
    ASSUME ScriptsTyped, script = "smoke"
    PROVE  /\ {1, 2, 3, 4} \subseteq Releases /\ SmokeGates \subseteq Gates
           /\ ScriptEnv = SmokeEnv /\ ScriptPolicy = SmokePolicy
           /\ ScriptPolicy.required_gates = SmokeGates
           /\ ScriptPolicy.requires_approval = TRUE /\ MaxInteger >= 500
<1>1. "smoke" \in Scripts /\ ScriptEnv = SmokeEnv
  BY DEF ScriptsTyped, ScriptEnv
<1>2. ScriptPolicy = SmokePolicy /\ CallsOf(Smoke) \subseteq ApiCalls
  BY <1>1, ScriptPoliciesAssumption, ScriptCallsAssumption DEF ScriptPolicy
<1>3. /\ ScriptPolicy.required_gates = SmokeGates
      /\ ScriptPolicy.requires_approval = TRUE
  BY <1>2, SMT DEF SmokePolicy
<1>4. SmokeGates \subseteq Gates
  <2>1. ScriptPolicy \in Policies
    BY ScriptEnvironment
  <2> QED BY <1>3, <2>1 DEF Policies
<1>5. 4 \in Releases
  <2>1. IsList(SmokePromoted) /\ IsList(SmokeRolledBack)
        /\ IsList(SmokeCancelled)
    BY ScriptsAreLists
  <2>2. CallsOf(SmokeCancelled) \subseteq ApiCalls
    BY <1>2, <2>1, CallsOfParts, ListsJoin DEF Smoke
  <2>3. PICK a, b, c, d, e : SmokeCancelled = <<a, b, c, d, e>>
                             /\ e = Succeeds(CancelOf(4))
    BY Zenon DEF SmokeCancelled
  <2>4. PICK s : s = SmokeCancelled
    OBVIOUS
  <2>5. 5 \in DOMAIN s /\ s[5] = e
    BY <2>3, <2>4
  <2>6. e.call.kind # "await" /\ e.call.kind = "cancel" /\ e.call.release = 4
    BY <2>3 DEF Succeeds, Expect, CancelOf
  <2>7. e.call \in ApiCalls
    BY <2>2, <2>4, <2>5, <2>6 DEF CallsOf
  <2> QED BY <2>6, <2>7, CallParts
<1>6. {1, 2, 3, 4} \subseteq Releases
  BY <1>5, LedgerAssumption DEF Releases
<1>7. MaxInteger >= 500
  BY ScriptPoliciesAssumption, SMT
<1> QED BY <1>1, <1>2, <1>3, <1>4, <1>6, <1>7

\* smoke.py, from its first step to its last.
LEMMA SmokeLeads ==
    ASSUME ScriptsTyped, script = "smoke"
    PROVE  /\ Leads(Smoke, 1) /\ Len(Smoke) = 19 /\ Steps = Smoke
           /\ PlaceAt(20).status \in Closed /\ PlaceAt(20).release \in Releases
<1> USE DEF PlaceAt, SmokePlace, AtLeast, Place, Turn, Acts, Fits, Succeeds,
            Shows, Expect, About, ReleaseStatus
<1>1. /\ {1, 2, 3, 4} \subseteq Releases /\ SmokeGates \subseteq Gates
      /\ ScriptEnv = SmokeEnv
      /\ ScriptPolicy.required_gates = SmokeGates
      /\ ScriptPolicy.requires_approval = TRUE
  BY SmokeRuns
<1>2. /\ Turn(Succeeds(CreateOf(SmokeEnv, 1)), PlaceAt(1), PlaceAt(2))
      /\ Turn(Succeeds(CreateOf(SmokeEnv, 2)), PlaceAt(8), PlaceAt(9))
      /\ Turn(Succeeds(CreateOf(SmokeEnv, 3)), PlaceAt(15), PlaceAt(16))
      /\ Turn(Follows(Succeeds(CreateOf(SmokeEnv, 4)), 1),
              PlaceAt(17), PlaceAt(18))
  <2>1. Turn(Succeeds(CreateOf(SmokeEnv, 1)), PlaceAt(1), PlaceAt(2))
    BY <1>1 DEF Opens, CreateOf, Follows, Closed
  <2>2. Turn(Succeeds(CreateOf(SmokeEnv, 2)), PlaceAt(8), PlaceAt(9))
    BY <1>1 DEF Opens, CreateOf, Follows, Closed
  <2>3. Turn(Succeeds(CreateOf(SmokeEnv, 3)), PlaceAt(15), PlaceAt(16))
    BY <1>1 DEF Opens, CreateOf, Follows, Closed
  <2>4. Turn(Follows(Succeeds(CreateOf(SmokeEnv, 4)), 1),
             PlaceAt(17), PlaceAt(18))
    BY <1>1 DEF Opens, CreateOf, Follows, Closed
  <2> QED BY <2>1, <2>2, <2>3, <2>4
<1>3. /\ Turn(Passes(1, "tests"), PlaceAt(2), PlaceAt(3))
      /\ Turn(Passes(1, "security"), PlaceAt(3), PlaceAt(4))
      /\ Turn(Passes(2, "tests"), PlaceAt(9), PlaceAt(10))
      /\ Turn(Passes(2, "security"), PlaceAt(10), PlaceAt(11))
  <2>1. Turn(Passes(1, "tests"), PlaceAt(2), PlaceAt(3))
    BY <1>1 DEF Passes, GateOf, Reports, Accepts, SmokeGates, SameRelease,
                Longer, Explained
  <2>2. Turn(Passes(1, "security"), PlaceAt(3), PlaceAt(4))
    BY <1>1 DEF Passes, GateOf, Reports, Accepts, SmokeGates, SameRelease,
                Longer, Explained
  <2>3. Turn(Passes(2, "tests"), PlaceAt(9), PlaceAt(10))
    BY <1>1 DEF Passes, GateOf, Reports, Accepts, SmokeGates, SameRelease,
                Longer, Explained
  <2>4. Turn(Passes(2, "security"), PlaceAt(10), PlaceAt(11))
    BY <1>1 DEF Passes, GateOf, Reports, Accepts, SmokeGates, SameRelease,
                Longer, Explained
  <2> QED BY <2>1, <2>2, <2>3, <2>4
<1>4. /\ Turn(Shows(GateOf(1, "signature", "passed"), "awaiting_approval"),
              PlaceAt(4), PlaceAt(5))
      /\ Turn(Passes(2, "signature"), PlaceAt(11), PlaceAt(12))
  <2>1. Turn(Shows(GateOf(1, "signature", "passed"), "awaiting_approval"),
             PlaceAt(4), PlaceAt(5))
    BY <1>1 DEF Passes, GateOf, Completes, Accepts, SmokeGates, SameRelease,
                Longer, Explained
  <2>2. Turn(Passes(2, "signature"), PlaceAt(11), PlaceAt(12))
    BY <1>1 DEF Passes, GateOf, Completes, Accepts, SmokeGates, SameRelease,
                Longer, Explained
  <2> QED BY <2>1, <2>2
<1>5. /\ Turn(Succeeds(ApproveOf(1)), PlaceAt(5), PlaceAt(6))
      /\ Turn(Succeeds(ApproveOf(2)), PlaceAt(12), PlaceAt(13))
  <2>1. Turn(Succeeds(ApproveOf(1)), PlaceAt(5), PlaceAt(6))
    BY <1>1 DEF Approves, ApproveOf, Changes, SameRelease, Longer
  <2>2. Turn(Succeeds(ApproveOf(2)), PlaceAt(12), PlaceAt(13))
    BY <1>1 DEF Approves, ApproveOf, Changes, SameRelease, Longer
  <2> QED BY <2>1, <2>2
<1>6. /\ Turn(Shows(DeployOf(1), "canary"), PlaceAt(6), PlaceAt(7))
      /\ Turn(Succeeds(DeployOf(2)), PlaceAt(13), PlaceAt(14))
  <2>1. Turn(Shows(DeployOf(1), "canary"), PlaceAt(6), PlaceAt(7))
    BY <1>1 DEF Deploys, DeployOf, Changes, SameRelease, Longer
  <2>2. Turn(Succeeds(DeployOf(2)), PlaceAt(13), PlaceAt(14))
    BY <1>1 DEF Deploys, DeployOf, Changes, SameRelease, Longer
  <2> QED BY <2>1, <2>2
<1>7. /\ Turn(Shows(CancelOf(3), "cancelled"), PlaceAt(16), PlaceAt(17))
      /\ Turn(Succeeds(CancelOf(4)), PlaceAt(19), PlaceAt(20))
  <2>1. Turn(Shows(CancelOf(3), "cancelled"), PlaceAt(16), PlaceAt(17))
    BY <1>1 DEF Cancels, CancelOf, Changes, SameRelease, Longer
  <2>2. Turn(Succeeds(CancelOf(4)), PlaceAt(19), PlaceAt(20))
    BY <1>1 DEF Cancels, CancelOf, Changes, SameRelease, Longer
  <2> QED BY <2>1, <2>2
<1>8. Turn(SameBody(Succeeds(CancelOf(3))), PlaceAt(18), PlaceAt(19))
  BY <1>1 DEF CancelsAgain, CancelOf, Idles, AnyBody, SameBody
<1> HIDE DEF PlaceAt, SmokePlace, AtLeast, Place, Turn, Acts, Fits, Succeeds,
             Shows, Expect, About, ReleaseStatus
<1> DEFINE promotes ==
               HasEvents(Shows(ObserveOf(1, 500, 2, 240), "succeeded"), 8)
           exceeds ==
               Follows(Shows(ObserveOf(2, 500, 120, 240), "rolled_back"), 1)
<1> HIDE DEF promotes, exceeds
<1>10. Turn(promotes, PlaceAt(7), PlaceAt(8))
  <2> DEFINE count == 500
             errors == 2
             latency == 240
             o == [request_count |-> count, error_rate |-> errors,
                   p95_ms |-> latency]
  <2>1. count \in Nat /\ errors \in Nat /\ latency \in Nat
        /\ count <= MaxInteger
    BY SmokeRuns, SMT
  <2>2. EvaluateCanary(o, ScriptPolicy) = "promote"
    BY SmokeRuns, SMT
    DEF EvaluateCanary, SmokePolicy
  <2>3. promotes.call = ObserveOf(1, count, errors, latency)
    BY SMT DEF promotes, HasEvents, Shows, Expect
  <2>4. Fits(promotes, PlaceAt(8))
    BY <1>1, SMT
    DEF promotes, HasEvents, Shows, Expect, Fits, ObserveOf, About,
        ReleaseStatus, PlaceAt, Place, SmokePlace, AtLeast
  <2>5. promotes.reasons = AnyReason
    BY SMT DEF promotes, HasEvents, Shows, Expect
  <2>6. Changes(PlaceAt(7), PlaceAt(8))
    BY <1>1 DEF Changes, SameRelease, Longer, PlaceAt, Place, SmokePlace,
                AtLeast
  <2>7. /\ PlaceAt(8).cancelled = PlaceAt(7).cancelled
        /\ PlaceAt(7).status = "canary" /\ PlaceAt(7).release = 1
        /\ Decides("promote", PlaceAt(7), PlaceAt(8))
    BY DEF Decides, PlaceAt, Place, SmokePlace, AtLeast
  <2>8. o = [request_count |-> count, error_rate |-> errors,
             p95_ms |-> latency]
    OBVIOUS
  <2> HIDE DEF count, errors, latency, o
  <2>9. Explained(promotes, CanaryReason(o, ScriptPolicy))
    BY <2>2, <2>5 DEF Explained
  <2> QED BY <2>1, <2>2, <2>3, <2>4, <2>6, <2>7, <2>8, <2>9, ObservationTurns
<1>12. Turn(exceeds, PlaceAt(14), PlaceAt(15))
  <2> DEFINE count == 500
             errors == 120
             latency == 240
             o == [request_count |-> count, error_rate |-> errors,
                   p95_ms |-> latency]
  <2>1. count \in Nat /\ errors \in Nat /\ latency \in Nat
        /\ count <= MaxInteger
    BY SmokeRuns, SMT
  <2>2. EvaluateCanary(o, ScriptPolicy) = "rollback"
    BY SmokeRuns, SMT
    DEF EvaluateCanary, SmokePolicy
  <2>3. exceeds.call = ObserveOf(2, count, errors, latency)
    BY SMT DEF exceeds, Follows, Shows, Expect
  <2>4. Fits(exceeds, PlaceAt(15))
    BY <1>1, SMT
    DEF exceeds, Follows, Shows, Expect, Fits, ObserveOf, About, ReleaseStatus,
        PlaceAt, Place, SmokePlace, AtLeast
  <2>5. exceeds.reasons = AnyReason
    BY SMT DEF exceeds, Follows, Shows, Expect
  <2>6. Changes(PlaceAt(14), PlaceAt(15))
    BY <1>1 DEF Changes, SameRelease, Longer, PlaceAt, Place, SmokePlace,
                AtLeast
  <2>7. /\ PlaceAt(15).cancelled = PlaceAt(14).cancelled
        /\ PlaceAt(14).status = "canary" /\ PlaceAt(14).release = 2
        /\ Decides("rollback", PlaceAt(14), PlaceAt(15))
    BY DEF Decides, PlaceAt, Place, SmokePlace, AtLeast
  <2>8. o = [request_count |-> count, error_rate |-> errors,
             p95_ms |-> latency]
    OBVIOUS
  <2> HIDE DEF count, errors, latency, o
  <2>9. Explained(exceeds, CanaryReason(o, ScriptPolicy))
    BY <2>2, <2>5 DEF Explained
  <2> QED BY <2>1, <2>2, <2>3, <2>4, <2>6, <2>7, <2>8, <2>9, ObservationTurns
<1>13. Leads(SmokePromoted, 1) /\ Len(SmokePromoted) = 7
  <2>1. SmokePromoted =
            <<Succeeds(CreateOf(SmokeEnv, 1)),
              Passes(1, "tests"), Passes(1, "security"),
              Shows(GateOf(1, "signature", "passed"), "awaiting_approval"),
              Succeeds(ApproveOf(1)), Shows(DeployOf(1), "canary"), promotes>>
    BY Zenon DEF SmokePromoted, promotes
  <2> QED BY <1>2, <1>3, <1>4, <1>5, <1>6, <1>10, <2>1, SevenLead
<1>14. Leads(SmokeRolledBack, 8) /\ Len(SmokeRolledBack) = 7
  <2> DEFINE first == <<Succeeds(CreateOf(SmokeEnv, 2))>>
             last == <<Succeeds(ApproveOf(2)), Succeeds(DeployOf(2)), exceeds>>
  <2>1. Leads(first, 8) /\ Len(first) = 1 /\ IsList(first)
    BY <1>2, OneLeads, ListOfOne
  <2>2. /\ Leads(PassSmokeGates(2), 9) /\ Len(PassSmokeGates(2)) = 3
        /\ IsList(PassSmokeGates(2))
    BY <1>3, <1>4, ThreeLead, ListOfThree DEF PassSmokeGates
  <2>3. Leads(last, 12) /\ Len(last) = 3 /\ IsList(last)
    BY <1>5, <1>6, <1>12, ThreeLead, ListOfThree
  <2>4. SmokeRolledBack = (first \o PassSmokeGates(2)) \o last
    BY Zenon DEF SmokeRolledBack, first, last, exceeds
  <2>5. PICK s : s = first \o PassSmokeGates(2)
    OBVIOUS
  <2>6. 8 \in Nat /\ 9 \in Nat /\ 9 = 8 + Len(first)
    BY <2>1
  <2>7. Leads(s, 8) /\ Len(s) = Len(first) + Len(PassSmokeGates(2)) /\ IsList(s)
    BY <2>1, <2>2, <2>5, <2>6, ListLeadsOn, Zenon
  <2>8. Len(s) = 4 /\ 12 = 8 + Len(s) /\ 12 \in Nat
    <3>1. Len(s) = 1 + 3
      BY <2>1, <2>2, <2>7, Zenon
    <3> QED BY <3>1
  <2>9. /\ Leads(SmokeRolledBack, 8)
        /\ Len(SmokeRolledBack) = Len(s) + Len(last)
    BY <2>3, <2>4, <2>5, <2>6, <2>7, <2>8, ListLeadsOn, Zenon
  <2> QED BY <2>3, <2>8, <2>9
<1>15. Leads(SmokeCancelled, 15) /\ Len(SmokeCancelled) = 5
  BY <1>2, <1>7, <1>8, FiveLead DEF SmokeCancelled
<1>16. Leads(Smoke, 1) /\ Len(Smoke) = 19
  <2>1. /\ IsList(SmokePromoted) /\ IsList(SmokeRolledBack)
        /\ IsList(SmokeCancelled)
    BY ScriptsAreLists
  <2>2. PICK s : s = SmokePromoted \o SmokeRolledBack
    OBVIOUS
  <2>3. 1 \in Nat /\ 8 \in Nat /\ 8 = 1 + Len(SmokePromoted)
    BY <1>13
  <2>4. /\ Leads(s, 1) /\ Len(s) = Len(SmokePromoted) + Len(SmokeRolledBack)
        /\ IsList(s)
    BY <1>13, <1>14, <2>1, <2>2, <2>3, ListLeadsOn, Zenon
  <2>5. Len(s) = 14 /\ 15 = 1 + Len(s) /\ 15 \in Nat
    BY <1>13, <1>14, <2>4
  <2>6. Smoke = s \o SmokeCancelled
    BY <2>2, Zenon DEF Smoke
  <2>7. Leads(Smoke, 1) /\ Len(Smoke) = Len(s) + Len(SmokeCancelled)
    BY <1>15, <2>1, <2>3, <2>4, <2>5, <2>6, ListLeadsOn, Zenon
  <2> QED BY <1>15, <2>5, <2>7
<1>17. Steps = Smoke
  BY DEF Steps
<1>18. PlaceAt(20).status \in Closed /\ PlaceAt(20).release \in Releases
  BY <1>1 DEF PlaceAt, SmokePlace, Place, Closed
<1> QED BY <1>16, <1>17, <1>18

\* What operator_scenarios.py is run with.
LEMMA OperatorRuns ==
    ASSUME ScriptsTyped, script = "operator"
    PROVE  /\ {1, 2, 3, 4, 5} \subseteq Releases
           /\ OperatorGates \subseteq Gates
           /\ ScriptEnv = OperatorEnv /\ ScriptPolicy = OperatorPolicy
           /\ ScriptPolicy.required_gates = OperatorGates
           /\ ScriptPolicy.requires_approval = TRUE /\ MaxInteger >= 500
<1>1. "operator" \in Scripts /\ ScriptEnv = OperatorEnv
  BY DEF ScriptsTyped, ScriptEnv
<1>2. /\ ScriptPolicy = OperatorPolicy
      /\ CallsOf(OperatorScenarios) \subseteq ApiCalls
  BY <1>1, ScriptPoliciesAssumption, ScriptCallsAssumption DEF ScriptPolicy
<1>3. /\ ScriptPolicy.required_gates = OperatorGates
      /\ ScriptPolicy.requires_approval = TRUE
  BY <1>2, SMT DEF OperatorPolicy
<1>4. OperatorGates \subseteq Gates
  <2>1. ScriptPolicy \in Policies
    BY ScriptEnvironment
  <2> QED BY <1>3, <2>1 DEF Policies
<1>5. 5 \in Releases
  <2>1. CallsOf(CanaryOf(5)) \subseteq ApiCalls
    <3>1. CallsOf(MissingMetrics) \subseteq ApiCalls
      <4>1. PICK most : /\ IsList(most)
                        /\ OperatorScenarios = most \o MissingMetrics
        BY ScriptsAreLists, ListsJoin, Zenon DEF OperatorScenarios
      <4> QED BY <1>2, <4>1, ScriptsAreLists, CallsOfParts, Zenon
    <3>2. PICK last : last = AwaitRollback(5, Reason("timeout", {}))
      OBVIOUS
    <3>3. MissingMetrics = CanaryOf(5) \o <<last>> /\ IsList(<<last>>)
      BY <3>2, ListOfOne DEF MissingMetrics
    <3> QED BY <3>1, <3>3, ScriptsAreLists, CallsOfParts, Zenon
  <2>2. PICK a, b, c, d, e : CanaryOf(5) = <<a, b, c, d, e>>
                             /\ e = Succeeds(DeployOf(5))
    BY Zenon DEF CanaryOf
  <2>3. PICK s : s = CanaryOf(5)
    OBVIOUS
  <2>4. 5 \in DOMAIN s /\ s[5] = e
    BY <2>2, <2>3
  <2>5. e.call.kind # "await" /\ e.call.kind = "deploy" /\ e.call.release = 5
    BY <2>2 DEF Succeeds, Expect, DeployOf
  <2>6. e.call \in ApiCalls
    BY <2>1, <2>3, <2>4, <2>5 DEF CallsOf
  <2> QED BY <2>5, <2>6, CallParts
<1>6. {1, 2, 3, 4, 5} \subseteq Releases
  BY <1>5, LedgerAssumption DEF Releases
<1>7. MaxInteger >= 500
  BY ScriptPoliciesAssumption, SMT
<1> QED BY <1>1, <1>2, <1>3, <1>4, <1>6, <1>7

\* A scenario up to its canary, from place k on.
LEMMA CanaryLeads ==
    ASSUME ScriptsTyped, script = "operator", NEW r \in {4, 5}, NEW k \in Nat,
           PlaceAt(k).release = r - 1, PlaceAt(k).status \in Closed,
           PlaceAt(k).newest = 0,
           PlaceAt(k + 1) = Place(r, "evaluating", {}, 0),
           PlaceAt(k + 2) = Place(r, "evaluating", {"tests"}, 0),
           PlaceAt(k + 3) = Place(r, "awaiting_approval", OperatorGates, 0),
           PlaceAt(k + 4) = Place(r, "approved", OperatorGates, 0),
           PlaceAt(k + 5) = Place(r, "canary", OperatorGates, 0)
    PROVE  Leads(CanaryOf(r), k) /\ Len(CanaryOf(r)) = 5 /\ IsList(CanaryOf(r))
<1> USE DEF Place, Turn, Acts, Fits, Succeeds, Expect, About, ReleaseStatus
<1>1. /\ {1, 2, 3, 4, 5} \subseteq Releases /\ OperatorGates \subseteq Gates
      /\ ScriptEnv = OperatorEnv
      /\ ScriptPolicy.required_gates = OperatorGates
      /\ ScriptPolicy.requires_approval = TRUE
  BY OperatorRuns
<1>2. Turn(Succeeds(CreateOf(OperatorEnv, r)), PlaceAt(k), PlaceAt(k + 1))
  BY <1>1 DEF Opens, CreateOf
<1>3. Turn(Passes(r, "tests"), PlaceAt(k + 1), PlaceAt(k + 2))
  <2>1. PICK p : p = Place(r, "evaluating", {}, 0)
    OBVIOUS
  <2>2. PICK n : n = Place(r, "evaluating", {"tests"}, 0)
    OBVIOUS
  <2>3. PICK step : step = Passes(r, "tests")
    OBVIOUS
  <2>4. Fits(step, n)
    BY <2>2, <2>3 DEF Passes, GateOf
  <2>5. Accepts(step, p, n, "tests", "passed")
    BY <1>1, <2>1, <2>2, <2>3
    DEF Accepts, Passes, SameRelease, Longer, OperatorGates
  <2>6. Reports(step, p, n)
    BY <1>1, <2>1, <2>2, <2>3, <2>5
    DEF Reports, Passes, OperatorGates, Explained
  <2> QED BY <2>1, <2>2, <2>3, <2>4, <2>6
<1>4. Turn(Passes(r, "security"), PlaceAt(k + 2), PlaceAt(k + 3))
  <2>1. PICK p : p = Place(r, "evaluating", {"tests"}, 0)
    OBVIOUS
  <2>2. PICK n : n = Place(r, "awaiting_approval", OperatorGates, 0)
    OBVIOUS
  <2>3. PICK step : step = Passes(r, "security")
    OBVIOUS
  <2>4. Fits(step, n)
    BY <2>2, <2>3 DEF Passes, GateOf
  <2>5. Accepts(step, p, n, "security", "passed")
    BY <1>1, <2>1, <2>2, <2>3
    DEF Accepts, Passes, SameRelease, Longer, OperatorGates
  <2>6. Completes(step, p, n)
    BY <1>1, <2>1, <2>2, <2>3, <2>5 DEF Completes, Passes, OperatorGates
  <2> QED BY <2>1, <2>2, <2>3, <2>4, <2>6
<1>5. Turn(Succeeds(ApproveOf(r)), PlaceAt(k + 3), PlaceAt(k + 4))
  <2>1. PICK p : p = Place(r, "awaiting_approval", OperatorGates, 0)
    OBVIOUS
  <2>2. PICK n : n = Place(r, "approved", OperatorGates, 0)
    OBVIOUS
  <2>3. PICK step : step = Succeeds(ApproveOf(r))
    OBVIOUS
  <2>4. Fits(step, n)
    BY <2>2, <2>3 DEF ApproveOf
  <2>5. Approves(step, p, n)
    BY <1>1, <2>1, <2>2, <2>3
    DEF Approves, ApproveOf, Changes, SameRelease, Longer
  <2> QED BY <2>1, <2>2, <2>3, <2>4, <2>5
<1>6. Turn(Succeeds(DeployOf(r)), PlaceAt(k + 4), PlaceAt(k + 5))
  <2>1. PICK p : p = Place(r, "approved", OperatorGates, 0)
    OBVIOUS
  <2>2. PICK n : n = Place(r, "canary", OperatorGates, 0)
    OBVIOUS
  <2>3. PICK step : step = Succeeds(DeployOf(r))
    OBVIOUS
  <2>4. Fits(step, n)
    BY <2>2, <2>3 DEF DeployOf
  <2>5. Deploys(step, p, n)
    BY <1>1, <2>1, <2>2, <2>3 DEF Deploys, Changes, SameRelease, Longer
  <2> QED BY <2>1, <2>2, <2>3, <2>4, <2>5
<1> HIDE DEF Place, Turn, Acts, Fits, Succeeds, Expect, About, ReleaseStatus
<1> QED BY <1>2, <1>3, <1>4, <1>5, <1>6, FiveLead, ScriptsAreLists, Zenon
        DEF CanaryOf

\* operator_scenarios.py, from its first step to the one that waits.
LEMMA OperatorLeads ==
    ASSUME ScriptsTyped, script = "operator"
    PROVE  /\ Steps = OperatorScenarios /\ Len(Steps) = 26
           /\ \A i \in 1..25 : Turn(Steps[i], PlaceAt(i), PlaceAt(i + 1))
           /\ Waits(Steps[26], PlaceAt(26))
<1> USE DEF PlaceAt, OperatorPlace, Place, Turn, Acts, Fits, Succeeds, Shows,
            Explains, Expect, About, ReleaseStatus
<1>1. /\ {1, 2, 3, 4, 5} \subseteq Releases /\ OperatorGates \subseteq Gates
      /\ ScriptEnv = OperatorEnv
      /\ ScriptPolicy.required_gates = OperatorGates
      /\ ScriptPolicy.requires_approval = TRUE
  BY OperatorRuns
<1>2. Turn(Succeeds(CreateOf(OperatorEnv, 1)), PlaceAt(1), PlaceAt(2))
  BY <1>1 DEF Opens, CreateOf, Closed
<1>3. Turn(Succeeds(CreateOf(OperatorEnv, 2)), PlaceAt(9), PlaceAt(10))
  BY <1>1 DEF Opens, CreateOf, Closed
<1>4. Turn(Succeeds(CreateOf(OperatorEnv, 3)), PlaceAt(12), PlaceAt(13))
  BY <1>1 DEF Opens, CreateOf, Closed
<1>5. Turn(Explains(GateOf(1, "tests", "passed"), "evaluating",
                    Reason("gates_missing", {"security"})),
           PlaceAt(2), PlaceAt(3))
  <2>1. PICK p : p = Place(1, "evaluating", {}, 0)
    OBVIOUS
  <2>2. PICK n : n = Place(1, "evaluating", {"tests"}, 0)
    OBVIOUS
  <2>3. PICK step : step = Explains(GateOf(1, "tests", "passed"), "evaluating",
                                    Reason("gates_missing", {"security"}))
    OBVIOUS
  <2>4. Fits(step, n)
    BY <2>2, <2>3 DEF GateOf
  <2>5. Accepts(step, p, n, "tests", "passed")
    BY <1>1, <2>1, <2>2, <2>3 DEF Accepts, SameRelease, Longer, OperatorGates
  <2>6. Reports(step, p, n)
    <3>1. OperatorGates \ n.reported = {"security"}
      BY <2>2 DEF OperatorGates
    <3>2. Explained(step, Reason("gates_missing", {"security"}))
      BY <2>3 DEF Explained
    <3> QED BY <1>1, <2>2, <2>5, <3>1, <3>2 DEF Reports, OperatorGates
  <2>7. p = PlaceAt(2) /\ n = PlaceAt(3)
    BY <2>1, <2>2
  <2> QED BY <2>3, <2>4, <2>6, <2>7
<1>6. Turn(Passes(1, "security"), PlaceAt(3), PlaceAt(4))
  BY <1>1 DEF Passes, GateOf, Completes, Accepts, OperatorGates, SameRelease,
              Longer, Explained
<1>7. Turn(Succeeds(ApproveOf(1)), PlaceAt(4), PlaceAt(5))
  BY <1>1 DEF Approves, ApproveOf, Changes, SameRelease, Longer
<1>8. Turn(Succeeds(DeployOf(1)), PlaceAt(5), PlaceAt(6))
  BY <1>1 DEF Deploys, DeployOf, Changes, SameRelease, Longer
<1>9. Turn(Explains(RollbackOf(1), "rolled_back",
                    Reason("manual_rollback", {})), PlaceAt(8), PlaceAt(9))
  BY <1>1 DEF TakesBack, RollbackOf, Changes, SameRelease, Longer, Explained
<1>10. Turn(Explains(GateOf(2, "security", "failed"), "blocked",
                     Reason("gates_failed", {"security"})),
            PlaceAt(10), PlaceAt(11))
  <2>1. PICK p : p = Place(2, "evaluating", {}, 0)
    OBVIOUS
  <2>2. PICK n : n = Place(2, "blocked", {"security"}, 0)
    OBVIOUS
  <2>3. PICK step : step = Explains(GateOf(2, "security", "failed"), "blocked",
                                    Reason("gates_failed", {"security"}))
    OBVIOUS
  <2>4. Fits(step, n)
    BY <2>2, <2>3 DEF GateOf
  <2>5. Accepts(step, p, n, "security", "failed")
    BY <1>1, <2>1, <2>2, <2>3 DEF Accepts, SameRelease, Longer, OperatorGates
  <2>6. Blocks(step, p, n)
    <3>1. Explained(step, Reason("gates_failed", {"security"}))
      BY <2>3 DEF Explained
    <3> QED BY <1>1, <2>2, <2>5, <3>1 DEF Blocks, OperatorGates
  <2>7. p = PlaceAt(10) /\ n = PlaceAt(11)
    BY <2>1, <2>2
  <2> QED BY <2>3, <2>4, <2>6, <2>7
<1>11. Turn(SameJournal(Expect(GateOf(2, "tests", "passed"), "refused",
                               {"absent"}, AnyReason)),
            PlaceAt(11), PlaceAt(12))
  BY <1>1 DEF GateOf, ComesLate, Idles, AnyBody, SameJournal, OperatorGates
<1>12. Turn(Succeeds(CancelOf(3)), PlaceAt(13), PlaceAt(14))
  BY <1>1 DEF Cancels, CancelOf, Changes, SameRelease, Longer
<1>13. Turn(SameBody(SameJournal(Succeeds(CancelOf(3)))),
            PlaceAt(14), PlaceAt(15))
  BY <1>1 DEF CancelsAgain, CancelOf, Idles, AnyBody, SameBody, SameJournal
<1>20. PICK last : last = AwaitRollback(5, Reason("timeout", {}))
  OBVIOUS
<1>21. Waits(last, PlaceAt(26))
  BY <1>1, <1>20 DEF Waits, AwaitRollback, AnyBody
<1>22. /\ PlaceAt(15).release = 3 /\ PlaceAt(15).status \in Closed
       /\ PlaceAt(15).newest = 0
       /\ PlaceAt(15 + 1) = Place(4, "evaluating", {}, 0)
       /\ PlaceAt(15 + 2) = Place(4, "evaluating", {"tests"}, 0)
       /\ PlaceAt(15 + 3) = Place(4, "awaiting_approval", OperatorGates, 0)
       /\ PlaceAt(15 + 4) = Place(4, "approved", OperatorGates, 0)
       /\ PlaceAt(15 + 5) = Place(4, "canary", OperatorGates, 0)
  BY DEF Closed
<1>23. /\ PlaceAt(21).release = 4 /\ PlaceAt(21).status \in Closed
       /\ PlaceAt(21).newest = 0
       /\ PlaceAt(21 + 1) = Place(5, "evaluating", {}, 0)
       /\ PlaceAt(21 + 2) = Place(5, "evaluating", {"tests"}, 0)
       /\ PlaceAt(21 + 3) = Place(5, "awaiting_approval", OperatorGates, 0)
       /\ PlaceAt(21 + 4) = Place(5, "approved", OperatorGates, 0)
       /\ PlaceAt(21 + 5) = Place(5, "canary", OperatorGates, 0)
  BY DEF Closed
<1> HIDE DEF PlaceAt, OperatorPlace, Place, Turn, Acts, Fits, Succeeds, Shows,
             Explains, Expect, About, ReleaseStatus
<1> DEFINE waits == Explains(ObserveOf(1, 3, 0, 100), "canary",
                             Reason("canary_insufficient", {}))
           enough == HasTraffic(Shows(ObserveOf(1, 10, 10, 200), "succeeded"),
                                100)
           exceeds == Explains(ObserveOf(4, 3, 20, 201), "rolled_back",
                          Reason("canary_exceeded", {"error_rate", "p95_ms"}))
<1> HIDE DEF waits, enough, exceeds
<1>15. Turn(waits, PlaceAt(6), PlaceAt(7))
  <2> DEFINE count == 3
             errors == 0
             latency == 100
             o == [request_count |-> count, error_rate |-> errors,
                   p95_ms |-> latency]
  <2>1. count \in Nat /\ errors \in Nat /\ latency \in Nat
        /\ count <= MaxInteger
    BY OperatorRuns, LedgerAssumption, SMT
  <2>2. /\ EvaluateCanary(o, ScriptPolicy) = "continue"
        /\ CanaryReason(o, ScriptPolicy) = Reason("canary_insufficient", {})
    BY OperatorRuns, SMT
    DEF EvaluateCanary, ExceededLimits, CanaryReason, OperatorPolicy
  <2>3. waits.call = ObserveOf(1, count, errors, latency)
    BY SMT DEF waits, Explains, Expect
  <2>4. Fits(waits, PlaceAt(7))
    BY <1>1, SMT
    DEF waits, Explains, Expect, Fits, ObserveOf, About, ReleaseStatus,
        PlaceAt, Place, OperatorPlace
  <2>5. waits.reasons = {Reason("canary_insufficient", {})}
    BY SMT DEF waits, Explains, Expect
  <2>6. Changes(PlaceAt(6), PlaceAt(7))
    BY <1>1 DEF Changes, SameRelease, Longer, PlaceAt, Place, OperatorPlace
  <2>7. /\ PlaceAt(7).cancelled = PlaceAt(6).cancelled
        /\ PlaceAt(6).status = "canary" /\ PlaceAt(6).release = 1
        /\ Decides("continue", PlaceAt(6), PlaceAt(7))
    BY DEF Decides, PlaceAt, Place, OperatorPlace
  <2>8. o = [request_count |-> count, error_rate |-> errors,
             p95_ms |-> latency]
    OBVIOUS
  <2> HIDE DEF count, errors, latency, o
  <2>9. Explained(waits, CanaryReason(o, ScriptPolicy))
    BY <2>2, <2>5 DEF Explained
  <2> QED BY <2>1, <2>2, <2>3, <2>4, <2>6, <2>7, <2>8, <2>9, ObservationTurns
<1>17. Turn(enough, PlaceAt(7), PlaceAt(8))
  <2> DEFINE count == 10
             errors == 10
             latency == 200
             o == [request_count |-> count, error_rate |-> errors,
                   p95_ms |-> latency]
  <2>1. count \in Nat /\ errors \in Nat /\ latency \in Nat
        /\ count <= MaxInteger
    BY OperatorRuns, LedgerAssumption, SMT
  <2>2. EvaluateCanary(o, ScriptPolicy) = "promote"
    BY OperatorRuns, SMT
    DEF EvaluateCanary, OperatorPolicy
  <2>3. enough.call = ObserveOf(1, count, errors, latency)
    BY SMT DEF enough, HasTraffic, Shows, Expect
  <2>4. Fits(enough, PlaceAt(8))
    BY <1>1, SMT
    DEF enough, HasTraffic, Shows, Expect, Fits, ObserveOf, About,
        ReleaseStatus,
        PlaceAt, Place, OperatorPlace
  <2>5. enough.reasons = AnyReason
    BY SMT DEF enough, HasTraffic, Shows, Expect
  <2>6. Changes(PlaceAt(7), PlaceAt(8))
    BY <1>1 DEF Changes, SameRelease, Longer, PlaceAt, Place, OperatorPlace
  <2>7. /\ PlaceAt(8).cancelled = PlaceAt(7).cancelled
        /\ PlaceAt(7).status = "canary" /\ PlaceAt(7).release = 1
        /\ Decides("promote", PlaceAt(7), PlaceAt(8))
    BY DEF Decides, PlaceAt, Place, OperatorPlace
  <2>8. o = [request_count |-> count, error_rate |-> errors,
             p95_ms |-> latency]
    OBVIOUS
  <2> HIDE DEF count, errors, latency, o
  <2>9. Explained(enough, CanaryReason(o, ScriptPolicy))
    BY <2>2, <2>5 DEF Explained
  <2> QED BY <2>1, <2>2, <2>3, <2>4, <2>6, <2>7, <2>8, <2>9, ObservationTurns
<1>19. Turn(exceeds, PlaceAt(20), PlaceAt(21))
  <2> DEFINE count == 3
             errors == 20
             latency == 201
             o == [request_count |-> count, error_rate |-> errors,
                   p95_ms |-> latency]
  <2>1. count \in Nat /\ errors \in Nat /\ latency \in Nat
        /\ count <= MaxInteger
    BY OperatorRuns, LedgerAssumption, SMT
  <2>2. /\ EvaluateCanary(o, ScriptPolicy) = "rollback"
        /\ CanaryReason(o, ScriptPolicy) =
               Reason("canary_exceeded", {"error_rate", "p95_ms"})
    <3>1. ExceededLimits(o, ScriptPolicy) = {"error_rate", "p95_ms"}
      BY OperatorRuns, SMT DEF ExceededLimits, OperatorPolicy
    <3>2. EvaluateCanary(o, ScriptPolicy) = "rollback"
      BY OperatorRuns, SMT DEF EvaluateCanary, OperatorPolicy
    <3> QED BY <3>1, <3>2 DEF CanaryReason
  <2>3. exceeds.call = ObserveOf(4, count, errors, latency)
    BY SMT DEF exceeds, Explains, Expect
  <2>4. Fits(exceeds, PlaceAt(21))
    BY <1>1, SMT
    DEF exceeds, Explains, Expect, Fits, ObserveOf, About, ReleaseStatus,
        PlaceAt, Place, OperatorPlace
  <2>5. exceeds.reasons = {Reason("canary_exceeded", {"error_rate", "p95_ms"})}
    BY SMT DEF exceeds, Explains, Expect
  <2>6. Changes(PlaceAt(20), PlaceAt(21))
    BY <1>1 DEF Changes, SameRelease, Longer, PlaceAt, Place, OperatorPlace
  <2>7. /\ PlaceAt(21).cancelled = PlaceAt(20).cancelled
        /\ PlaceAt(20).status = "canary" /\ PlaceAt(20).release = 4
        /\ Decides("rollback", PlaceAt(20), PlaceAt(21))
    BY DEF Decides, PlaceAt, Place, OperatorPlace
  <2>8. o = [request_count |-> count, error_rate |-> errors,
             p95_ms |-> latency]
    OBVIOUS
  <2> HIDE DEF count, errors, latency, o
  <2>9. Explained(exceeds, CanaryReason(o, ScriptPolicy))
    BY <2>2, <2>5 DEF Explained
  <2> QED BY <2>1, <2>2, <2>3, <2>4, <2>6, <2>7, <2>8, <2>9, ObservationTurns
<1>24. Leads(PromotedThenRolledBack, 1) /\ Len(PromotedThenRolledBack) = 8
  <2>1. PromotedThenRolledBack =
            <<Succeeds(CreateOf(OperatorEnv, 1)),
              Explains(GateOf(1, "tests", "passed"), "evaluating",
                       Reason("gates_missing", {"security"})),
              Passes(1, "security"),
              Succeeds(ApproveOf(1)), Succeeds(DeployOf(1)), waits, enough,
              Explains(RollbackOf(1), "rolled_back",
                       Reason("manual_rollback", {}))>>
    BY Zenon DEF PromotedThenRolledBack, waits, enough
  <2> QED BY <1>2, <1>5, <1>6, <1>7, <1>8, <1>15, <1>17, <1>9, <2>1, EightLead
<1>25. Leads(FailedGateTerminal, 9) /\ Len(FailedGateTerminal) = 3
  BY <1>3, <1>10, <1>11, ThreeLead DEF FailedGateTerminal
<1>26. Leads(CancelBeforeCanary, 12) /\ Len(CancelBeforeCanary) = 3
  BY <1>4, <1>12, <1>13, ThreeLead DEF CancelBeforeCanary
<1>27. Leads(BadMetrics, 15) /\ Len(BadMetrics) = 6
  <2>1. PICK canary : canary = CanaryOf(4)
    OBVIOUS
  <2>2. PICK one : one = <<exceeds>>
    OBVIOUS
  <2>3. Leads(canary, 15) /\ Len(canary) = 5 /\ IsList(canary)
    BY <1>22, <2>1, CanaryLeads
  <2>4. Leads(one, 20) /\ Len(one) = 1 /\ IsList(one)
    BY <1>19, <2>2, OneLeads, ListOfOne
  <2>5. BadMetrics = canary \o one
    BY <2>1, <2>2, Zenon DEF BadMetrics, exceeds
  <2>6. 15 \in Nat /\ 20 \in Nat /\ 20 = 15 + Len(canary)
    BY <2>3
  <2>7. Leads(BadMetrics, 15) /\ Len(BadMetrics) = Len(canary) + Len(one)
    BY <2>3, <2>4, <2>5, <2>6, ListLeadsOn, Zenon
  <2> QED BY <2>3, <2>4, <2>7
<1>28. PICK most : /\ most = PromotedThenRolledBack \o FailedGateTerminal
                             \o CancelBeforeCanary \o BadMetrics
                   /\ Leads(most, 1) /\ Len(most) = 20 /\ IsList(most)
  <2>1. /\ IsList(PromotedThenRolledBack) /\ IsList(FailedGateTerminal)
        /\ IsList(CancelBeforeCanary) /\ IsList(BadMetrics)
    BY ScriptsAreLists
  <2>2. PICK s : s = PromotedThenRolledBack \o FailedGateTerminal
    OBVIOUS
  <2>3. 1 \in Nat /\ 9 \in Nat /\ 9 = 1 + Len(PromotedThenRolledBack)
    BY <1>24
  <2>4. /\ Leads(s, 1) /\ IsList(s)
        /\ Len(s) = Len(PromotedThenRolledBack) + Len(FailedGateTerminal)
    BY <1>24, <1>25, <2>1, <2>2, <2>3, ListLeadsOn, Zenon
  <2>5. 12 \in Nat /\ 12 = 1 + Len(s)
    BY <1>24, <1>25, <2>4
  <2>6. PICK t : t = s \o CancelBeforeCanary
    OBVIOUS
  <2>7. /\ Leads(t, 1) /\ IsList(t)
        /\ Len(t) = Len(s) + Len(CancelBeforeCanary)
    BY <1>26, <2>1, <2>3, <2>4, <2>5, <2>6, ListLeadsOn, Zenon
  <2>8. 15 \in Nat /\ 15 = 1 + Len(t)
    BY <1>26, <2>5, <2>7
  <2>9. PICK u : u = t \o BadMetrics
    OBVIOUS
  <2>10. Leads(u, 1) /\ IsList(u) /\ Len(u) = Len(t) + Len(BadMetrics)
    BY <1>27, <2>1, <2>3, <2>7, <2>8, <2>9, ListLeadsOn, Zenon
  <2>11. Len(u) = 20
    BY <1>27, <2>8, <2>10
  <2> QED BY <2>2, <2>6, <2>9, <2>10, <2>11, Zenon
<1>29. PICK canary : /\ canary = CanaryOf(5) /\ Leads(canary, 21)
                     /\ Len(canary) = 5 /\ IsList(canary)
  BY <1>23, CanaryLeads
<1>30. PICK rest : /\ rest = MissingMetrics /\ IsList(rest) /\ Len(rest) = 6
                   /\ \A i \in 1..5 : rest[i] = canary[i]
                   /\ rest[6] = last
  <2>1. PICK one : one = <<last>>
    OBVIOUS
  <2>2. Len(one) = 1 /\ one[1] = last
    BY <2>1
  <2>3. IsList(one)
    BY <2>1, ListOfOne
  <2>4. PICK rest : rest = canary \o one
    OBVIOUS
  <2>5. /\ Len(rest) = Len(canary) + Len(one)
        /\ \A i \in 1..Len(canary) : rest[i] = canary[i]
        /\ \A i \in 1..Len(one) : rest[Len(canary) + i] = one[i]
    BY <1>29, <2>3, <2>4, JoinedSteps
  <2>6. /\ Len(rest) = 6 /\ rest[6] = last
        /\ \A i \in 1..5 : rest[i] = canary[i]
    BY <1>29, <2>2, <2>5
  <2>7. rest = MissingMetrics
    BY <1>20, <1>29, <2>1, <2>4, Zenon DEF MissingMetrics
  <2> QED BY <2>6, <2>7, ScriptsAreLists, Zenon
<1>31. Steps = OperatorScenarios /\ OperatorScenarios = most \o rest
  BY <1>28, <1>30, Zenon DEF Steps, OperatorScenarios
<1>32. PICK all : all = most \o rest
  OBVIOUS
<1>33. /\ Len(all) = 26
       /\ \A i \in 1..20 : all[i] = most[i]
       /\ \A i \in 1..6 : all[20 + i] = rest[i]
  <2>1. /\ Len(all) = Len(most) + Len(rest)
        /\ \A i \in 1..Len(most) : all[i] = most[i]
        /\ \A i \in 1..Len(rest) : all[Len(most) + i] = rest[i]
    <3>1. IsList(most) /\ IsList(rest)
      BY <1>28, <1>30
    <3> QED BY <1>32, <3>1, JoinedSteps
  <2>2. Len(most) = 20 /\ Len(rest) = 6
    BY <1>28, <1>30, Zenon
  <2>3. 20 + 6 = 26
    OBVIOUS
  <2> QED BY <2>1, <2>2, <2>3, Zenon
<1>34. ASSUME NEW i \in 1..25 PROVE Turn(all[i], PlaceAt(i), PlaceAt(i + 1))
  <2>1. CASE i \in 1..20
    <3>1. Turn(most[i], PlaceAt(1 + i - 1), PlaceAt(1 + i))
      BY <1>28, <2>1 DEF Leads
    <3>2. 1 + i - 1 = i /\ 1 + i = i + 1
      OBVIOUS
    <3> QED BY <1>33, <2>1, <3>1, <3>2
  <2>2. CASE i \in 21..25
    <3>1. PICK j \in 1..5 : i = 20 + j
      <4>1. i - 20 \in 1..5 /\ i = 20 + (i - 20)
        BY <2>2
      <4> QED BY <4>1
    <3>2. Turn(canary[j], PlaceAt(21 + j - 1), PlaceAt(21 + j))
      BY <1>29, <3>1 DEF Leads
    <3>3. 21 + j - 1 = i /\ 21 + j = i + 1 /\ all[i] = canary[j]
      BY <1>30, <1>33, <3>1
    <3> QED BY <3>2, <3>3
  <2> QED BY <2>1, <2>2
<1>35. all[26] = last
  BY <1>30, <1>33
<1> QED BY <1>21, <1>31, <1>32, <1>33, <1>34, <1>35

\* A step that leads on sends a call.
LEMMA TurnsAsk ==
    ASSUME NEW step, NEW p, NEW n, Turn(step, p, n)
    PROVE  /\ step.call.kind # "await" /\ About(step.call) \in Releases
           /\ Acts(step, p, n) => n.release \in Releases /\ n.least \in Nat
<1>1. CASE Opens(step, p, n)
  BY <1>1, ReleaseNumbers DEF Opens, CreateOf, About
<1>2. ASSUME NEW gate, NEW result, Accepts(step, p, n, gate, result)
      PROVE  /\ step.call.kind # "await" /\ About(step.call) \in Releases
             /\ n.release \in Releases /\ n.least \in Nat
  BY <1>2 DEF Accepts, GateOf, About, SameRelease, Longer
<1>3. CASE Reports(step, p, n) \/ Completes(step, p, n) \/ Blocks(step, p, n)
  BY <1>2, <1>3 DEF Reports, Completes, Blocks
<1>4. ASSUME Changes(p, n)
      PROVE  n.release = p.release /\ n.release \in Releases /\ n.least \in Nat
  BY <1>4 DEF Changes, SameRelease, Longer
<1>5. CASE Approves(step, p, n)
  BY <1>4, <1>5 DEF Approves, ApproveOf, About
<1>6. CASE Cancels(step, p, n)
  BY <1>4, <1>6 DEF Cancels, CancelOf, About
<1>7. CASE Deploys(step, p, n)
  BY <1>4, <1>7 DEF Deploys, DeployOf, About
<1>8. CASE TakesBack(step, p, n)
  BY <1>4, <1>8 DEF TakesBack, RollbackOf, About
<1>9. CASE Observes(step, p, n)
  <2>1. PICK o : step.call = [kind |-> "observe", release |-> p.release,
                              who |-> Observer, observation |-> o]
    BY <1>9 DEF Observes
  <2> QED BY <1>4, <1>9, <2>1 DEF Observes, About
<1>10. CASE Acts(step, p, n)
  BY <1>1, <1>3, <1>5, <1>6, <1>7, <1>8, <1>9, <1>10 DEF Acts
<1>11. CASE ComesLate(step, p, n) /\ ~Acts(step, p, n)
  BY <1>11 DEF ComesLate, Idles, GateOf
<1>12. CASE CancelsAgain(step, p, n) /\ ~Acts(step, p, n)
  BY <1>12 DEF CancelsAgain, Idles, CancelOf
<1> QED BY <1>10, <1>11, <1>12 DEF Turn

\* Every step of a script but the one that waits leads to the next place, and
\* the last one leaves nothing in flight.
LEMMA ScriptTurns ==
    ASSUME ScriptsTyped, script # "none", NEW step, NEW p, NEW n,
           At(step, p, n)
    PROVE  /\ Len(Steps) \in Nat /\ pos \in 1..Len(Steps)
           /\ step.call.kind = "await" => Waits(step, p) /\ pos = Len(Steps)
           /\ step.call.kind # "await" =>
                  /\ Turn(step, p, n)
                  /\ pos = Len(Steps) =>
                         n.status \in Closed /\ n.release \in Releases
<1>1. /\ script \in {"smoke", "operator"} /\ pos \in 1..Len(Steps)
      /\ step = Steps[pos] /\ p = PlaceAt(pos) /\ n = PlaceAt(pos + 1)
  BY ScriptsAssumption DEF ScriptsTyped, At, Before, After
<1>2. CASE script = "smoke"
  <2>1. PICK s : s = Smoke
    OBVIOUS
  <2>2. /\ Leads(s, 1) /\ Len(s) = 19 /\ Steps = s
        /\ PlaceAt(20).status \in Closed /\ PlaceAt(20).release \in Releases
    BY <1>2, <2>1, SmokeLeads
  <2>3. pos \in 1..19 /\ 1 + pos - 1 = pos /\ 1 + pos = pos + 1
    <3>1. pos \in 1..19
      BY <1>1, <2>2, Zenon
    <3> QED BY <3>1
  <2>4. Turn(step, p, n)
    BY <1>1, <2>2, <2>3 DEF Leads
  <2>5. pos = 19 => n = PlaceAt(20)
    BY <1>1
  <2>6. step.call.kind # "await"
    BY <2>4, TurnsAsk
  <2>7. Len(Steps) = 19 /\ 19 \in Nat
    BY <2>2
  <2> QED BY <1>1, <2>2, <2>4, <2>5, <2>6, <2>7, Zenon
<1>3. CASE script = "operator"
  <2>1. PICK s : s = Steps
    OBVIOUS
  <2>2. /\ Len(s) = 26
        /\ \A i \in 1..25 : Turn(s[i], PlaceAt(i), PlaceAt(i + 1))
        /\ Waits(s[26], PlaceAt(26))
    BY <1>3, <2>1, OperatorLeads
  <2>3. CASE pos = 26
    <3>1. Waits(step, p)
      BY <1>1, <2>1, <2>2, <2>3
    <3> QED BY <1>1, <2>1, <2>2, <2>3, <3>1 DEF Waits
  <2>4. CASE pos \in 1..25
    <3>1. Turn(step, p, n)
      BY <1>1, <2>1, <2>2, <2>4
    <3> QED BY <1>1, <2>1, <2>2, <2>4, <3>1, TurnsAsk
  <2>5. pos \in 1..25 \/ pos = 26
    BY <1>1, <2>1, <2>2
  <2> QED BY <2>3, <2>4, <2>5
<1> QED BY <1>1, <1>2, <1>3

-------------------------------------------------------------------------------
(* What the reconciler does to a script.                                   *)

\* The reconciler has ended the canary of release r.
Ends(r) ==
    /\ status[r] = "canary" /\ status'[r] = "rolled_back"
    /\ reason'[r] = Reason("timeout", {}) /\ TimedOut(r)'

\* It has left release r alone.
Spares(r) == /\ status'[r] = status[r] /\ reason'[r] = reason[r]
             /\ journal'[r] = journal[r]

\* It leaves everything a script looks at alone, or times canaries out.
LEMMA ReconcilerTimesOut ==
    ASSUME TypeOK, ReconcilerNext \/ UNCHANGED ledgerVars
    PROVE  /\ UNCHANGED <<identity, gateTables, approvedBy>>
           /\ \/ UNCHANGED <<status, reason, journal, traffic, current>>
              \/ /\ \A r \in Releases : Spares(r) \/ Ends(r)
                 /\ \E r \in Releases : Ends(r)
<1>1. CASE UNCHANGED ledgerVars
  BY <1>1 DEF ledgerVars, pointers
<1>2. ASSUME NEW r \in Releases, Expire(r)
      PROVE  UNCHANGED <<identity, gateTables, approvedBy, status, reason,
                         journal, traffic, current>>
  BY <1>2 DEF Expire, pointers
<1>3. ASSUME NEW batch \in SUBSET Due, Reconcile(batch)
      PROVE  /\ UNCHANGED <<identity, gateTables, approvedBy>>
             /\ \A r \in Releases : Spares(r) \/ Ends(r)
             /\ \E r \in Releases : Ends(r)
  <2>1. PICK owned : owned = Owned(batch)
    OBVIOUS
  <2>2. /\ ReconcileCommitted(owned) /\ owned # {} /\ owned \subseteq Releases
        /\ \A r \in owned : status[r] = "canary"
    BY <1>3, <2>1 DEF Reconcile, Owned, Due
  <2>3. UNCHANGED <<identity, gateTables, approvedBy>>
    BY <2>2 DEF ReconcileCommitted
  <2>4. ASSUME NEW r \in Releases, r \notin owned
        PROVE  Spares(r)
    BY <2>2, <2>4 DEF ReconcileCommitted, Spares
  <2>5. ASSUME NEW r \in owned
        PROVE  Ends(r)
    <3>1. r \in Releases /\ status[r] = "canary"
      BY <2>2, <2>5
    <3>2. status'[r] = "rolled_back" /\ reason'[r] = Reason("timeout", {})
      BY <2>2, <2>5, <3>1 DEF ReconcileCommitted
    <3>3. PICK a, b : /\ b = Note("canary.timeout", "reconciler", NoReason)
                      /\ journal'[r] = journal[r] \o <<a, b>>
      BY <2>2, <2>5, <3>1, Zenon DEF ReconcileCommitted
    <3>4. PICK S : a \in S /\ b \in S /\ Events \subseteq S
      <4>1. \E S : S = Events \cup {a, b}
        OBVIOUS
      <4> QED BY <4>1
    <3>5. journal[r] \in Seq(S) /\ <<a, b>> \in Seq(S)
      <4>1. journal[r] \in Seq(Events)
        BY <3>1 DEF TypeOK
      <4> QED BY <3>4, <4>1, SeqMonotonic
    <3>6. PICK i : i = Len(journal[r]) + 2
      OBVIOUS
    <3>7. i \in DOMAIN journal'[r] /\ journal'[r][i] = b
      <4>1. PICK old, new : old = journal[r] /\ new = <<a, b>>
        OBVIOUS
      <4>2. /\ old \in Seq(S) /\ new \in Seq(S) /\ Len(new) = 2
            /\ new[2] = b /\ journal'[r] = old \o new
        BY <3>3, <3>5, <4>1
      <4>3. Len(old) \in Nat
        BY <4>2, LenProperties
      <4> QED BY <3>6, <4>1, <4>2, <4>3, ConcatProperties
    <3>8. b.type = "canary.timeout"
      <4>1. b = Note("canary.timeout", "reconciler", NoReason)
        BY <3>3
      <4> QED BY <4>1 DEF Note, Event
    <3>9. TimedOut(r)'
      BY <3>7, <3>8 DEF TimedOut
    <3> QED BY <3>1, <3>2, <3>9 DEF Ends
  <2> QED BY <2>2, <2>3, <2>4, <2>5
<1> QED BY <1>1, <1>2, <1>3 DEF ReconcilerNext

\* What was timed out stays so.
LEMMA TimedOutStays ==
    ASSUME TypeOK, ReconcilerNext \/ UNCHANGED ledgerVars,
           NEW r \in Releases, TimedOut(r)
    PROVE  TimedOut(r)'
<1>1. Spares(r) \/ Ends(r) \/ journal' = journal
  BY ReconcilerTimesOut
<1> QED BY <1>1 DEF Spares, Ends, TimedOut

\* It can only take the canary of the place the script is at.
LEMMA ReconcilerOvertakes ==
    ASSUME TypeOK, ReconcilerNext \/ UNCHANGED ledgerVars, script' = script,
           NEW p
    PROVE  /\ Overtaken(p) => Overtaken(p)'
           /\ Stands(p) =>
                  \/ Overtaken(p)'
                  \/ /\ Stands(p)'
                     /\ UNCHANGED <<status, reason, journal, Bodies>>
           /\ AllClosed /\ stage' = stage => AllClosed'
<1>1. ScriptEnv' = ScriptEnv
  BY DEF ScriptEnv
<1>2. /\ UNCHANGED <<envOf, keyOf, previous, results, receipts>>
      /\ UNCHANGED <<artifactOf, approvedBy>>
  BY ReconcilerTimesOut DEF identity, gateTables
<1>3. CASE UNCHANGED <<status, reason, journal, traffic, current>>
  <2>1. Bodies' = Bodies
    BY <1>2, <1>3 DEF Bodies, Body, ReadRow
  <2> QED BY <1>1, <1>2, <1>3, <2>1
      DEF TimedOut, Overtaken, Stands, Alone, Exists, OneEach, AllClosed
<1>4. CASE /\ \A r \in Releases : Spares(r) \/ Ends(r)
           /\ \E r \in Releases : Ends(r)
  <2>1. PICK r \in Releases : Ends(r)
    BY <1>4
  <2>2. /\ Exists(r) /\ status[r] \notin Closed
        /\ status[r] = "canary" /\ status'[r] = "rolled_back"
        /\ reason'[r] = Reason("timeout", {}) /\ TimedOut(r)'
    BY <2>1 DEF Ends, Exists, Closed
  <2>3. ~AllClosed
    BY <2>2 DEF AllClosed
  <2>4. ASSUME Alone(p.release), p.release \in Nat
        PROVE  p.release = r /\ Alone(p.release)'
    <3>1. p.release = r
      BY <2>2, <2>4, ReleaseNumbers DEF Alone
    <3>2. \A s \in Releases \ {r} : status'[s] = status[s]
      <4>1. ASSUME NEW s \in Releases \ {r}
            PROVE  status[s] # "canary"
        BY <2>4, <3>1, <4>1, ReleaseNumbers DEF Alone, Exists, Closed
      <4> QED BY <1>4, <4>1 DEF Spares, Ends
    <3>3. ASSUME NEW s \in Releases
          PROVE  /\ s > r => ~Exists(s)'
                 /\ s < r => status'[s] \in Closed
                 /\ Exists(s)' => envOf[s] = ScriptEnv /\ keyOf[s] = s
      <4>1. CASE s = r
        BY <2>2, <2>4, <4>1, ReleaseNumbers DEF Alone
      <4>2. CASE s # r
        BY <2>4, <3>1, <3>2, <4>2 DEF Alone, Exists
      <4> QED BY <4>1, <4>2
    <3> QED BY <1>1, <1>2, <3>1, <3>3 DEF Alone
  <2>5. ~Overtaken(p)
    BY <2>2, <2>4, ReleaseNumbers DEF Overtaken
  <2>6. ASSUME Stands(p) PROVE Overtaken(p)'
    <3>1. Alone(p.release) /\ OneEach
      BY <2>6 DEF Stands
    <3>2. p.release \in Nat
      BY <2>6 DEF Stands
    <3>3. p.release = r /\ Alone(p.release)'
      BY <2>4, <3>1, <3>2
    <3>4. p.status = "canary"
      BY <2>2, <2>6, <3>3 DEF Stands
    <3>5. OneEach'
      BY <1>2, <3>1 DEF OneEach
    <3>6. TimedOut(p.release)'
      BY <2>2, <3>3
    <3> QED BY <2>2, <3>3, <3>4, <3>5, <3>6 DEF Overtaken
  <2> QED BY <1>4, <2>3, <2>5, <2>6
<1> QED BY <1>3, <1>4, ReconcilerTimesOut

-------------------------------------------------------------------------------
(* Every step of a script keeps its progress.                              *)

\* A step that writes no table leaves the environment at its place.
LEMMA PlaceStays ==
    ASSUME UNCHANGED ledgerVars, script' = script, NEW p
    PROVE  /\ Stands(p) => Stands(p)'
           /\ Overtaken(p) => Overtaken(p)'
           /\ Bodies' = Bodies
<1>1. Bodies' = Bodies
  BY DEF ledgerVars, identity, Bodies, Body, ReadRow
<1> QED
  BY <1>1 DEF ledgerVars, identity, pointers, gateTables, Stands, Overtaken,
              TimedOut, Alone, Exists, OneEach, ScriptEnv

\* What is known while a script runs.
InScript(step, p, n) ==
    /\ RetriesInv /\ LineageInv /\ ScriptsTyped
    /\ script # "none" /\ script' = script
    /\ MemoryTyped
    /\ At(step, p, n) /\ Progress(step, p, n)

\* The request is one of the script's, and its step leads on.
LEMMA CallIsMade ==
    ASSUME NEW step, NEW p, NEW n, InScript(step, p, n),
           stage[Runner] # "idle"
    PROVE  /\ Runner \in Clients /\ call[Runner] = step.call
           /\ Turn(step, p, n) /\ Handles(step)
<1>1. call[Runner] = step.call /\ step.call.kind # "await"
  BY DEF InScript, Progress
<1>2. Runner \in Clients
  BY ScriptsAssumption
<1>3. Turn(step, p, n)
  BY <1>1, ScriptTurns DEF InScript
<1>4. step.call \in ApiCalls
  BY <1>1, StepCalls DEF InScript, At
<1>5. Handles(step)
  BY <1>4, ScriptEnvironment DEF Handles, InScript, RetriesInv
<1> QED BY <1>1, <1>2, <1>3, <1>5

\* The handler's commit.
LEMMA DoProgresses ==
    ASSUME NEW step, NEW p, NEW n, InScript(step, p, n), Do(Runner),
           UNCHANGED scriptVars
    PROVE  Progress(step, p, n)'
<1>1. stage[Runner] = "sent"
  BY DEF Do
<1>2. /\ Runner \in Clients /\ call[Runner] = step.call
      /\ Turn(step, p, n) /\ Handles(step)
  BY <1>1, CallIsMade
<1>3. Verdict(step.call) = "do"
  BY <1>2 DEF Do
<1>4. Waiting(p)
  BY <1>1, <1>2, <1>3, OvertakenIsRefused DEF InScript, Progress
<1>5. Acts(step, p, n)
  BY <1>2, <1>3, <1>4, LateIsRefused, AgainIsFound DEF Turn, Waiting
<1>6. PICK r \in Releases : /\ Perform(step.call, r)
                            /\ reply' = [reply EXCEPT ![Runner] = ReadRow(r)]
  BY <1>2 DEF Do
<1>7. Commits(step, r)
  BY <1>2, <1>6 DEF Commits, Handles, scriptVars
<1>8. /\ r = n.release /\ Stands(n)' /\ reason'[r] \in step.reasons
      /\ \A s \in Releases \ {r} : journal'[s] = journal[s]
  BY <1>2, <1>4, <1>5, <1>7, ActsDone DEF Waiting
<1>9. Fits(step, n)
  BY <1>5 DEF Acts
<1>10. reply'[Runner].release = r
  BY <1>2, <1>6 DEF InScript, RetriesInv, CallsTyped, ReadRow
<1>11. InTime(step, n)'
  <2>1. About(step.call) = r /\ UNCHANGED <<seen, shown>>
    BY <1>8, <1>9 DEF Fits, scriptVars
  <2>2. \A s \in Releases \ {r} : seen'[s] = journal'[s]
    BY <1>4, <1>8, <2>1 DEF Waiting, Noted
  <2>3. \A s \in Releases \ {r} : Bodies'[s] = Bodies[s]
    BY <1>7, <1>8, OtherRowsStay
  <2>4. \A s \in n.cancelled \ {r} : s \in p.cancelled /\ s \in Releases
    BY <1>4, <1>5, <1>8, ActsCancelOne DEF Waiting, Stands
  <2>5. \A s \in n.cancelled \ {r} : shown'[s] = Bodies'[s]
    BY <1>4, <2>1, <2>3, <2>4 DEF Waiting, Remembered
  <2> QED BY <1>8, <2>1, <2>2, <2>5 DEF InTime, Noted, Remembered
<1>12. stage'[Runner] = "committed" /\ call'[Runner] = step.call
  BY <1>2 DEF Do, InScript, RetriesInv, CallsTyped
<1>13. Served(step, n)'
  BY <1>8, <1>9, <1>10, <1>11 DEF Served
<1> QED BY <1>2, <1>12, <1>13, TurnsAsk DEF Progress

\* An answer without a commit.
LEMMA AnswerStays ==
    ASSUME NEW step, NEW p, NEW n, InScript(step, p, n), NEW answer,
           stage[Runner] # "idle", Answer(Runner, answer), UNCHANGED scriptVars
    PROVE  /\ stage'[Runner] = "answered" /\ reply'[Runner] = answer
           /\ call'[Runner] = step.call /\ step.call.kind # "await"
           /\ Bodies' = Bodies /\ shown' = shown
           /\ Waiting(p) => Waiting(p)'
           /\ InTime(step, n) => InTime(step, n)'
           /\ Overtaken(p) => Overtaken(p)'
           /\ Overtaken(n) => Overtaken(n)'
<1>1. /\ Runner \in Clients /\ call[Runner] = step.call
      /\ step.call.kind # "await"
  BY CallIsMade, TurnsAsk
<1>2. /\ stage'[Runner] = "answered" /\ reply'[Runner] = answer
      /\ call'[Runner] = call[Runner]
  BY <1>1 DEF Answer, InScript, RetriesInv, CallsTyped
<1>3. UNCHANGED <<journal, seen, shown, script>> /\ UNCHANGED ledgerVars
  BY DEF Answer, ledgerVars, scriptVars
<1>4. Bodies' = Bodies
  BY <1>3, PlaceStays
<1> QED BY <1>1, <1>2, <1>3, <1>4, PlaceStays
        DEF Waiting, InTime, Noted, Remembered

\* The handler finds the work done.
LEMMA AnswerAgainProgresses ==
    ASSUME NEW step, NEW p, NEW n, InScript(step, p, n), AnswerAgain(Runner),
           UNCHANGED scriptVars
    PROVE  Progress(step, p, n)'
<1>1. stage[Runner] = "sent"
  BY DEF AnswerAgain
<1>2. /\ Runner \in Clients /\ call[Runner] = step.call
      /\ Turn(step, p, n) /\ Handles(step)
  BY <1>1, CallIsMade
<1>3. Verdict(step.call) = "again"
  BY <1>2 DEF AnswerAgain
<1>4. Waiting(p)
  BY <1>1, <1>2, <1>3, OvertakenIsRefused DEF InScript, Progress
<1>5. CancelsAgain(step, p, n)
  BY <1>2, <1>3, <1>4, LateIsRefused, ActsAccepted DEF Turn, Waiting
<1>6. PICK r : /\ r = About(step.call) /\ r \in Releases
               /\ Shown(step.call) = {r} /\ status[r] = "cancelled"
  BY <1>2, <1>4, <1>5, AgainIsFound DEF Waiting
<1>7. PICK answer : answer = ReadRow(r) /\ Answer(Runner, answer)
  BY <1>2, <1>6 DEF AnswerAgain
<1>8. /\ answer.code = "ok" /\ answer.status = "cancelled"
      /\ answer.reason \in AnyReason /\ answer.traffic \in 0..100
      /\ answer.previous \in Releases \cup {NoRelease}
      /\ Body(answer) = Bodies[r]
  <2>1. TypeOK
    BY <1>2 DEF Handles, RowsInv
  <2>2. Body(answer) = Bodies[r]
    BY <1>6, <1>7 DEF Bodies
  <2> QED BY <1>6, <1>7, <2>1, <2>2 DEF ReadRow, AnyReason, TypeOK
<1>9. /\ step.code = "ok" /\ "cancelled" \in step.statuses /\ n = p
      /\ step.reasons = AnyReason /\ r \in p.cancelled
      /\ AnyBody(step)
  BY <1>5, <1>6 DEF CancelsAgain, Idles, CancelOf, About
<1>10. /\ stage'[Runner] = "answered" /\ reply'[Runner] = answer
       /\ call'[Runner] = step.call /\ step.call.kind # "await"
       /\ Waiting(p)' /\ Bodies' = Bodies /\ shown' = shown
  BY <1>1, <1>4, <1>7, AnswerStays
<1>11. shown[r] = Bodies[r] /\ Noted(r)'
  BY <1>4, <1>6, <1>9, <1>10 DEF Waiting, Remembered, Noted
<1>12. InTime(step, n)'
  BY <1>9, <1>10 DEF InTime, Waiting
<1>13. Told(step, n)'
  BY <1>6, <1>8, <1>9, <1>10, <1>11, <1>12 DEF Told, AnyBody
<1> QED BY <1>10, <1>13 DEF Progress

\* The handler refuses.
LEMMA RefuseProgresses ==
    ASSUME NEW step, NEW p, NEW n, InScript(step, p, n), Refuse(Runner),
           UNCHANGED scriptVars
    PROVE  Progress(step, p, n)'
<1>1. stage[Runner] = "sent"
  BY DEF Refuse
<1>2. /\ Runner \in Clients /\ call[Runner] = step.call
      /\ Turn(step, p, n) /\ Handles(step)
  BY <1>1, CallIsMade
<1>3. PICK answer : /\ answer = [NoReply EXCEPT !.code = Verdict(step.call)]
                    /\ Answer(Runner, answer)
                    /\ Verdict(step.call) \in {"refused", "failed"}
  BY <1>2 DEF Refuse
<1>4. /\ stage'[Runner] = "answered" /\ reply'[Runner] = answer
      /\ call'[Runner] = step.call /\ step.call.kind # "await"
      /\ Waiting(p) => Waiting(p)'
      /\ Overtaken(p) => Overtaken(p)'
  BY <1>1, <1>3, AnswerStays
<1>5. /\ answer.code = Verdict(step.call) /\ answer.status = "absent"
      /\ answer.reason = NoReason /\ answer.traffic = 0
      /\ answer.previous = NoRelease
  BY <1>3 DEF NoReply
<1>6. CASE Overtaken(p)
  <2>1. Verdict(step.call) = "refused" /\ step.code = "ok"
    BY <1>2, <1>6, OvertakenIsRefused
  <2> QED BY <1>4, <1>5, <1>6, <2>1 DEF Progress
<1>7. CASE Waiting(p)
  <2>1. ComesLate(step, p, n)
    BY <1>2, <1>3, <1>7, AgainIsFound, ActsAccepted DEF Turn, Waiting
  <2>2. Verdict(step.call) = "refused"
    BY <1>2, <1>7, <2>1, LateIsRefused DEF Waiting
  <2>3. /\ step.code = "refused" /\ "absent" \in step.statuses /\ n = p
        /\ step.reasons = AnyReason /\ About(step.call) \in Releases
        /\ AnyBody(step) /\ ~step.sameBody
    BY <2>1 DEF ComesLate, Idles
  <2>4. NoReason \in AnyReason
    BY DEF AnyReason, Reasons, NoReason, Reason
  <2>5. About(step.call) \notin n.cancelled
    <3>1. About(step.call) = p.release /\ p.release \in Releases
          /\ p.status = "blocked"
      BY <2>1 DEF ComesLate, GateOf, About
    <3> QED BY <1>7, <2>3, <3>1 DEF Waiting, Stands
  <2>6. InTime(step, n)' /\ Noted(About(step.call))'
    BY <1>4, <1>7, <2>3 DEF InTime, Waiting, Noted
  <2>7. 0 \in 0..100
    OBVIOUS
  <2>8. Told(step, n)'
    BY <1>4, <1>5, <2>2, <2>3, <2>4, <2>5, <2>6, <2>7 DEF Told, AnyBody
  <2> QED BY <1>4, <2>8 DEF Progress
<1> QED BY <1>1, <1>6, <1>7 DEF InScript, Progress

\* The handler answers what it has committed.
LEMMA RefreshProgresses ==
    ASSUME NEW step, NEW p, NEW n, InScript(step, p, n), Refresh(Runner),
           UNCHANGED scriptVars
    PROVE  Progress(step, p, n)'
<1>1. stage[Runner] = "committed"
  BY DEF Refresh
<1>2. /\ Runner \in Clients /\ call[Runner] = step.call
      /\ Turn(step, p, n) /\ Handles(step)
  BY <1>1, CallIsMade
<1>3. PICK answer : /\ answer = ReadRow(reply[Runner].release)
                    /\ Answer(Runner, answer)
  BY DEF Refresh
<1>4. /\ stage'[Runner] = "answered" /\ reply'[Runner] = answer
      /\ call'[Runner] = step.call /\ step.call.kind # "await"
      /\ InTime(step, n) => InTime(step, n)'
      /\ Overtaken(n) => Overtaken(n)'
  BY <1>1, <1>3, AnswerStays
<1>5. CASE Overtaken(n)
  BY <1>4, <1>5 DEF Progress
<1>6. CASE Served(step, n)
  <2>1. /\ InTime(step, n) /\ Fits(step, n)
        /\ reply[Runner].release = n.release
        /\ reason[n.release] \in step.reasons
    BY <1>6 DEF Served
  <2>2. n.release \in Releases
    BY <1>2, <2>1, TurnsAsk DEF Fits
  <2>3. /\ answer.code = "ok" /\ answer.status = n.status
        /\ answer.reason = reason[n.release]
        /\ answer.previous = n.previous
        /\ answer.traffic = traffic[n.release]
        /\ Body(answer) = Bodies[n.release]
    <3>1. Body(answer) = Bodies[n.release]
      BY <1>3, <2>1, <2>2 DEF Bodies
    <3> QED BY <1>3, <2>1, <2>2, <3>1 DEF ReadRow, InTime, Stands
  <2>4. answer.traffic \in step.traffic
    <3>1. TypeOK /\ TrafficMatchesStatus
      BY DEF InScript, RetriesInv, RowsInv
    <3>2. answer.traffic \in 0..100
      BY <2>2, <2>3, <3>1 DEF TypeOK
    <3>3. n.status = "succeeded" => answer.traffic = 100
      BY <2>1, <2>2, <2>3, <3>1 DEF TrafficMatchesStatus, InTime, Stands
    <3> QED BY <2>1, <3>2, <3>3 DEF Fits
  <2>5. answer.previous \in step.previous
    <3>1. answer.previous \in Releases \cup {NoRelease}
      BY <2>1, <2>2, <2>3 DEF InTime, Stands, InScript, RetriesInv, RowsInv,
                              TypeOK
    <3> QED BY <2>1, <2>3, <3>1 DEF Fits
  <2>6. Bodies' = Bodies /\ About(step.call) = n.release
    BY <1>1, <1>3, <2>1, AnswerStays DEF Fits
  <2>7. Told(step, n)'
    BY <1>4, <2>1, <2>3, <2>4, <2>5, <2>6 DEF Told, Fits
  <2> QED BY <1>4, <2>7 DEF Progress
<1> QED BY <1>1, <1>5, <1>6 DEF InScript, Progress

\* The script sends its call.
LEMMA SendProgresses ==
    ASSUME NEW step, NEW p, NEW n, InScript(step, p, n), Send(Runner)
    PROVE  Progress(step, p, n)'
<1>1. /\ step.call.kind # "await" /\ Call(Runner, step.call)
      /\ UNCHANGED scriptVars
  BY DEF Send, InScript, At
<1>2. Waiting(p) \/ Overtaken(p)
  BY <1>1 DEF Call, InScript, Progress
<1>3. /\ stage'[Runner] = "sent" /\ call'[Runner] = step.call
      /\ UNCHANGED ledgerVars
  BY <1>1, ScriptsAssumption DEF Call, InScript, RetriesInv, CallsTyped
<1>4. (Waiting(p) \/ Overtaken(p))'
  <2>1. UNCHANGED <<journal, seen, shown, script>>
    BY <1>1, <1>3 DEF ledgerVars, scriptVars
  <2>2. Bodies' = Bodies
    BY <1>3, <2>1, PlaceStays
  <2> QED BY <1>2, <1>3, <2>1, <2>2, PlaceStays DEF Waiting, Noted, Remembered
<1> QED BY <1>1, <1>3, <1>4 DEF Progress

\* The step to be made stays the same.
LEMMA StepStays ==
    ASSUME script' = script, pos' = pos, NEW step, NEW p, NEW n,
           At(step, p, n)
    PROVE  At(step, p, n)'
BY DEF At, Before, After, PlaceAt, Steps

\* An answer as the script expects it meets every assertion.
LEMMA ToldMeets ==
    ASSUME NEW step, NEW p, NEW n, InScript(step, p, n), Turn(step, p, n),
           Told(step, n)
    PROVE  Meets(step, reply[Runner])
<1> DEFINE r == About(step.call)
<1>1. r \in Releases
  BY TurnsAsk
<1>2. Len(journal[r]) \in Nat
  <2>1. journal[r] \in Seq(Events)
    BY <1>1 DEF InScript, RetriesInv, RowsInv, TypeOK
  <2> QED BY <2>1, LenProperties
<1>3. Len(journal[r]) >= step.events
  <2>1. CASE Acts(step, p, n)
    <3>1. /\ n.release \in Releases /\ n.least \in Nat /\ r = n.release
          /\ step.events \in 0..n.least
      BY <2>1, TurnsAsk DEF Acts, Fits
    <3>2. Len(journal[r]) >= n.least
      BY <3>1 DEF Told, InTime, Stands
    <3> QED BY <1>2, <3>1, <3>2
  <2>2. CASE Idles(step, p, n)
    <3>1. step.events = 0
      BY <2>2 DEF Idles, AnyBody
    <3> QED BY <1>2, <3>1
  <2> QED BY <2>1, <2>2 DEF Turn, ComesLate, CancelsAgain
<1> QED BY <1>3 DEF Told, Noted, Meets

\* The script keeps the answer, and the journal it has read.
LEMMA StepIsRemembered ==
    ASSUME MemoryTyped, TypeOK, NEW ok, NEW answer \in Replies,
           About(Steps[pos].call) \in Releases, StepEnds(ok, answer)
    PROVE  /\ MemoryTyped' /\ script' = script
           /\ seen' = [seen EXCEPT ![About(Steps[pos].call)] =
                           journal[About(Steps[pos].call)]]
           /\ shown' = [shown EXCEPT ![About(Steps[pos].call)] = Body(answer)]
<1>1. Body(answer) \in Replies
  BY DEF Body, Replies
<1> QED BY <1>1 DEF StepEnds, MemoryTyped, TypeOK

\* When the last release has ended, nothing is in flight.
LEMMA EndsClosed ==
    ASSUME NEW r \in Releases, Alone(r), OneEach, status[r] \in Closed,
           UNCHANGED ledgerVars, stage'[Runner] = "idle"
    PROVE  AllClosed'
<1>1. ASSUME NEW s \in Releases, Exists(s) PROVE status[s] \in Closed
  BY <1>1, ReleaseNumbers DEF Alone
<1> QED BY <1>1 DEF AllClosed, OneEach, Exists, ledgerVars, gateTables

\* The script looks at the answer, and goes on to the next step.
LEMMA CheckGoesOn ==
    ASSUME NEW step, NEW p, NEW n, InScript(step, p, n), Check(Runner)
    PROVE  ScriptInv'
<1>1. stage[Runner] = "answered"
  BY DEF Check
<1>2. Runner \in Clients /\ Turn(step, p, n)
  BY <1>1, CallIsMade
<1>3. /\ Len(Steps) \in Nat /\ pos \in 1..Len(Steps)
      /\ pos = Len(Steps) => n.status \in Closed /\ n.release \in Releases
  BY <1>2, ScriptTurns, TurnsAsk DEF InScript
<1>4. PICK ok, answer :
          /\ ok \in BOOLEAN /\ answer = reply[Runner]
          /\ ok = Meets(step, answer)
          /\ StepEnds(ok, answer)
  <2>1. Meets(step, reply[Runner]) \in BOOLEAN
    BY DEF Meets
  <2>2. StepEnds(Meets(step, reply[Runner]), reply[Runner])
    BY DEF Check, InScript, At
  <2> HIDE DEF Meets
  <2> QED BY <2>1, <2>2
<1>5. stage'[Runner] = "idle" /\ UNCHANGED ledgerVars
  BY <1>2 DEF Check, Finish, InScript, RetriesInv, CallsTyped
<1>6. About(step.call) \in Releases /\ step = Steps[pos]
  BY <1>2, TurnsAsk DEF InScript, At
<1>7. /\ seen' = [seen EXCEPT ![About(step.call)] = journal[About(step.call)]]
      /\ shown' = [shown EXCEPT ![About(step.call)] = Body(answer)]
      /\ script' = script /\ journal' = journal /\ Bodies' = Bodies
      /\ MemoryTyped /\ MemoryTyped'
  <2>1. TypeOK /\ MemoryTyped /\ answer \in Replies
    BY <1>2, <1>4 DEF InScript, RetriesInv, RowsInv, CallsTyped
  <2>2. journal' = journal /\ Bodies' = Bodies
    BY <1>5, PlaceStays DEF InScript, ledgerVars
  <2> QED BY <1>4, <1>6, <2>1, <2>2, StepIsRemembered
<1>9. \/ Told(step, n) /\ ok = TRUE
      \/ Overtaken(n)
      \/ Overtaken(p) /\ ok = FALSE
  <2>1. \/ Told(step, n)
        \/ Overtaken(n)
        \/ Overtaken(p) /\ reply[Runner].code # step.code
    BY <1>1 DEF InScript, Progress
  <2>2. Told(step, n) => ok = TRUE
    BY <1>2, <1>4, ToldMeets
  <2>3. reply[Runner].code # step.code => ok = FALSE
    BY <1>4 DEF Meets
  <2> QED BY <2>1, <2>2, <2>3
<1>10. CASE ok = FALSE
  <2>1. pos' = pos /\ outcome' = "failed"
    BY <1>4, <1>10 DEF StepEnds
  <2>2. PICK q : q \in {p, n} /\ Overtaken(q)
    BY <1>9, <1>10
  <2>3. q.status = "canary" /\ q.release \in Releases /\ TimedOut(q.release)
    BY <2>2 DEF Overtaken
  <2>4. /\ step.call.kind \in {"deploy", "observe"}
        /\ About(step.call) = q.release
    <3>1. CASE q = p
      BY <1>2, <2>3, <3>1, CanarySteps
    <3>2. CASE q = n
      BY <1>2, <2>3, <3>2, CanarySteps
    <3> QED BY <2>2, <3>1, <3>2
  <2>5. At(step, p, n)'
    BY <1>7, <2>1, StepStays DEF InScript
  <2>6. TimedOut(q.release)'
    BY <1>7, <2>3 DEF TimedOut
  <2>7. Lost(step)'
    BY <1>5, <1>6, <2>4, <2>6 DEF Lost
  <2> QED BY <1>7, <2>1, <2>5, <2>7 DEF ScriptInv
<1>11. CASE ok = TRUE /\ pos = Len(Steps)
  <2>1. pos' = pos /\ outcome' = "passed"
    BY <1>3, <1>4, <1>11 DEF StepEnds
  <2>2. n.status \in Closed /\ n.release \in Releases
    BY <1>3, <1>11
  <2>3. Told(step, n)
    BY <1>9, <1>11, <2>2 DEF Overtaken, Closed
  <2>4. /\ Alone(n.release) /\ OneEach /\ status[n.release] \in Closed
    BY <2>2, <2>3 DEF Told, InTime, Stands
  <2>5. AllClosed'
    BY <1>5, <2>2, <2>4, EndsClosed
  <2>6. At(step, p, n)'
    BY <1>7, <2>1, StepStays DEF InScript
  <2> QED BY <1>7, <2>1, <2>5, <2>6 DEF ScriptInv
<1>12. CASE ok = TRUE /\ pos # Len(Steps)
  <2>1. pos' = pos + 1 /\ outcome' = "running"
    BY <1>3, <1>4, <1>12 DEF StepEnds
  <2>2. PICK next, after : next = Steps[pos + 1] /\ after = PlaceAt(pos + 2)
    OBVIOUS
  <2>3. At(next, n, after)'
    <3>1. Steps' = Steps
      BY <1>7 DEF Steps
    <3>2. /\ Before' = PlaceAt(pos + 1)
          /\ After' = PlaceAt((pos + 1) + 1)
      BY <1>7, <2>1 DEF Before, After, PlaceAt
    <3>3. (pos + 1) + 1 = pos + 2
      BY <1>3
    <3>4. n = PlaceAt(pos + 1)
      BY DEF InScript, At, After
    <3> QED BY <2>1, <2>2, <3>1, <3>2, <3>3, <3>4, Zenon DEF At
  <2>4. Waiting(n)' \/ Overtaken(n)'
    <3>1. CASE Overtaken(n)
      BY <1>5, <1>7, <3>1, PlaceStays
    <3>2. CASE Told(step, n)
      <4>1. Stands(n)'
        BY <1>5, <1>7, <3>2, PlaceStays DEF Told, InTime
      <4>2. \A s \in Releases : seen'[s] = journal'[s]
        BY <1>6, <1>7, <3>2 DEF Told, InTime, Noted, MemoryTyped
      <4>3. ASSUME NEW s \in n.cancelled
            PROVE  shown'[s] = Bodies'[s]
        <5>1. s \in Releases
          BY <3>2, <4>3 DEF Told, InTime, Stands
        <5>2. CASE s = About(step.call)
          BY <1>4, <1>6, <1>7, <3>2, <4>3, <5>2 DEF Told, MemoryTyped
        <5>3. CASE s # About(step.call)
          BY <1>7, <3>2, <4>3, <5>1, <5>3
          DEF Told, InTime, Remembered, MemoryTyped
        <5> QED BY <5>2, <5>3
      <4> QED BY <4>1, <4>2, <4>3 DEF Waiting, Noted, Remembered
    <3> QED BY <1>9, <1>12, <3>1, <3>2
  <2>5. Progress(next, n, after)'
    BY <1>5, <2>4 DEF Progress
  <2> QED BY <1>7, <2>1, <2>3, <2>5 DEF ScriptInv
<1> QED BY <1>4, <1>10, <1>11, <1>12

\* The loop sees that the canary was timed out.
LEMMA SeeRollbackEnds ==
    ASSUME NEW step, NEW p, NEW n, InScript(step, p, n), SeeRollback
    PROVE  ScriptInv'
<1>1. /\ step.call.kind = "await" /\ status[About(step.call)] = "rolled_back"
      /\ UNCHANGED retryVars
  BY DEF SeeRollback, Awaiting, InScript, At
<1>2. Waits(step, p) /\ pos = Len(Steps) /\ Len(Steps) \in Nat
  BY <1>1, ScriptTurns DEF InScript
<1>3. /\ About(step.call) = p.release /\ p.release \in Releases
      /\ p.status = "canary"
  BY <1>2 DEF Waits, About
<1>4. stage[Runner] = "idle" /\ Runner \in Clients
  BY <1>1, ScriptsAssumption
  DEF InScript, Progress, RetriesInv, CallsTyped
<1>5. Overtaken(p)
  BY <1>1, <1>3, <1>4 DEF InScript, Progress, Waiting, Stands
<1>6. PICK r, answer :
          /\ r = p.release /\ answer = ReadRow(r)
          /\ StepEnds(Meets(step, answer) /\ TimedOut(r), answer)
  BY <1>3 DEF SeeRollback, InScript, At
<1>7. /\ r \in Releases /\ TimedOut(r) /\ TypeOK /\ r = About(step.call)
      /\ status[r] = "rolled_back" /\ reason[r] = Reason("timeout", {})
  BY <1>3, <1>5, <1>6 DEF Overtaken, InScript, RetriesInv, RowsInv
<1>8. journal[r] \in Seq(Events) /\ Len(journal[r]) \in Nat
  <2>1. journal[r] \in Seq(Events)
    BY <1>7 DEF TypeOK
  <2> QED BY <2>1, LenProperties
<1>9. answer \in Replies
  BY <1>6, <1>7, <1>8 DEF ReadRow, Replies, TypeOK
<1>10. /\ answer.code = "ok" /\ answer.status = "rolled_back"
       /\ answer.reason = Reason("timeout", {})
       /\ answer.previous \in Releases \cup {NoRelease}
       /\ answer.traffic \in 0..100
  BY <1>6, <1>7 DEF ReadRow, TypeOK
<1>11. Meets(step, answer)
  BY <1>2, <1>7, <1>8, <1>10 DEF Waits, AnyBody, Meets
<1>12. /\ pos' = pos /\ outcome' = "passed" /\ script' = script
       /\ MemoryTyped'
  <2>1. PICK ok : ok = TRUE /\ StepEnds(ok, answer)
    BY <1>6, <1>7, <1>11
  <2>2. ~(pos < Len(Steps))
    BY <1>2
  <2>3. pos' = pos /\ outcome' = "passed"
    BY <1>2, <2>1, <2>2 DEF StepEnds
  <2>4. About(Steps[pos].call) \in Releases
    BY <1>7 DEF InScript, At
  <2> QED BY <1>7, <1>9, <2>1, <2>3, <2>4, StepIsRemembered DEF InScript
<1>13. At(step, p, n)'
  BY <1>12, StepStays DEF InScript
<1>14. stage'[Runner] = "idle" /\ UNCHANGED ledgerVars
  BY <1>1, <1>4 DEF retryVars, clientVars
<1>15. AllClosed'
  BY <1>3, <1>5, <1>14, EndsClosed DEF Overtaken, Closed
<1> QED BY <1>12, <1>13, <1>15 DEF ScriptInv

\* The loop is given up.
LEMMA GiveUpEnds ==
    ASSUME NEW step, NEW p, NEW n, InScript(step, p, n), GiveUp
    PROVE  ScriptInv'
<1>1. /\ step.call.kind = "await" /\ outcome' = "gave_up"
      /\ UNCHANGED <<retryVars, script, pos, seen, shown>>
  BY DEF GiveUp, Awaiting, InScript, At
<1>2. stage[Runner] = "idle" /\ MemoryTyped
  BY <1>1, ScriptsAssumption
  DEF InScript, Progress, RetriesInv, CallsTyped
<1>3. MemoryTyped'
  BY <1>1, <1>2 DEF MemoryTyped
<1>4. At(step, p, n)'
  BY <1>1, StepStays DEF InScript
<1>5. stage'[Runner] = "idle"
  BY <1>1, <1>2 DEF retryVars, clientVars
<1> QED BY <1>1, <1>3, <1>4, <1>5 DEF ScriptInv

\* The reconciler works in between.
LEMMA ReconcilerProgresses ==
    ASSUME NEW step, NEW p, NEW n, InScript(step, p, n),
           ReconcilerNext \/ UNCHANGED ledgerVars,
           UNCHANGED <<clientVars, scriptVars>>
    PROVE  Progress(step, p, n)'
<1>1. TypeOK /\ script' = script
  BY DEF InScript, RetriesInv, RowsInv
<1>2. UNCHANGED <<call, stage, reply, seen, shown>>
  BY DEF clientVars, scriptVars
<1>3. Waiting(p) => (Waiting(p) \/ Overtaken(p))'
  BY <1>1, <1>2, ReconcilerOvertakes DEF Waiting, Noted, Remembered
<1>4. InTime(step, n) =>
          \/ Overtaken(n)'
          \/ InTime(step, n)' /\ UNCHANGED <<status, reason, journal, Bodies>>
  BY <1>1, <1>2, ReconcilerOvertakes DEF InTime, Noted, Remembered
<1>5. Served(step, n) => (Served(step, n) \/ Overtaken(n))'
  BY <1>2, <1>4 DEF Served, Fits
<1>6. Told(step, n) => (Told(step, n) \/ Overtaken(n))'
  BY <1>2, <1>4 DEF Told, Noted
<1>7. /\ Overtaken(p) => Overtaken(p)'
      /\ Overtaken(n) => Overtaken(n)'
  BY <1>1, ReconcilerOvertakes
<1> QED BY <1>2, <1>3, <1>5, <1>6, <1>7 DEF InScript, Progress

-------------------------------------------------------------------------------
(* The invariant.                                                          *)

ScriptsInv ==
    /\ RetriesInv /\ LineageInv /\ ScriptsTyped /\ ScriptInv
    /\ script = "none" => outcome = "running"

\* A script starts in an empty environment.
LEMMA ScriptsInvInit == ScriptsInit => ScriptsInv
<1> SUFFICES ASSUME ScriptsInit PROVE ScriptsInv
  OBVIOUS
<1>1. /\ LedgerInit /\ outcome = "running" /\ pos = 1
      /\ seen = [r \in Releases |-> <<>>] /\ stage[Runner] = "idle"
      /\ shown = [r \in Releases |-> NoReply]
  BY ScriptsAssumption DEF ScriptsInit, RetriesInit
<1>2. RetriesInv /\ LineageInv /\ ScriptsTyped
  BY <1>1, RetriesBegin, LineageInit, ScriptsBegin DEF ScriptsInit
<1>3. ASSUME script # "none" PROVE ScriptInv
  <2>1. PICK step, p, n : step = Steps[pos] /\ p = PlaceAt(1) /\ n = After
    OBVIOUS
  <2>2. At(step, p, n)
    BY <1>1, <2>1 DEF At, Before
  <2>3. p = Place(0, "absent", {}, 0)
    BY <2>1 DEF PlaceAt, SmokePlace, OperatorPlace
  <2>4. /\ p.release = 0 /\ p.newest = 0 /\ p.cancelled = {}
        /\ 0 \notin Releases
    BY <2>3, ReleaseNumbers DEF Place
  <2>5. /\ \A r \in Releases : ~Exists(r) /\ journal[r] = <<>>
        /\ receipts = {}
        /\ \A e \in Envs : current[e] = 0
    BY <1>1 DEF LedgerInit, EmptyColumns, Exists, NoRelease
  <2>6. ScriptEnv \in Envs
    BY <1>2, <1>3, ScriptEnvironment
  <2>7. \A s \in Releases : ~(s < 0)
    BY ReleaseNumbers
  <2>8. Alone(0)
    BY <2>5, <2>7 DEF Alone
  <2>9. Stands(p)
    BY <2>4, <2>5, <2>6, <2>8 DEF Stands, OneEach
  <2>10. Waiting(p)
    BY <1>1, <2>4, <2>5, <2>9 DEF Waiting, Noted
  <2>11. Progress(step, p, n)
    BY <1>1, <2>10 DEF Progress
  <2>12. NoReply \in Replies
    BY PlainReasonType DEF NoReply, Replies, NoReason
  <2>13. MemoryTyped
    BY <1>1, <2>12 DEF MemoryTyped
  <2> QED BY <1>1, <2>2, <2>11, <2>13 DEF ScriptInv
<1> QED BY <1>1, <1>2, <1>3 DEF ScriptsInv, ScriptInv

\* Every step is one of the ledger, or writes no table.
LEMMA ScriptsStepsAreLedgers ==
    ASSUME RetriesInv, ScriptsTyped, [ScriptsNext]_allVars
    PROVE  [LedgerNext]_ledgerVars
<1>1. RowsAndCalls /\ CallsTyped /\ TypeOK
  BY DEF RetriesInv, RowsAndCalls, RowsInv
<1>2. CASE \E c \in Clients : StepOf(c)
  <2>1. PICK c \in Clients : StepOf(c)
    BY <1>2
  <2>2. CASE UNCHANGED ledgerVars
    BY <2>2
  <2>3. CASE Do(c)
    <3>1. PICK q \in ApiCalls : q = call[c]
      BY <1>1, <2>3 DEF Do, CallsTyped
    <3>2. PICK r \in Releases : Perform(q, r)
      BY <2>3, <3>1 DEF Do
    <3> QED BY <1>1, <3>2, PerformPerforms
  <2> QED BY <1>1, <2>1, <2>2, <2>3, StepsKeepCalls
<1>3. CASE UNCHANGED clientVars /\ (ReconcilerNext \/ UNCHANGED ledgerVars)
  BY <1>1, <1>3, ReconcilerKeeps
<1> QED BY <1>2, <1>3, ScriptsStep

\* No other client steps in while a script runs.
LEMMA ScriptGoesOn ==
    ASSUME ScriptsInv, [ScriptsNext]_allVars, script # "none"
    PROVE  ScriptInv'
<1>1. /\ MemoryTyped
      /\ RetriesInv /\ LineageInv /\ ScriptsTyped /\ TypeOK
  BY DEF ScriptsInv, ScriptInv, RetriesInv, RowsInv
<1>2. PICK step, p, n :
          /\ At(step, p, n)
          /\ \/ outcome = "running" /\ Progress(step, p, n)
             \/ outcome = "passed" /\ AllClosed
             \/ outcome = "failed" /\ Lost(step)
             \/ outcome = "gave_up" /\ stage[Runner] = "idle"
  BY DEF ScriptsInv, ScriptInv
<1>3. script' = script
  BY DEF ScriptsNext, ScriptStep, Send, Check, SeeRollback, GiveUp, Serve,
         OtherClients, StepEnds, allVars, scriptVars
<1>4. ASSUME UNCHANGED scriptVars
      PROVE  At(step, p, n)' /\ MemoryTyped' /\ outcome' = outcome
  BY <1>1, <1>2, <1>4, StepStays DEF scriptVars, MemoryTyped
<1>5. CASE outcome = "running"
  <2>1. InScript(step, p, n)
    BY <1>1, <1>2, <1>3, <1>5 DEF InScript
  <2>2. CASE Check(Runner) \/ SeeRollback \/ GiveUp
    BY <2>1, <2>2, CheckGoesOn, SeeRollbackEnds, GiveUpEnds
  <2>3. ASSUME UNCHANGED scriptVars, Progress(step, p, n)'
        PROVE  ScriptInv'
    BY <1>1, <1>4, <1>5, <2>3 DEF ScriptInv
  <2>4. CASE Send(Runner)
    BY <2>1, <2>3, <2>4, SendProgresses DEF Send
  <2>5. CASE Serve(Runner)
    BY <2>1, <2>3, <2>5, DoProgresses, AnswerAgainProgresses,
       RefuseProgresses, RefreshProgresses DEF Serve
  <2>6. CASE /\ ReconcilerNext \/ UNCHANGED ledgerVars
             /\ UNCHANGED <<clientVars, scriptVars>>
    BY <2>1, <2>3, <2>6, ReconcilerProgresses
  <2>7. ~OtherClients
    BY DEF OtherClients
  <2> QED BY <2>2, <2>4, <2>5, <2>6, <2>7
          DEF ScriptsNext, ScriptStep, allVars, retryVars
<1>6. CASE outcome # "running"
  <2>1. stage[Runner] = "idle"
    BY <1>2, <1>6 DEF AllClosed, Lost
  <2>2. /\ ReconcilerNext \/ UNCHANGED ledgerVars
        /\ UNCHANGED <<clientVars, scriptVars>>
    <3>1. ~ScriptStep(Runner) /\ ~OtherClients
      BY <1>6 DEF ScriptStep, Send, Check, SeeRollback, GiveUp, Awaiting,
                  Running, OtherClients
    <3>2. ~Serve(Runner)
      BY <2>1 DEF Serve, Do, AnswerAgain, Refuse, Refresh
    <3> QED BY <3>1, <3>2 DEF ScriptsNext, allVars, retryVars
  <2>3. stage' = stage
    BY <2>2 DEF clientVars
  <2>4. AllClosed => AllClosed'
    BY <1>1, <1>3, <2>2, <2>3, ReconcilerOvertakes
  <2>5. ASSUME Lost(step) PROVE Lost(step)'
    <3>1. PICK r \in Releases : r = About(step.call) /\ TimedOut(r)
      BY <2>5 DEF Lost
    <3>2. TimedOut(r)'
      BY <1>1, <2>2, <3>1, TimedOutStays
    <3> QED BY <2>3, <2>5, <3>1, <3>2 DEF Lost
  <2> QED BY <1>1, <1>2, <1>4, <1>6, <2>2, <2>3, <2>4, <2>5 DEF ScriptInv
<1> QED BY <1>5, <1>6

\* ScriptsInv holds in every reachable state.
LEMMA ScriptsHold == ScriptsSpec => []ScriptsInv
<1>1. ScriptsInv /\ [ScriptsNext]_allVars => ScriptsInv'
  <2> SUFFICES ASSUME ScriptsInv, [ScriptsNext]_allVars PROVE ScriptsInv'
    OBVIOUS
  <2>1. RetriesInv /\ LineageInv /\ ScriptsTyped
    BY DEF ScriptsInv
  <2>2. RetriesInv' /\ ScriptsTyped'
    <3>1. CASE \E c \in Clients : StepOf(c)
      BY <2>1, <3>1, ScriptsStep, RetriesStep
    <3>2. CASE UNCHANGED clientVars /\ (ReconcilerNext \/ UNCHANGED ledgerVars)
      BY <2>1, <3>2, ScriptsStep, RetriesStay
    <3> QED BY <2>1, <3>1, <3>2, ScriptsStep
  <2>3. LineageInv'
    BY <2>1, ScriptsStepsAreLedgers, LineageStep
  <2>4. script' = script
    BY DEF ScriptsNext, ScriptStep, Send, Check, SeeRollback, GiveUp, Serve,
           OtherClients, StepEnds, allVars, scriptVars
  <2>5. CASE script # "none"
    BY <2>2, <2>3, <2>4, <2>5, ScriptGoesOn DEF ScriptsInv
  <2>6. CASE script = "none"
    <3>1. outcome' = outcome
      BY <2>6 DEF ScriptsNext, ScriptStep, Send, Check, SeeRollback, GiveUp,
                  Awaiting, Running, Serve, OtherClients, allVars, scriptVars
    <3> QED BY <2>2, <2>3, <2>4, <2>6, <3>1 DEF ScriptsInv, ScriptInv
  <2> QED BY <2>5, <2>6
<1> QED BY <1>1, ScriptsInvInit, PTL DEF ScriptsSpec

-------------------------------------------------------------------------------
(* What the scripts show.                                                  *)

\* FailsOnlyByTime: whatever other environments there are, and whenever the
\* reconciler steps in, an assertion of smoke.py or of the scenarios of
\* operator_scenarios.py fails only at the deployment or the observation of a
\* canary that was timed out before; all others are met, those on the timeout
\* that the last scenario waits for among them.
THEOREM ScriptsFailOnlyByTime == ScriptsSpec => []FailsOnlyByTime
<1>1. ScriptsInv => FailsOnlyByTime
  BY DEF ScriptsInv, ScriptInv, At, Lost, FailsOnlyByTime
<1> QED BY <1>1, ScriptsHold, PTL

\* LeavesEnvironmentFree: a script that passes leaves no release in flight in
\* its environment, which runs the newest release not rolled back.
THEOREM ScriptsLeaveEnvironmentFree == ScriptsSpec => []LeavesEnvironmentFree
<1>1. ASSUME ScriptsInv, outcome = "passed"
      PROVE  /\ active[ScriptEnv] = NoRelease
             /\ IsNewest(current[ScriptEnv], Succeeded(ScriptEnv))
  <2>1. /\ script # "none" /\ AllClosed /\ TypeOK /\ Ownership /\ Lineage
    BY <1>1 DEF ScriptsInv, ScriptInv, LineageInv
  <2>2. ScriptEnv \in Envs
    BY <1>1, <2>1, ScriptEnvironment DEF ScriptsInv
  <2>3. active[ScriptEnv] = NoRelease
    <3> SUFFICES ASSUME active[ScriptEnv] # NoRelease PROVE FALSE
      OBVIOUS
    <3>1. PICK s \in Releases : active[ScriptEnv] = s
      BY <2>1, <2>2 DEF TypeOK
    <3>2. status[s] \in OpenStatus
      BY <2>1, <2>2, <3>1 DEF Ownership
    <3> QED BY <2>1, <3>2 DEF AllClosed, Exists, OpenStatus, Closed
  <2> QED BY <2>1, <2>2, <2>3 DEF Lineage
<1> QED BY <1>1, ScriptsHold, PTL DEF LeavesEnvironmentFree

\* Whatever the clients and the scripts send, lose and repeat, the tables are
\* those of a ledger: all that is proved of LedgerSpec holds of them too.
THEOREM CallsKeepTheLedger == ScriptsSpec => LedgerSpec
<1>1. ScriptsInit => LedgerInit
  BY DEF ScriptsInit, RetriesInit
<1>2. ScriptsInv /\ [ScriptsNext]_allVars => [LedgerNext]_ledgerVars
  BY ScriptsStepsAreLedgers DEF ScriptsInv
<1> QED BY <1>1, <1>2, ScriptsHold, PTL DEF ScriptsSpec, LedgerSpec
===============================================================================
