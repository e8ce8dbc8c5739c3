-------------------------------- MODULE Retries --------------------------------
(***************************************************************************)
(* Clients of ReleaseGuard, the answers they get and what they count.      *)
(* A request or its answer may be lost, or the API process may die after   *)
(* the commit: the client then sends the same request again, or gives up.  *)
(* A handler that has committed reads its row again, without a lock, for   *)
(* the answer (session.refresh) and then increments the counters of        *)
(* metrics.py, so other requests may commit in between.                    *)
(*                                                                         *)
(* Each handler checks and commits in one step here, as module             *)
(* Transactions shows it does.                                             *)
(***************************************************************************)
EXTENDS LedgerProperties

CONSTANTS
    Clients,    \* users of the API and CI, one call at a time
    Calls       \* the requests they may send

VARIABLES
    call,       \* the call a client is making
    stage,      \* where it is: "idle", "sent", "committed", "answered"
    reply,      \* the answer on its way to the client
    made,       \* history: which calls have committed, when their journal was
    counted     \* the increments of the counters, of all API processes

clientVars == <<call, stage, reply, made, counted>>
retryVars == <<ledgerVars, clientVars>>

NoCall == [kind |-> "none"]
NoReply == [code |-> "none", release |-> NoRelease, env |-> Null,
            key |-> Null, artifact |-> Null, status |-> "absent",
            previous |-> NoRelease, traffic |-> 0, approvedBy |-> Null,
            reason |-> NoReason, at |-> 0]

\* The calls the routes accept: the role of the sender and the fields of the
\* request are as main.py declares them.
ApiCalls ==
    [kind : {"create"}, env : Envs, key : Keys, artifact : Artifacts,
     who : Admins]
    \cup [kind : {"webhook"}, body : Webhooks]
    \cup [kind : {"approve"}, release : Releases, who : Approvers]
    \cup [kind : {"cancel", "rollback"}, release : Releases, who : Admins]
    \cup [kind : {"deploy"}, release : Releases, percent : CanaryPercents,
          who : Admins]
    \cup [kind : {"observe"}, release : Releases, observation : Observations,
          who : Observers]

ASSUME RetriesAssumption == IsFiniteSet(Clients) /\ Calls \subseteq ApiCalls

\* The rows that both a call and its repeats are about; who sends it, or the
\* reason given for a cancellation, make no difference.
Subject(q) ==
    CASE q.kind = "create" -> <<"create", q.env, q.key, q.artifact>>
      [] q.kind = "webhook" -> <<"webhook", q.body>>
      [] q.kind = "cancel" -> <<"cancel", q.release>>
      [] OTHER -> <<"call", q>>

\* The calls whose handlers recognise what was done before.
Repeatable == {"create", "webhook", "cancel"}

Made(q) == {m \in made : m.subject = Subject(q)}

-------------------------------------------------------------------------------
(* What a handler answers to a call: "do" when it goes on to its commit,   *)
(* "again" when the work was done before, "refused" for 4xx, "failed" for  *)
(* 500.                                                                    *)

DoOrRefuse(accepted) == IF accepted THEN "do" ELSE "refused"

\* Mutant: an active release refuses before the key is looked for.
CreateVerdictBusyFirst(q) ==
    IF active[q.env] # NoRelease THEN "refused"
    ELSE IF WithKey(q.env, q.key) = {} THEN "do" ELSE "again"

\* Mutant: the data behind the key is not compared.
CreateVerdictAnyData(q) ==
    IF WithKey(q.env, q.key) # {} THEN "again"
    ELSE DoOrRefuse(active[q.env] = NoRelease)

CreateVerdict(q) ==
    LET existing == WithKey(q.env, q.key)
    IN  CASE \E r \in existing : artifactOf[r] = q.artifact -> "again"
          [] \E r \in existing : artifactOf[r] # q.artifact -> "refused"
          [] existing = {} -> DoOrRefuse(active[q.env] = NoRelease)

\* The order of the checks is that of the handler: a receipt answers also when
\* the release takes no more results.
WebhookVerdict(w) ==
    LET r == w.release
        accepts == /\ status[r] = "evaluating"
                   /\ w.gate \in Policy[envOf[r]].required_gates
                   /\ SameResult(w, results[r][w.gate], details[r][w.gate])
    IN  CASE ~Exists(r) -> "refused"
          [] Exists(r) /\ w \in ReceiptsOf(w.event) -> "again"
          [] Exists(r) /\ ReceiptsOf(w.event) \ {w} # {} -> "refused"
          [] OTHER -> DoOrRefuse(accepts)

CancelVerdict(r) ==
    CASE status[r] = "cancelled" -> "again"
      [] Exists(r) /\ MayCancel(r, status[r], active[envOf[r]]) -> "do"
      [] OTHER -> "refused"

ObserveVerdict(r, o) ==
    IF status[r] = "canary" /\ OwnsEnvironment(r, active[envOf[r]])
    THEN IF Storable(o) THEN "do" ELSE "failed"
    ELSE "refused"

Verdict(q) ==
    CASE q.kind = "create" -> CreateVerdict(q)
      [] q.kind = "webhook" -> WebhookVerdict(q.body)
      [] q.kind = "cancel" -> CancelVerdict(q.release)
      [] q.kind = "observe" -> ObserveVerdict(q.release, q.observation)
      [] q.kind = "approve" ->
             DoOrRefuse(/\ status[q.release] = "awaiting_approval"
                        /\ PassedGates(envOf[q.release], results[q.release]))
      [] q.kind = "deploy" ->
             DoOrRefuse(/\ Exists(q.release)
                        /\ LET e == envOf[q.release]
                           IN  MayDeploy(q.release, e, status[q.release],
                                         active[e], results[q.release]))
      [] q.kind = "rollback" ->
             DoOrRefuse(/\ Exists(q.release)
                        /\ LET e == envOf[q.release]
                           IN  MayRollBack(q.release, status[q.release],
                                           active[e], current[e]))

\* The handler of q commits for release r.
Perform(q, r) ==
    \/ q.kind = "create" /\ Create(r, q.env, q.key, q.artifact, q.who)
    \/ q.kind = "webhook" /\ r = q.body.release /\ ReceiveWebhook(q.body)
    \/ q.kind = "approve" /\ r = q.release /\ Approve(r, q.who)
    \/ q.kind = "cancel" /\ r = q.release /\ Cancel(r, q.who)
    \/ q.kind = "deploy" /\ r = q.release /\ Deploy(r, q.percent, q.who)
    \/ q.kind = "observe" /\ r = q.release /\ Observe(r, q.observation, q.who)
    \/ q.kind = "rollback" /\ r = q.release /\ Rollback(r, q.who)

\* The release an answer shows when its work was done before.
Shown(q) ==
    CASE q.kind = "create" -> WithKey(q.env, q.key)
      [] q.kind = "webhook" -> {q.body.release}
      [] OTHER -> {q.release}

-------------------------------------------------------------------------------
(* Calls.                                                                  *)

\* The row of release r as an answer shows it (ReleaseRead, but for its times)
\* and, for the properties, how long its journal was.
ReadRow(r) == [code |-> "ok", release |-> r, env |-> envOf[r],
               key |-> keyOf[r], artifact |-> artifactOf[r],
               status |-> status[r], previous |-> previous[r],
               traffic |-> traffic[r], approvedBy |-> approvedBy[r],
               reason |-> reason[r], at |-> Len(journal[r])]

Call(c, q) ==
    /\ stage[c] = "idle"
    /\ call' = [call EXCEPT ![c] = q]
    /\ stage' = [stage EXCEPT ![c] = "sent"]
    /\ UNCHANGED <<ledgerVars, reply, made, counted>>

Do(c) ==
    /\ stage[c] = "sent"
    /\ Verdict(call[c]) = "do"
    /\ \E r \in Releases :
           /\ Perform(call[c], r)
           /\ reply' = [reply EXCEPT ![c] = ReadRow(r)]
           /\ made' = made \cup {[subject |-> Subject(call[c]), release |-> r,
                                  at |-> Len(journal'[r])]}
    /\ stage' = [stage EXCEPT ![c] = "committed"]
    /\ UNCHANGED <<call, counted>>

Answer(c, answer) ==
    /\ reply' = [reply EXCEPT ![c] = answer]
    /\ stage' = [stage EXCEPT ![c] = "answered"]
    /\ UNCHANGED <<ledgerVars, call, made>>

\* Mutant: a creation is counted also when it was found to be done.
AnswerAgainCounted(c) ==
    /\ stage[c] = "sent"
    /\ Verdict(call[c]) = "again"
    /\ \E r \in Shown(call[c]) : Answer(c, ReadRow(r))
    /\ counted' = [counted EXCEPT !.created = @ + 1]

AnswerAgain(c) ==
    /\ stage[c] = "sent"
    /\ Verdict(call[c]) = "again"
    /\ \E r \in Shown(call[c]) : Answer(c, ReadRow(r))
    /\ UNCHANGED counted

Refuse(c) ==
    /\ stage[c] = "sent"
    /\ Verdict(call[c]) \in {"refused", "failed"}
    /\ Answer(c, [NoReply EXCEPT !.code = Verdict(call[c])])
    /\ UNCHANGED counted

\* The counters a handler increments for the call of c once it has committed
\* and moved the release to `target`.
Increments(c, target) ==
    [created |-> IF call[c].kind = "create"
                 THEN counted.created + 1 ELSE counted.created,
     accepted |-> IF call[c].kind = "webhook"
                  THEN counted.accepted + 1 ELSE counted.accepted,
     transitions |-> IF call[c].kind # "create" /\ target # "none"
                     THEN [counted.transitions EXCEPT ![target] = @ + 1]
                     ELSE counted.transitions]

\* session.refresh() and the counters.  `target` is the status the handler has
\* given the release, whatever the status is by now.
Refresh(c) ==
    LET r == reply[c].release
        at == (CHOOSE m \in Made(call[c]) : m.release = r).at
        last == journal[r][at]
    IN  /\ stage[c] = "committed"
        /\ Answer(c, ReadRow(r))
        /\ counted' = Increments(c, IF last.type = "release.status_changed"
                                    THEN last.to ELSE "none")

-------------------------------------------------------------------------------
(* The network and the client.                                             *)

\* The request, the answer or the process between them is lost, or takes too
\* long: the client sends the call again.  A handler that lives on and counts
\* after its client has given up is one whose answer was lost after Refresh.
Resend(c) ==
    /\ stage[c] \in {"committed", "answered"}
    /\ stage' = [stage EXCEPT ![c] = "sent"]
    /\ reply' = [reply EXCEPT ![c] = NoReply]
    /\ UNCHANGED <<ledgerVars, call, made, counted>>

\* The client has its answer, or waits for it no longer.
Finish(c) ==
    /\ stage[c] # "idle"
    /\ call' = [call EXCEPT ![c] = NoCall]
    /\ stage' = [stage EXCEPT ![c] = "idle"]
    /\ reply' = [reply EXCEPT ![c] = NoReply]
    /\ UNCHANGED <<ledgerVars, made, counted>>

RetriesInit ==
    /\ LedgerInit
    /\ call = [c \in Clients |-> NoCall]
    /\ stage = [c \in Clients |-> "idle"]
    /\ reply = [c \in Clients |-> NoReply]
    /\ made = {}
    /\ counted = [created |-> 0, accepted |-> 0,
                  transitions |-> [st \in ReleaseStatus |-> 0]]

\* What client c and the handler of its call may do next.
ClientStep(c) ==
    \/ \E q \in Calls : Call(c, q)
    \/ Do(c)
    \/ AnswerAgain(c)
    \/ Refuse(c)
    \/ Refresh(c)
    \/ Resend(c)
    \/ Finish(c)

-------------------------------------------------------------------------------
(* What a client may rely on.                                              *)

\* A client that does not know whether its call was carried out may send it
\* again at any time, whoever has changed the release since: a creation, a
\* notification and a cancellation are recognised, change nothing and are
\* answered with the release they were about.
RetriesAreRecognised ==
    \A q \in Calls : q.kind \in Repeatable /\ Made(q) # {} =>
        /\ Verdict(q) = "again"
        /\ Shown(q) = {m.release : m \in Made(q)}

\* The status of release r after the first n events of its journal.
StatusAt(r, n) ==
    LET changes == {i \in 1..n : journal[r][i].type = "release.status_changed"}
    IN  IF changes = {} THEN "evaluating"
        ELSE LET last == CHOOSE i \in changes : \A j \in changes : j <= i
             IN  journal[r][last].to

\* 200 and 201 say that this very call was carried out, now or before, and show
\* the release as it was then or later, never as it was before the call.
OkMeansDone ==
    \A c \in Clients : stage[c] = "answered" /\ reply[c].code = "ok" =>
        /\ \E m \in Made(call[c]) : /\ m.release = reply[c].release
                                    /\ m.at <= reply[c].at
        /\ reply[c].status = StatusAt(reply[c].release, reply[c].at)

\* The journalled changes of status to st that requests have made; timeouts are
\* the changes of the reconciler, another process, and not counted.
RequestedChanges(st) ==
    UNION {{<<r, i>> : i \in {j \in DOMAIN journal[r] :
                                /\ journal[r][j].to = st
                                /\ journal[r][j].reason.kind # "timeout"}} :
               r \in Releases}

\* The counters never claim more than the journal shows, whatever is repeated
\* or found to be done: a crash between commit and count only loses counts.
CountersNeverOvercount ==
    /\ counted.created <= Cardinality({r \in Releases : Exists(r)})
    /\ counted.accepted <= Cardinality(receipts)
    /\ \A st \in ReleaseStatus :
           counted.transitions[st] <= Cardinality(RequestedChanges(st))

\* What docs/runbooks/operator-decisions.md says of a canary: an observation
\* that exceeds a limit rolls it back at once.  An observation that
\* ObservationCreate accepts and that finds the canary in place ends so.
ExceededRollsBack ==
    [][\A c \in Clients :
        /\ call[c].kind = "observe" /\ stage[c] = "sent"
        /\ stage'[c] \in {"committed", "answered"}
        /\ status[call[c].release] = "canary"
        /\ OwnsEnvironment(call[c].release, active[envOf[call[c].release]])
        /\ ExceededLimits(call[c].observation, Policy[envOf[call[c].release]])
               # {}
        => status'[call[c].release] = "rolled_back"]_retryVars
===============================================================================
