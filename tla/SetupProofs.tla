----------------------------- MODULE SetupProofs ------------------------------
(***************************************************************************)
(* Theorems about what the services find: about Access, for every number   *)
(* of clients, that each is who its key says and that the approver of a    *)
(* release has no other hand in any release; about TestGuard, that tests   *)
(* empty no other database, whatever environment they are started in; and  *)
(* about Migrations, that the schema is whole and suits the services, with *)
(* any number of deployments and operators.                                *)
(***************************************************************************)
EXTENDS Access, TestGuard, Migrations, LedgerProofs

\* What validate_clients() leaves of the configuration.
Configured ==
    /\ apiClients \in ClientLists
    /\ IsDictionary(apiClients)
    /\ ValidClients(apiClients)

LEMMA ConfiguredStep ==
    ASSUME Configured, [AccessNext]_accessVars
    PROVE  Configured' /\ UNCHANGED apiClients
BY DEF Configured, AccessNext, accessVars, IsDictionary, ValidClients

\* A key that some client has finds that client.
LEMMA KeyFindsItsClient ==
    ASSUME Configured, NEW i \in DOMAIN apiClients
    PROVE  Authenticate(apiClients[i].key) =
               [name |-> apiClients[i].name, role |-> apiClients[i].role]
<1> DEFINE holders ==
        {j \in DOMAIN apiClients : apiClients[j].key = apiClients[i].key}
<1>1. holders = {i}
  BY DEF Configured, ValidClients
<1>2. i <= i
  BY DEF Configured, ClientLists
<1>3. (CHOOSE j \in holders : \A other \in holders : j <= other) = i
  BY <1>1, <1>2
<1> QED BY <1>1, <1>3 DEF Authenticate

LEMMA ClientsStep ==
    Configured /\ [AccessNext]_accessVars => Configured'
BY ConfiguredStep

\* Every configured client gets its own name and role, wherever it stands in
\* the list and however long that is.
THEOREM ClientsAreThemselves == AccessSpec => []EveryClientIsItself
<1>1. AccessInit => Configured
  BY DEF AccessInit, Configured
<1>2. Configured => EveryClientIsItself
  BY KeyFindsItsClient DEF EveryClientIsItself
<1> QED BY <1>1, <1>2, ClientsStep, PTL DEF AccessSpec

-------------------------------------------------------------------------------
(* Four eyes.                                                              *)

ApproverNames ==
    {apiClients[i].name : i \in {j \in DOMAIN apiClients :
                                     apiClients[j].role = "approver"}}

\* What an approver may be the actor of.
FitEvents ==
    {ev \in Events : ev.actor \in ApproverNames =>
                         ev.from = "awaiting_approval" /\ ev.to = "approved"}

FourEyesInv ==
    /\ TypeOK
    /\ Configured
    /\ journal \in [Releases -> Seq(FitEvents)]
    /\ \A r \in Releases : approvedBy[r] \in ApproverNames \cup {Null}

\* The names that the clients have and the services have not.
NamesAssumption ==
    /\ Names \subseteq Admins \cap Approvers \cap Observers
    /\ Names \cap {"policy-engine", "ci-webhook", "reconciler"} = {}

\* A request comes from a client with the role its route asks for.
LEMMA RequestHasRole ==
    ASSUME Configured, NamesAssumption, NEW key, Request(key)
    PROVE  \/ \E who \in Admins \ ApproverNames :
                  \/ \E r \in Releases, e \in Envs, k \in Keys,
                        a \in Artifacts : Create(r, e, k, a, who)
                  \/ \E r \in Releases : Cancel(r, who)
                  \/ \E r \in Releases, c \in CanaryPercents : Deploy(r, c, who)
                  \/ \E r \in Releases : Rollback(r, who)
           \/ \E who \in ApproverNames \cap Approvers :
                  \E r \in Releases : Approve(r, who)
           \/ \E who \in Observers \ ApproverNames :
                  \E r \in Releases, o \in Observations : Observe(r, o, who)
<1> DEFINE p == Authenticate(key)
<1>1. p.role # "none"
  BY DEF Request, IsAdmin, IsApprover, IsObserver
<1>2. PICK i \in DOMAIN apiClients : apiClients[i].key = key
  BY <1>1 DEF Authenticate, Nobody
<1>3. p = [name |-> apiClients[i].name, role |-> apiClients[i].role]
  BY <1>2, KeyFindsItsClient
<1>4. p.name \in Names
  BY <1>2, <1>3 DEF Configured, ClientLists
<1>5. p.role # "approver" => p.name \notin ApproverNames
  BY <1>2, <1>3 DEF Configured, IsDictionary, ApproverNames
<1>6. p.role = "approver" => p.name \in ApproverNames
  BY <1>2, <1>3 DEF ApproverNames
<1>7. p.name \in Admins /\ p.name \in Approvers /\ p.name \in Observers
  BY <1>4 DEF NamesAssumption
<1> HIDE DEF p
<1>8. CASE IsAdmin(p)
  <2>1. p.name \in Admins \ ApproverNames
    BY <1>5, <1>7, <1>8 DEF IsAdmin
  <2> QED BY <1>8, <2>1 DEF Request, p, IsAdmin, IsApprover, IsObserver
<1>9. CASE IsApprover(p)
  <2>1. p.name \in ApproverNames \cap Approvers
    BY <1>6, <1>7, <1>9 DEF IsApprover
  <2> QED BY <1>9, <2>1 DEF Request, p, IsAdmin, IsApprover, IsObserver
<1>10. CASE IsObserver(p)
  <2>1. p.name \in Observers \ ApproverNames
    BY <1>5, <1>7, <1>10 DEF IsObserver
  <2> QED BY <1>10, <2>1 DEF Request, p, IsAdmin, IsApprover, IsObserver
<1> QED BY <1>8, <1>9, <1>10 DEF Request, p

\* Events of anyone who is no approver fit.
LEMMA OthersFit ==
    ASSUME NEW ev \in Events, ev.actor \notin ApproverNames
    PROVE  ev \in FitEvents
BY DEF FitEvents

LEMMA LogFits ==
    ASSUME journal \in [Releases -> Seq(FitEvents)],
           NEW r \in Releases, NEW events \in Seq(FitEvents),
           Log(r, events)
    PROVE  journal' \in [Releases -> Seq(FitEvents)]
<1>1. journal[r] \o events \in Seq(FitEvents)
  BY ConcatProperties
<1> QED
  BY <1>1 DEF Log

\* One event, or two, of someone who is no approver.
LEMMA NoteFits ==
    ASSUME NEW type \in {"release.created", "release.gates_evaluated",
                         "gate.reported", "canary.observed", "canary.timeout"},
           NEW actor \in Actors \ ApproverNames, NEW why \in Reasons
    PROVE  Note(type, actor, why) \in FitEvents
<1>1. Note(type, actor, why).actor = actor
  BY DEF Note, Event
<1> QED BY <1>1, NoteType, OthersFit

LEMMA TransitionFits ==
    ASSUME FourEyesInv,
           NEW r \in Releases,
           NEW from \in ReleaseStatus, NEW to \in ReleaseStatus,
           NEW actor \in Actors, NEW why \in Reasons,
           NEW before \in Seq(FitEvents),
           actor \in ApproverNames =>
               from = "awaiting_approval" /\ to = "approved",
           Transition(r, from, to, actor, why, before, <<>>)
    PROVE  journal' \in [Releases -> Seq(FitEvents)]
<1> DEFINE event == StatusChanged(from, to, actor, why)
<1>1. event \in Events
  BY StatusChangedType
<1>2. event.actor = actor /\ event.from = from /\ event.to = to
  BY DEF StatusChanged, Event
<1>3. Log(r, before \o <<event>> \o <<>>)
  BY DEF Transition
<1> HIDE DEF event
<1>4. event \in FitEvents
  BY <1>1, <1>2 DEF FitEvents
<1>5. <<event>> \in Seq(FitEvents) /\ <<>> \in Seq(FitEvents)
  BY <1>4, EmptySeq
<1>6. before \o <<event>> \o <<>> \in Seq(FitEvents)
  BY <1>5, ConcatProperties
<1> QED
  BY <1>3, <1>6, LogFits DEF FourEyesInv

\* The journal and the approvers after a request of a client.
LEMMA AdminFits ==
    ASSUME FourEyesInv, NEW who \in Admins \ ApproverNames, NEW r \in Releases,
           \/ \E e \in Envs, k \in Keys, a \in Artifacts :
                  Create(r, e, k, a, who)
           \/ Cancel(r, who)
           \/ \E c \in CanaryPercents : Deploy(r, c, who)
           \/ Rollback(r, who)
    PROVE  journal' \in [Releases -> Seq(FitEvents)] /\ UNCHANGED approvedBy
<1>1. who \in Actors \ ApproverNames /\ <<>> \in Seq(FitEvents)
  BY EmptySeq DEF Actors
<1>2. CASE \E e \in Envs, k \in Keys, a \in Artifacts :
               Create(r, e, k, a, who)
  <2> DEFINE event == Note("release.created", who, NoReason)
  <2>1. event \in FitEvents
    BY <1>1, NoteFits, PlainReasonType DEF NoReason
  <2>2. Log(r, <<event>>) /\ UNCHANGED approvedBy
    BY <1>2 DEF Create, CreateCommitted
  <2> HIDE DEF event
  <2>3. <<event>> \in Seq(FitEvents)
    BY <2>1
  <2> QED BY <2>2, <2>3, LogFits DEF FourEyesInv
<1>3. CASE Cancel(r, who)
  <2>1. Transition(r, status[r], "cancelled", who,
                   Reason("cancelled_by_operator", {}), <<>>, <<>>)
        /\ UNCHANGED approvedBy
    BY <1>3 DEF Cancel, CancelCommitted
  <2>2. status[r] \in ReleaseStatus /\ "cancelled" \in ReleaseStatus
    BY <1>3 DEF Cancel, FourEyesInv, TypeOK, Exists, ReleaseStatus
  <2> QED BY <1>1, <2>1, <2>2, PlainReasonType, TransitionFits
<1>4. CASE \E c \in CanaryPercents : Deploy(r, c, who)
  <2>1. Transition(r, "approved", "canary", who,
                   Reason("canary_started", {}), <<>>, <<>>)
        /\ UNCHANGED approvedBy
    BY <1>4 DEF Deploy, DeployCommitted
  <2>2. "approved" \in ReleaseStatus /\ "canary" \in ReleaseStatus
    BY DEF ReleaseStatus
  <2> QED BY <1>1, <2>1, <2>2, PlainReasonType, TransitionFits
<1>5. CASE Rollback(r, who)
  <2>1. Transition(r, status[r], "rolled_back", who,
                   Reason("manual_rollback", {}), <<>>, <<>>)
        /\ UNCHANGED approvedBy
    BY <1>5 DEF Rollback, RollbackCommitted
  <2>2. status[r] \in ReleaseStatus /\ "rolled_back" \in ReleaseStatus
    BY <1>5 DEF Rollback, FourEyesInv, TypeOK, Exists, ReleaseStatus
  <2> QED BY <1>1, <2>1, <2>2, PlainReasonType, TransitionFits
<1> QED BY <1>2, <1>3, <1>4, <1>5

LEMMA ApproverFits ==
    ASSUME FourEyesInv, NEW who \in ApproverNames \cap Approvers,
           NEW r \in Releases, Approve(r, who)
    PROVE  /\ journal' \in [Releases -> Seq(FitEvents)]
           /\ \A s \in Releases : approvedBy'[s] \in {approvedBy[s], who}
<1>1. Transition(r, "awaiting_approval", "approved", who,
                 Reason("approval_received", {}), <<>>, <<>>)
      /\ approvedBy' = [approvedBy EXCEPT ![r] = who]
  BY DEF Approve, ApproveCommitted
<1>2. /\ "awaiting_approval" \in ReleaseStatus /\ "approved" \in ReleaseStatus
      /\ <<>> \in Seq(FitEvents) /\ who \in Actors
  BY EmptySeq DEF ReleaseStatus, Actors
<1>3. \A s \in Releases : approvedBy'[s] \in {approvedBy[s], who}
  BY <1>1 DEF FourEyesInv, TypeOK
<1> QED BY <1>1, <1>2, <1>3, PlainReasonType, TransitionFits

LEMMA ObserverFits ==
    ASSUME FourEyesInv, NEW who \in Observers \ ApproverNames,
           NEW r \in Releases, NEW o \in Observations, Observe(r, o, who)
    PROVE  journal' \in [Releases -> Seq(FitEvents)] /\ UNCHANGED approvedBy
<1> DEFINE why == CanaryReason(o, Policy[envOf[r]])
           event == Note("canary.observed", who, why)
<1>1. who \in Actors \ ApproverNames /\ why \in Reasons
  BY CanaryReasonType DEF Actors
<1>2. event \in FitEvents
  BY <1>1, NoteFits
<1>3. /\ \/ Transition(r, "canary", "succeeded", who, why, <<event>>, <<>>)
         \/ Transition(r, "canary", "rolled_back", who, why, <<event>>, <<>>)
         \/ Log(r, <<event>>)
      /\ UNCHANGED approvedBy
  BY DEF Observe, ObserveCommitted
<1> HIDE DEF event, why
<1>4. <<event>> \in Seq(FitEvents)
  BY <1>2
<1>5. {"canary", "succeeded", "rolled_back"} \subseteq ReleaseStatus
  BY DEF ReleaseStatus
<1> QED BY <1>1, <1>3, <1>4, <1>5, TransitionFits, LogFits DEF FourEyesInv

\* And after a notification.
LEMMA WebhookFits ==
    ASSUME FourEyesInv, NamesAssumption, NEW w \in Webhooks, ReceiveWebhook(w)
    PROVE  journal' \in [Releases -> Seq(FitEvents)] /\ UNCHANGED approvedBy
<1> DEFINE r == w.release
           e == envOf[r]
           policy == Policy[e]
           outcome == [results[r] EXCEPT ![w.gate] = w.status]
           result == EvaluateGates(policy.required_gates, outcome,
                                   policy.requires_approval)
           why == GateReason(policy.required_gates, outcome,
                             policy.requires_approval)
           reported == Note("gate.reported", "ci-webhook", NoReason)
           evaluated == Note("release.gates_evaluated", "policy-engine", why)
<1>1. r \in Releases /\ Exists(r) /\ WebhookCommitted(w, e, outcome)
  BY DEF ReceiveWebhook, Webhooks
<1>2. why \in Reasons
  BY <1>1, RowOfRelease, GateReasonType DEF FourEyesInv
<1>3. {"ci-webhook", "policy-engine"} \subseteq Actors \ ApproverNames
  <2>1. ApproverNames \subseteq Names
    BY DEF ApproverNames, FourEyesInv, Configured, ClientLists
  <2> QED BY <2>1 DEF NamesAssumption, Actors
<1>4. reported \in FitEvents
  BY <1>3, NoteFits, PlainReasonType DEF NoReason
<1>5. evaluated \in FitEvents
  BY <1>2, <1>3, NoteFits
<1>6. /\ \/ Transition(r, "evaluating", result, "policy-engine", why,
                       <<reported>> \o <<evaluated>>, <<>>)
         \/ Log(r, <<reported>> \o <<evaluated>>)
      /\ UNCHANGED approvedBy
  BY <1>1 DEF WebhookCommitted, GatesRecalculated
<1>7. result \in ReleaseStatus /\ "evaluating" \in ReleaseStatus
  BY EvaluateGatesType DEF ReleaseStatus
<1> HIDE DEF reported, evaluated, why, result
<1>8. <<reported>> \o <<evaluated>> \in Seq(FitEvents)
  BY <1>4, <1>5, ConcatProperties
<1> QED
  BY <1>1, <1>2, <1>3, <1>6, <1>7, <1>8, TransitionFits, LogFits
     DEF FourEyesInv

\* And after a batch of the reconciler or a tick of its clock.
LEMMA ReconcilerFits ==
    ASSUME FourEyesInv, NamesAssumption, ReconcilerNext
    PROVE  journal' \in [Releases -> Seq(FitEvents)] /\ UNCHANGED approvedBy
<1>1. CASE \E batch \in SUBSET Due : Reconcile(batch)
  <2>1. PICK batch \in SUBSET Due : Reconcile(batch)
    BY <1>1
  <2> DEFINE why == Reason("timeout", {})
             moved == StatusChanged("canary", "rolled_back", "reconciler", why)
             noted == Note("canary.timeout", "reconciler", NoReason)
  <2>2. /\ journal' = [r \in Releases |-> IF r \in Owned(batch)
                                           THEN journal[r] \o <<moved, noted>>
                                           ELSE journal[r]]
        /\ UNCHANGED approvedBy
    BY <2>1 DEF Reconcile, ReconcileCommitted
  <2>3. "reconciler" \in Actors \ ApproverNames
    <3>1. ApproverNames \subseteq Names
      BY DEF ApproverNames, FourEyesInv, Configured, ClientLists
    <3> QED BY <3>1 DEF NamesAssumption, Actors
  <2>4. noted \in FitEvents
    BY <2>3, NoteFits, PlainReasonType DEF NoReason
  <2>5. moved \in Events /\ moved.actor = "reconciler"
    BY <2>3, StatusChangedType, PlainReasonType
       DEF ReleaseStatus, StatusChanged, Event
  <2> HIDE DEF moved, noted
  <2>6. <<moved, noted>> \in Seq(FitEvents)
    BY <2>3, <2>4, <2>5, OthersFit
  <2>7. \A r \in Releases : journal[r] \o <<moved, noted>> \in Seq(FitEvents)
    BY <2>6, ConcatProperties DEF FourEyesInv
  <2> QED BY <2>2, <2>7 DEF FourEyesInv
<1>2. CASE \E r \in Releases : Expire(r)
  BY <1>2 DEF Expire, FourEyesInv
<1> QED BY <1>1, <1>2 DEF ReconcilerNext

LEMMA FourEyesStep ==
    ASSUME FourEyesInv, NamesAssumption, [AccessNext]_accessVars
    PROVE  FourEyesInv'
<1>1. Configured' /\ UNCHANGED apiClients
  BY ConfiguredStep DEF FourEyesInv
<1>2. ApproverNames' = ApproverNames /\ Events' = Events
  BY <1>1 DEF ApproverNames, Events
<1>3. FitEvents' = FitEvents
  BY <1>2 DEF FitEvents
<1>4. CASE \E key \in Secrets : Request(key)
  <2>1. LedgerNext
    BY <1>4, RequestHasRole DEF FourEyesInv, LedgerNext, ClientNext
  <2>2. TypeOK'
    BY <2>1, TypeStep DEF FourEyesInv
  <2>3. /\ journal' \in [Releases -> Seq(FitEvents)]
        /\ \A r \in Releases : approvedBy'[r] \in ApproverNames \cup {Null}
    BY <1>4, RequestHasRole, AdminFits, ApproverFits, ObserverFits
       DEF FourEyesInv
  <2> QED BY <1>1, <1>2, <1>3, <2>2, <2>3 DEF FourEyesInv
<1>5. CASE (\E w \in Webhooks : ReceiveWebhook(w)) \/ ReconcilerNext
  <2>1. TypeOK'
    BY <1>5, TypeStep DEF FourEyesInv, LedgerNext
  <2>2. journal' \in [Releases -> Seq(FitEvents)] /\ UNCHANGED approvedBy
    BY <1>5, WebhookFits, ReconcilerFits
  <2> QED BY <1>1, <1>2, <1>3, <2>1, <2>2 DEF FourEyesInv
<1>6. CASE UNCHANGED accessVars
  <2>1. TypeOK' /\ UNCHANGED <<journal, approvedBy>>
    BY <1>6, TypeStep DEF FourEyesInv, accessVars, ledgerVars
  <2> QED BY <1>1, <1>2, <1>3, <2>1 DEF FourEyesInv
<1> QED BY <1>4, <1>5, <1>6 DEF AccessNext

LEMMA FourEyesHolds == FourEyesInv => FourEyes
<1> SUFFICES ASSUME FourEyesInv, NEW r \in Releases, approvedBy[r] # Null,
                    NEW s \in Releases, NEW i \in DOMAIN journal[s],
                    journal[s][i].actor = approvedBy[r]
             PROVE  /\ journal[s][i].from = "awaiting_approval"
                    /\ journal[s][i].to = "approved"
  BY DEF FourEyes
<1>1. journal[s] \in Seq(FitEvents)
  BY DEF FourEyesInv
<1>2. journal[s][i] \in FitEvents
  BY <1>1
<1>3. approvedBy[r] \in ApproverNames
  BY DEF FourEyesInv
<1> QED BY <1>2, <1>3 DEF FitEvents

\* An approver has no other part in the releases of the deployment: for any
\* list of clients whose names are not those the services sign with.
THEOREM FourEyesOnEveryRelease ==
    ASSUME NamesAssumption
    PROVE  AccessSpec => []FourEyes
<1>1. AccessInit => FourEyesInv
  <2> SUFFICES ASSUME AccessInit PROVE FourEyesInv
    OBVIOUS
  <2>1. TypeOK /\ Configured
    BY InitType DEF AccessInit, Configured
  <2>2. journal \in [Releases -> Seq(FitEvents)]
    BY EmptySeq DEF AccessInit, LedgerInit
  <2>3. \A r \in Releases : approvedBy[r] \in ApproverNames \cup {Null}
    BY DEF AccessInit, LedgerInit
  <2> QED BY <2>1, <2>2, <2>3 DEF FourEyesInv
<1>2. FourEyesInv /\ [AccessNext]_accessVars => FourEyesInv'
  BY FourEyesStep
<1> QED BY <1>1, <1>2, FourEyesHolds, PTL DEF AccessSpec
-------------------------------------------------------------------------------
(* What the integration tests empty.                                       *)

GuardInv ==
    /\ phase \in {"start", "ignored", "refused", "accepted", "emptied"}
    /\ phase = "accepted" => Safe(environ)
    /\ OnlyTestDatabaseEmptied

\* A safe environment has one URL for the settings, and the driver takes
\* nothing from elsewhere.
LEMMA SafeIsTheTestDatabase ==
    ASSUME Safe(environ), NEW url \in SettingsUrls(environ)
    PROVE  Target(environ, url) = TestDatabase
<1>1. url = environ.DATABASE_URL
  BY DEF Safe, SettingsUrls
<1>2. ValidUrl(url)
  BY <1>1 DEF Safe
<1>3. url.port # NoPort
  BY <1>2 DEF ValidUrl, NoPort
<1> QED BY <1>2, <1>3 DEF ValidUrl, Target, TestDatabase

LEMMA GuardStep ==
    ASSUME GuardInv, [GuardNext]_guardVars
    PROVE  GuardInv'
<1>1. CASE Ignore
  BY <1>1 DEF Ignore, Goto, GuardInv, OnlyTestDatabaseEmptied
<1>2. CASE Preflight
  BY <1>2 DEF Preflight, Goto, GuardInv, OnlyTestDatabaseEmptied
<1>3. CASE CleanDatabase
  <2>1. PICK url \in SettingsUrls(environ) : target' = Target(environ, url)
    BY <1>3 DEF CleanDatabase
  <2>2. Target(environ, url) = TestDatabase
    BY <1>3, SafeIsTheTestDatabase DEF CleanDatabase, GuardInv
  <2> QED BY <1>3, <2>1, <2>2
          DEF CleanDatabase, GuardInv, OnlyTestDatabaseEmptied, TestDatabase
<1>4. CASE UNCHANGED guardVars
  BY <1>4 DEF guardVars, GuardInv, OnlyTestDatabaseEmptied
<1> QED BY <1>1, <1>2, <1>3, <1>4 DEF GuardNext

\* Whatever variables are set, in whatever spelling, the tests empty the
\* database of the test profile or none.
THEOREM OnlyTheTestDatabase == GuardSpec => []OnlyTestDatabaseEmptied
<1>1. GuardInit => GuardInv
  BY DEF GuardInit, GuardInv, OnlyTestDatabaseEmptied
<1>2. GuardInv /\ [GuardNext]_guardVars => GuardInv'
  BY GuardStep
<1>3. GuardInv => OnlyTestDatabaseEmptied
  BY DEF GuardInv
<1> QED BY <1>1, <1>2, <1>3, PTL DEF GuardSpec

-------------------------------------------------------------------------------
(* The schema: the plans of `alembic upgrade head` and `downgrade base`.   *)

VersionNames == {"base", "0001", "0002"}

ToFirst == Statement("stamp", <<"base", "0001">>)
ToSecond == Statement("stamp", <<"0001", "0002">>)
BackToFirst == Statement("stamp", <<"0002", "0001">>)
ToBase == Statement("stamp", <<"0001", "base">>)
AddValue == Statement("add_value", "cancelled")
Raise == Statement("raise", "cancelled")

StatementsFor(op, names) == {Statement(op, x) : x \in names}

Creations == StatementsFor("create", Objects)
Drops == StatementsFor("drop", DOMAIN References)

UpgradeStatements == Creations \cup {ToFirst, ToSecond, AddValue}
DowngradeStatements == Drops \cup {ToBase}
AllStatements ==
    UpgradeStatements \cup DowngradeStatements \cup {Raise, BackToFirst}

Elements(s) == {s[i] : i \in 1..Len(s)}

\* The statements of a plan, of which there is one at least, are those of E, and
\* the first is h.
Consists(s, S, E, h) ==
    s \in Seq(S) /\ s # <<>> /\ Elements(s) = E /\ Head(s) = h

\* One plan after the other.
LEMMA PlansJoin ==
    ASSUME NEW S, NEW s, NEW E, NEW h, Consists(s, S, E, h),
           NEW t, NEW F, NEW k, Consists(t, S, F, k)
    PROVE  Consists(s \o t, S, E \cup F, h)
<1>1. /\ s \in Seq(S) /\ s # <<>> /\ Elements(s) = E /\ Head(s) = h
      /\ t \in Seq(S) /\ Elements(t) = F
  BY DEF Consists
<1>2. /\ s \o t \in Seq(S)
      /\ Len(s \o t) = Len(s) + Len(t)
      /\ \A i \in 1..Len(s) + Len(t) :
             (s \o t)[i] = IF i <= Len(s) THEN s[i] ELSE t[i - Len(s)]
  BY <1>1, ConcatProperties
<1>3. Len(s) \in Nat \ {0} /\ Len(t) \in Nat
  BY <1>1
<1> DEFINE st == s \o t
<1>4. st \in Seq(S)
  BY <1>2
<1>5. /\ Len(st) = Len(s) + Len(t)
      /\ \A i \in 1..Len(s) : st[i] = s[i]
      /\ \A i \in 1..Len(t) : st[i + Len(s)] = t[i]
      /\ \A i \in 1..Len(s) + Len(t) :
             i \in 1..Len(s) \/ i - Len(s) \in 1..Len(t)
      /\ \A i \in 1..Len(s) + Len(t) :
             i \notin 1..Len(s) => st[i] = t[i - Len(s)]
  BY <1>2, <1>3
<1> HIDE DEF st
<1>6. Elements(st) = Elements(s) \cup Elements(t)
  <2>1. \A i \in 1..Len(t) : i + Len(s) \in 1..Len(st)
    BY <1>3, <1>5
  <2>2. \A i \in 1..Len(s) : i \in 1..Len(st)
    BY <1>3, <1>5
  <2>3. Elements(s) \subseteq Elements(st)
    BY <1>5, <2>2 DEF Elements
  <2>4. Elements(t) \subseteq Elements(st)
    BY <1>5, <2>1 DEF Elements
  <2>5. Elements(st) \subseteq Elements(s) \cup Elements(t)
    BY <1>5 DEF Elements
  <2> QED BY <2>3, <2>4, <2>5
<1>7. st # <<>> /\ Head(st) = h
  BY <1>1, <1>3, <1>4, <1>5
<1> QED BY <1>1, <1>4, <1>6, <1>7 DEF Consists, st

\* One statement.
LEMMA PlanOfOne ==
    ASSUME NEW S, NEW x \in S
    PROVE  Consists(<<x>>, S, {x}, x)
BY DEF Consists, Elements

\* A statement for each of some names, in their order.
OneForEach(op, S, T, names, statements) ==
    /\ names \in Seq(S) /\ names # <<>>
    /\ statements = [i \in DOMAIN names |-> Statement(op, names[i])]
    /\ \A x \in S : Statement(op, x) \in T

\* The elements of a plan are the statements its names stand for.
LEMMA PlanOfAll ==
    ASSUME NEW op, NEW S, NEW T, NEW names, NEW statements,
           OneForEach(op, S, T, names, statements)
    PROVE  Consists(statements, T, StatementsFor(op, Elements(names)),
                    Statement(op, Head(names)))
<1> HIDE DEF Statement
<1> USE DEF OneForEach
<1>1. DOMAIN names = 1..Len(names) /\ Len(names) \in Nat \ {0}
  OBVIOUS
<1>2. \A i \in 1..Len(names) : names[i] \in S
  OBVIOUS
<1>3. statements \in [1..Len(names) -> T]
  BY <1>1, <1>2
<1>4. statements \in Seq(T) /\ Len(statements) = Len(names)
  BY <1>1, <1>3
<1>5. \A i \in 1..Len(names) : statements[i] = Statement(op, names[i])
  BY <1>1
<1>6. Elements(statements) = StatementsFor(op, Elements(names))
  BY <1>4, <1>5 DEF Elements, StatementsFor
<1>7. Head(statements) = Statement(op, Head(names))
  BY <1>1, <1>4, <1>5
<1> QED BY <1>1, <1>4, <1>6, <1>7 DEF Consists

\* What upgrade() of the first revision creates.
LEMMA FirstUpgrade ==
    Consists(Upgrade0001, UpgradeStatements, Creations,
             Statement("create", "release_status"))
<1> DEFINE names ==
        <<"release_status", "gate_status", "applications",
          "ix_applications_slug", "environments",
          "ix_environments_application_id", "releases",
          "ix_releases_application_id", "ix_releases_environment_id",
          "ix_releases_status", "ix_releases_status_updated", "gate_results",
          "ix_gate_results_release_id", "webhook_receipts",
          "canary_observations", "ix_canary_observations_release_id",
          "release_events", "ix_release_events_release_id">>
<1>1. Objects =
        {"release_status", "gate_status", "applications",
         "ix_applications_slug", "environments",
         "ix_environments_application_id", "releases",
         "ix_releases_application_id", "ix_releases_environment_id",
         "ix_releases_status", "ix_releases_status_updated", "gate_results",
         "ix_gate_results_release_id", "webhook_receipts",
         "canary_observations", "ix_canary_observations_release_id",
         "release_events", "ix_release_events_release_id"}
  BY DEF Objects, References, TableOf
<1>2. names \in Seq(Objects) /\ Len(names) = 18
  BY <1>1
<1>3. names # <<>> /\ Head(names) = "release_status"
  OBVIOUS
<1>4. Elements(names) = Objects
  BY <1>1 DEF Elements
<1>5. Upgrade0001 = [i \in DOMAIN names |-> Statement("create", names[i])]
  BY Zenon DEF Upgrade0001, CreateAll
<1> HIDE DEF names
<1>6. \A o \in Objects : Statement("create", o) \in UpgradeStatements
  BY DEF UpgradeStatements, Creations, StatementsFor
<1>7. OneForEach("create", Objects, UpgradeStatements, names, Upgrade0001)
  BY <1>2, <1>3, <1>5, <1>6 DEF OneForEach
<1>8. Consists(Upgrade0001, UpgradeStatements,
               StatementsFor("create", Elements(names)),
               Statement("create", Head(names)))
  BY <1>7, PlanOfAll
<1> QED BY <1>3, <1>4, <1>8 DEF Creations

\* What downgrade() of the first revision drops.
LEMMA FirstDowngrade ==
    Consists(Downgrade0001, DowngradeStatements, Drops,
             Statement("drop", "release_events"))
<1> DEFINE names ==
        <<"release_events", "canary_observations", "webhook_receipts",
          "gate_results", "releases", "environments", "applications",
          "gate_status", "release_status">>
<1>1. DOMAIN References =
        {"release_events", "canary_observations", "webhook_receipts",
         "gate_results", "releases", "environments", "applications",
         "gate_status", "release_status"}
  BY DEF References
<1>2. names \in Seq(DOMAIN References) /\ Len(names) = 9
  BY <1>1
<1>3. names # <<>> /\ Head(names) = "release_events"
  OBVIOUS
<1>4. Elements(names) = DOMAIN References
  BY <1>1 DEF Elements
<1>5. Downgrade0001 = [i \in DOMAIN names |-> Statement("drop", names[i])]
  BY Zenon DEF Downgrade0001, DropAll
<1> HIDE DEF names
<1>6. \A o \in DOMAIN References : Statement("drop", o) \in DowngradeStatements
  BY DEF DowngradeStatements, Drops, StatementsFor
<1>7. OneForEach("drop", DOMAIN References, DowngradeStatements, names,
                 Downgrade0001)
  BY <1>2, <1>3, <1>5, <1>6 DEF OneForEach
<1>8. Consists(Downgrade0001, DowngradeStatements,
               StatementsFor("drop", Elements(names)),
               Statement("drop", Head(names)))
  BY <1>7, PlanOfAll
<1> QED BY <1>3, <1>4, <1>8 DEF Drops

\* The plans of `alembic upgrade head`.
LEMMA UpgradePlans ==
    /\ Consists(UpgradePlan("base"), UpgradeStatements, UpgradeStatements,
                Statement("create", "release_status"))
    /\ Consists(UpgradePlan("0001"), UpgradeStatements, {AddValue, ToSecond},
                AddValue)
    /\ UpgradePlan("0002") = <<>>
<1> DEFINE S == UpgradeStatements
<1>1. AddValue \in S /\ ToFirst \in S /\ ToSecond \in S
  BY DEF UpgradeStatements
<1>2. /\ Upgrade0002 = <<AddValue>> /\ Stamp("base", "0001") = <<ToFirst>>
      /\ Stamp("0001", "0002") = <<ToSecond>>
  BY DEF Upgrade0002, Stamp, AddValue, ToFirst, ToSecond
<1>3. Consists(Upgrade0001, S, Creations, Statement("create", "release_status"))
  BY FirstUpgrade
<1> HIDE DEF S
<1> DEFINE create == Statement("create", "release_status")
<1> HIDE DEF create
<1>4. /\ Consists(<<AddValue>>, S, {AddValue}, AddValue)
      /\ Consists(<<ToFirst>>, S, {ToFirst}, ToFirst)
      /\ Consists(<<ToSecond>>, S, {ToSecond}, ToSecond)
  BY <1>1, PlanOfOne, Zenon
<1>5. Consists(<<AddValue>> \o <<ToSecond>>, S, {AddValue} \cup {ToSecond},
               AddValue)
  BY <1>4, PlansJoin, Zenon
<1>6. Consists(Upgrade0001 \o <<ToFirst>>, S, Creations \cup {ToFirst}, create)
  BY <1>3, <1>4, PlansJoin, Zenon DEF create
<1>7. Consists((Upgrade0001 \o <<ToFirst>>) \o <<AddValue>>, S,
               (Creations \cup {ToFirst}) \cup {AddValue}, create)
  BY <1>4, <1>6, PlansJoin, Zenon
<1>8. Consists(((Upgrade0001 \o <<ToFirst>>) \o <<AddValue>>)
                   \o <<ToSecond>>, S,
               ((Creations \cup {ToFirst}) \cup {AddValue}) \cup {ToSecond},
               create)
  BY <1>4, <1>7, PlansJoin, Zenon
<1>9. /\ ((Creations \cup {ToFirst}) \cup {AddValue}) \cup {ToSecond} = S
      /\ {AddValue} \cup {ToSecond} = {AddValue, ToSecond}
  BY DEF S, UpgradeStatements
<1>10. UpgradePlan("base") =
           ((Upgrade0001 \o <<ToFirst>>) \o <<AddValue>>) \o <<ToSecond>>
  BY <1>2 DEF UpgradePlan
<1>11. UpgradePlan("0001") = <<AddValue>> \o <<ToSecond>>
  BY <1>2 DEF UpgradePlan
<1>12. UpgradePlan("0002") = <<>>
  BY DEF UpgradePlan
<1> QED BY <1>5, <1>8, <1>9, <1>10, <1>11, <1>12, Zenon DEF S, create

\* The plans of `alembic downgrade base`.
LEMMA DowngradePlans ==
    /\ DowngradePlan("base") = <<>>
    /\ Consists(DowngradePlan("0001"), DowngradeStatements,
                DowngradeStatements, Statement("drop", "release_events"))
    /\ \E E : Consists(DowngradePlan("0002"), AllStatements, E, Raise)
<1> DEFINE S == AllStatements
           drop == Statement("drop", "release_events")
<1>1. /\ ToBase \in S /\ BackToFirst \in S /\ Raise \in S
      /\ ToBase \in DowngradeStatements
      /\ DowngradeStatements \subseteq S
  BY DEF DowngradeStatements, AllStatements
<1>2. /\ Downgrade0002 = <<Raise>> /\ Stamp("0001", "base") = <<ToBase>>
      /\ Stamp("0002", "0001") = <<BackToFirst>>
  BY DEF Downgrade0002, Stamp, Raise, ToBase, BackToFirst
<1>3. /\ Consists(Downgrade0001, DowngradeStatements, Drops, drop)
      /\ Consists(Downgrade0001, S, Drops, drop)
  BY <1>1, FirstDowngrade, SeqMonotonic DEF Consists
<1> HIDE DEF S, drop
<1>4. /\ Consists(<<Raise>>, S, {Raise}, Raise)
      /\ Consists(<<BackToFirst>>, S, {BackToFirst}, BackToFirst)
      /\ Consists(<<ToBase>>, S, {ToBase}, ToBase)
      /\ Consists(<<ToBase>>, DowngradeStatements, {ToBase}, ToBase)
  BY <1>1, PlanOfOne, Zenon
<1>5. Consists(Downgrade0001 \o <<ToBase>>, DowngradeStatements,
               Drops \cup {ToBase}, drop)
  BY <1>3, <1>4, PlansJoin, Zenon
<1>6. Consists(<<Raise>> \o <<BackToFirst>>, S, {Raise} \cup {BackToFirst},
               Raise)
  BY <1>4, PlansJoin, Zenon
<1>7. Consists((<<Raise>> \o <<BackToFirst>>) \o Downgrade0001, S,
               ({Raise} \cup {BackToFirst}) \cup Drops, Raise)
  BY <1>3, <1>6, PlansJoin, Zenon
<1>8. Consists(((<<Raise>> \o <<BackToFirst>>) \o Downgrade0001) \o <<ToBase>>,
               S, (({Raise} \cup {BackToFirst}) \cup Drops) \cup {ToBase},
               Raise)
  BY <1>4, <1>7, PlansJoin, Zenon
<1>9. DowngradePlan("0001") = Downgrade0001 \o <<ToBase>>
  BY <1>2 DEF DowngradePlan
<1>10. DowngradePlan("0002") =
           ((<<Raise>> \o <<BackToFirst>>) \o Downgrade0001) \o <<ToBase>>
  BY <1>2 DEF DowngradePlan
<1>11. DowngradePlan("base") = <<>>
  BY DEF DowngradePlan
<1> QED
  BY <1>5, <1>8, <1>9, <1>10, <1>11, Zenon DEF drop, S, DowngradeStatements

-------------------------------------------------------------------------------
(* One statement.                                                          *)

Schemas ==
    [objects : SUBSET Objects, values : SUBSET {"cancelled"},
     version : VersionNames]

\* What is left of an upgrade, L, makes of s the newest schema.
UpgradesTo(L, s) ==
    /\ L \subseteq UpgradeStatements
    /\ \A o \in Objects \ s.objects : Statement("create", o) \in L
    /\ "cancelled" \notin s.values => AddValue \in L
    /\ s.version # "0002" => ToSecond \in L

\* Object o is dropped by statement st.
Gone(o, st) ==
    \/ st = Statement("drop", o)
    \/ o \in DOMAIN TableOf /\ st = Statement("drop", TableOf[o])

\* What is left of a downgrade, L, makes of s the empty schema; it was not
\* begun at the newest version.
DowngradesTo(L, s, version) ==
    /\ L \subseteq DowngradeStatements
    /\ \A o \in s.objects : \E st \in L : Gone(o, st)
    /\ s.values # {} => Statement("drop", "release_status") \in L
    /\ s.version # "base" => ToBase \in L
    /\ version = "0002" => s.version = "0002"

\* The statement st of plan L has been executed, K is left.
Executes(L, st, K) == st \in L /\ K \subseteq L /\ L \subseteq {st} \cup K

\* Each kind of statement, field by field.
LEMMA ExecutedIs ==
    ASSUME NEW s \in Schemas, NEW st
    PROVE  /\ st.op = "create" =>
                  Executed(s, st) = [objects |-> s.objects \cup {st.arg},
                                     values |-> s.values,
                                     version |-> s.version]
           /\ st.op = "drop" =>
                  Executed(s, st) =
                      [objects |->
                           s.objects \ ({st.arg} \cup IndexesOf(st.arg)),
                       values |-> IF st.arg = "release_status" THEN {}
                                  ELSE s.values,
                       version |-> s.version]
           /\ st.op = "add_value" =>
                  Executed(s, st) = [objects |-> s.objects,
                                     values |-> s.values \cup {st.arg},
                                     version |-> s.version]
           /\ st.op = "stamp" =>
                  Executed(s, st) = [objects |-> s.objects,
                                     values |-> s.values,
                                     version |-> st.arg[2]]
BY DEF Executed, Schemas

\* What the names and the statements are.
LEMMA Kinds ==
    /\ DOMAIN References \subseteq Objects
    /\ DOMAIN TableOf \subseteq Objects
    /\ DOMAIN TableOf \cap DOMAIN References = {}
    /\ \A o \in DOMAIN TableOf : TableOf[o] \in DOMAIN References
    /\ "release_status" \in DOMAIN References
    /\ "releases" \in Objects
BY DEF Objects, References, TableOf

\* A statement of an upgrade brings the schema nearer to the newest.
LEMMA UpgradeStep ==
    ASSUME NEW L, NEW s \in Schemas, UpgradesTo(L, s),
           NEW st, NEW K, Executes(L, st, K), Executable(s, st)
    PROVE  Executed(s, st) \in Schemas /\ UpgradesTo(K, Executed(s, st))
<1>1. /\ L \subseteq UpgradeStatements /\ st \in L
      /\ K \subseteq L /\ L \subseteq {st} \cup K
  BY DEF UpgradesTo, Executes
<1>2. /\ s.objects \subseteq Objects /\ s.values \subseteq {"cancelled"}
      /\ s.version \in VersionNames
  BY DEF Schemas
<1>3. CASE st \in Creations
  <2>1. PICK o \in Objects : st = Statement("create", o)
    BY <1>3 DEF Creations, StatementsFor
  <2>2. st.op = "create" /\ st.arg = o
    BY <2>1 DEF Statement
  <2>3. Executed(s, st) = [objects |-> s.objects \cup {o},
                           values |-> s.values, version |-> s.version]
    BY <2>2, ExecutedIs
  <2>4. \A x \in Objects : Statement("create", x) = st => x = o
    BY <2>1 DEF Statement
  <2>5. st # AddValue /\ st # ToSecond
    BY <2>2 DEF AddValue, ToSecond, Statement
  <2>6. \A x \in Objects \ (s.objects \cup {o}) : Statement("create", x) \in K
    BY <1>1, <2>4 DEF UpgradesTo
  <2> QED BY <1>1, <1>2, <2>3, <2>5, <2>6 DEF UpgradesTo, Schemas
<1>4. CASE st = AddValue
  <2>1. st.op = "add_value" /\ st.arg = "cancelled"
    BY <1>4 DEF AddValue, Statement
  <2>2. Executed(s, st) = [objects |-> s.objects,
                           values |-> s.values \cup {"cancelled"},
                           version |-> s.version]
    BY <2>1, ExecutedIs
  <2>3. \A o \in Objects : Statement("create", o) # st
    BY <2>1 DEF Statement
  <2>4. st # ToSecond
    BY <2>1 DEF ToSecond, Statement
  <2> QED BY <1>1, <1>2, <2>2, <2>3, <2>4 DEF UpgradesTo, Schemas
<1>5. CASE st \in {ToFirst, ToSecond}
  <2>1. st.op = "stamp" /\ st.arg \in {<<"base", "0001">>, <<"0001", "0002">>}
    BY <1>5 DEF ToFirst, ToSecond, Statement
  <2>2. Executed(s, st) = [objects |-> s.objects, values |-> s.values,
                           version |-> st.arg[2]]
    BY <2>1, ExecutedIs
  <2>3. st.arg[2] \in VersionNames
    BY <2>1 DEF VersionNames
  <2>4. st = ToSecond => st.arg[2] = "0002"
    BY DEF ToSecond, Statement
  <2>5. s.version = st.arg[1]
    BY <2>1 DEF Executable, VersionIs
  <2>6. st # ToSecond => s.version # "0002"
    <3>1. <<"base", "0001">>[1] = "base" /\ <<"0001", "0002">>[1] = "0001"
      OBVIOUS
    <3> QED BY <2>1, <2>5, <3>1
  <2>7. \A o \in Objects : Statement("create", o) # st
    BY <2>1 DEF Statement
  <2>8. st # AddValue
    BY <2>1 DEF AddValue, Statement
  <2> QED
    BY <1>1, <1>2, <2>2, <2>3, <2>4, <2>6, <2>7, <2>8 DEF UpgradesTo, Schemas
<1> QED BY <1>1, <1>3, <1>4, <1>5 DEF UpgradeStatements

\* A statement of a downgrade brings it nearer to the empty one.
LEMMA DowngradeStep ==
    ASSUME NEW L, NEW s \in Schemas, NEW version, DowngradesTo(L, s, version),
           NEW st, NEW K, Executes(L, st, K), Executable(s, st)
    PROVE  /\ Executed(s, st) \in Schemas
           /\ DowngradesTo(K, Executed(s, st), version)
<1>1. /\ L \subseteq DowngradeStatements /\ st \in L
      /\ K \subseteq L /\ L \subseteq {st} \cup K
  BY DEF DowngradesTo, Executes
<1>2. /\ s.objects \subseteq Objects /\ s.values \subseteq {"cancelled"}
      /\ s.version \in VersionNames
  BY DEF Schemas
<1>3. CASE st \in Drops
  <2>1. PICK x \in DOMAIN References : st = Statement("drop", x)
    BY <1>3 DEF Drops, StatementsFor
  <2>2. st.op = "drop" /\ st.arg = x
    BY <2>1 DEF Statement
  <2>3. Executed(s, st) =
            [objects |-> s.objects \ ({x} \cup IndexesOf(x)),
             values |-> IF x = "release_status" THEN {} ELSE s.values,
             version |-> s.version]
    BY <2>2, ExecutedIs
  <2>4. \A y : Statement("drop", y) = st => y = x
    BY <2>1 DEF Statement
  <2>5. st # ToBase
    BY <2>2 DEF ToBase, Statement
  <2>6. \A o \in s.objects \ ({x} \cup IndexesOf(x)) : ~Gone(o, st)
    BY <1>2, <2>4 DEF Gone, IndexesOf
  <2>7. \A o \in s.objects \ ({x} \cup IndexesOf(x)) : \E t \in K : Gone(o, t)
    BY <1>1, <2>6 DEF DowngradesTo
  <2>8. x # "release_status" /\ s.values # {} =>
            Statement("drop", "release_status") \in K
    BY <1>1, <2>4 DEF DowngradesTo
  <2> QED
    BY <1>1, <1>2, <2>3, <2>5, <2>7, <2>8 DEF DowngradesTo, Schemas
<1>4. CASE st = ToBase
  <2>1. st.op = "stamp" /\ st.arg = <<"0001", "base">>
    BY <1>4 DEF ToBase, Statement
  <2>2. Executed(s, st) = [objects |-> s.objects, values |-> s.values,
                           version |-> "base"]
    BY <2>1, ExecutedIs
  <2>3. s.version = "0001"
    BY <2>1 DEF Executable, VersionIs
  <2>4. \A o : ~Gone(o, st)
    BY <2>1 DEF Gone, Statement
  <2>5. Statement("drop", "release_status") # st
    BY <2>1 DEF Statement
  <2>6. \A o \in s.objects : \E t \in K : Gone(o, t)
    BY <1>1, <2>4 DEF DowngradesTo
  <2> QED
    BY <1>1, <1>2, <2>2, <2>3, <2>5, <2>6
       DEF DowngradesTo, Schemas, VersionNames
<1> QED BY <1>1, <1>3, <1>4 DEF DowngradeStatements

\* The schema s is the whole schema of its version.
Whole(s) ==
    CASE s.version = "base" -> s.objects = {} /\ s.values = {}
      [] s.version = "0001" -> s.objects = Objects /\ s.values = {}
      [] OTHER -> s.objects = Objects /\ s.values = {"cancelled"}

\* A run makes its first change only at a schema its plan was made for, or
\* that the rest of its plan brings to the same end.
LEMMA UpgradeStart ==
    ASSUME NEW s \in Schemas, Whole(s), NEW v \in VersionNames,
           UpgradePlan(v) # <<>>, Executable(s, Head(UpgradePlan(v)))
    PROVE  UpgradesTo(Elements(UpgradePlan(v)), s)
<1>1. CASE v = "base"
  <2>1. Elements(UpgradePlan(v)) = UpgradeStatements
    BY <1>1, UpgradePlans DEF Consists
  <2>2. \A o \in Objects : Statement("create", o) \in UpgradeStatements
    BY DEF UpgradeStatements, Creations, StatementsFor
  <2> QED BY <2>1, <2>2 DEF UpgradesTo, UpgradeStatements
<1>2. CASE v = "0001"
  <2>1. /\ Elements(UpgradePlan(v)) = {AddValue, ToSecond}
        /\ Head(UpgradePlan(v)) = AddValue
    BY <1>2, UpgradePlans DEF Consists
  <2>2. "release_status" \in s.objects
    BY <2>1 DEF Executable, AddValue, Statement
  <2>3. Objects \ s.objects = {}
    BY <2>2 DEF Whole
  <2> QED BY <2>1, <2>3 DEF UpgradesTo, UpgradeStatements
<1>3. v # "0002"
  BY UpgradePlans
<1> QED BY <1>1, <1>2, <1>3 DEF VersionNames

LEMMA DowngradeStart ==
    ASSUME NEW s \in Schemas, Whole(s), NEW v \in VersionNames,
           DowngradePlan(v) # <<>>, Executable(s, Head(DowngradePlan(v)))
    PROVE  DowngradesTo(Elements(DowngradePlan(v)), s, s.version)
<1>1. CASE v = "0001"
  <2>1. Elements(DowngradePlan(v)) = DowngradeStatements
    BY <1>1, DowngradePlans DEF Consists
  <2>2. \A o \in DOMAIN References : Statement("drop", o) \in Drops
    BY DEF Drops, StatementsFor
  <2>3. \A o \in Objects : \E st \in Drops : Gone(o, st)
    BY <2>2, Kinds DEF Gone, Objects
  <2>4. s.objects \subseteq Objects
    BY DEF Schemas
  <2> QED
    BY <2>1, <2>2, <2>3, <2>4, Kinds DEF DowngradesTo, DowngradeStatements
<1>2. v # "0002"
  <2>1. SUFFICES ASSUME v = "0002" PROVE FALSE
    OBVIOUS
  <2>2. Head(DowngradePlan(v)) = Raise
    BY <2>1, DowngradePlans DEF Consists
  <2> QED BY <2>2 DEF Executable, Raise, Statement
<1>3. v # "base"
  BY DowngradePlans
<1> QED BY <1>1, <1>2, <1>3 DEF VersionNames

\* The first statement of what is left is executed, the others stay.
LEMMA HeadExecutes ==
    ASSUME NEW S, NEW s \in Seq(S), s # <<>>
    PROVE  /\ Tail(s) \in Seq(S)
           /\ Executes(Elements(s), Head(s), Elements(Tail(s)))
<1>1. /\ Tail(s) \in Seq(S) /\ Len(s) \in Nat \ {0}
      /\ Len(Tail(s)) = Len(s) - 1
      /\ \A i \in 1..Len(Tail(s)) : Tail(s)[i] = s[i + 1]
      /\ Head(s) = s[1]
  OBVIOUS
<1> DEFINE t == Tail(s)
           h == Head(s)
<1>2. /\ Len(t) = Len(s) - 1 /\ Len(s) \in Nat \ {0} /\ h = s[1]
      /\ \A i \in 1..Len(t) : t[i] = s[i + 1]
  BY <1>1
<1> HIDE DEF t, h
<1>3. 1 \in 1..Len(s) /\ \A i \in 1..Len(t) : i + 1 \in 1..Len(s)
  BY <1>2
<1>4. \A i \in 1..Len(s) :
          \/ i = 1
          \/ i - 1 \in 1..Len(t) /\ s[i] = t[i - 1]
  BY <1>2
<1>5. h \in Elements(s) /\ Elements(t) \subseteq Elements(s)
  BY <1>2, <1>3 DEF Elements
<1>6. Elements(s) \subseteq {h} \cup Elements(t)
  BY <1>2, <1>4 DEF Elements
<1> QED BY <1>1, <1>5, <1>6 DEF Executes, t, h

\* A plan of which nothing is left has done its work.
LEMMA UpgradeEnds ==
    ASSUME NEW s \in Schemas, UpgradesTo({}, s)
    PROVE  Whole(s) /\ s.version = "0002"
BY DEF UpgradesTo, Whole, Schemas

LEMMA DowngradeEnds ==
    ASSUME NEW s \in Schemas, NEW version, DowngradesTo({}, s, version)
    PROVE  Whole(s) /\ s.version = "base" /\ version # "0002"
BY DEF DowngradesTo, Whole, Schemas

-------------------------------------------------------------------------------
(* The inductive invariant.                                                *)

MigrationsTypeOK ==
    /\ schema \in Schemas
    /\ work \in Schemas
    /\ holder \in Runs \cup {NoRun}
    /\ state \in [Runs -> {"ready", "running", "done", "failed"}]
    /\ todo \in [Runs -> Seq(AllStatements)]
    /\ serving \in BOOLEAN
    /\ cancelled \in {"none", "some"}

\* The transaction that changes the schema is that of a run in progress, and
\* the rest of its plan ends at a whole schema.
HolderIsOnItsWay ==
    /\ holder \in Upgraders => UpgradesTo(Elements(todo[holder]), work)
    /\ holder \in Operators =>
           DowngradesTo(Elements(todo[holder]), work, schema.version)
    /\ holder \in Runs => state[holder] = "running"

\* A run that has changed nothing has its whole plan; an upgrade finds nothing
\* to do only when the schema is the newest, which it stays.
HasItsPlan(m) ==
    \E v \in VersionNames :
        IF m \in Upgraders
        THEN /\ todo[m] = UpgradePlan(v)
             /\ v = "0002" => schema.version = "0002"
        ELSE todo[m] = DowngradePlan(v)

OthersHaveTheirPlans ==
    \A m \in Runs : state[m] = "running" /\ holder # m => HasItsPlan(m)

\* Who relies on the newest schema.
NewestIsKept ==
    (serving \/ cancelled # "none" \/ \E m \in Upgraders : state[m] = "done")
        => schema.version = "0002"

MigrationsInv ==
    /\ MigrationsTypeOK
    /\ SchemaMatchesVersion
    /\ HolderIsOnItsWay
    /\ OthersHaveTheirPlans
    /\ NewestIsKept

\* The plans are sequences of statements.
LEMMA PlansAreStatements ==
    \A v \in VersionNames :
        UpgradePlan(v) \in Seq(AllStatements)
        /\ DowngradePlan(v) \in Seq(AllStatements)
<1>1. /\ UpgradeStatements \subseteq AllStatements
      /\ DowngradeStatements \subseteq AllStatements
  BY DEF AllStatements
<1>2. /\ \A q \in Seq(UpgradeStatements) : q \in Seq(AllStatements)
      /\ \A q \in Seq(DowngradeStatements) : q \in Seq(AllStatements)
  BY <1>1, SeqMonotonic
<1>3. <<>> \in Seq(AllStatements)
  OBVIOUS
<1> HIDE DEF AllStatements, UpgradeStatements, DowngradeStatements
<1> QED
  BY <1>2, <1>3, UpgradePlans, DowngradePlans DEF VersionNames, Consists

\* At first nobody has begun.
LEMMA MigrationsStarts == MigrationsInit => MigrationsInv
<1> SUFFICES ASSUME MigrationsInit PROVE MigrationsInv
  OBVIOUS
<1>1. schema \in Schemas /\ Whole(schema)
  BY DEF MigrationsInit, EmptySchema, FirstSchema, Schemas, VersionNames, Whole
<1>2. <<>> \in Seq(AllStatements)
  OBVIOUS
<1>3. MigrationsTypeOK
  BY <1>1, <1>2 DEF MigrationsTypeOK, MigrationsInit
<1>4. SchemaMatchesVersion
  BY <1>1 DEF SchemaMatchesVersion, Whole
<1>5. HolderIsOnItsWay
  BY MigrationsAssumption DEF HolderIsOnItsWay, MigrationsInit, Runs
<1>6. OthersHaveTheirPlans /\ NewestIsKept
  BY DEF OthersHaveTheirPlans, NewestIsKept, MigrationsInit, Runs
<1> QED BY <1>3, <1>4, <1>5, <1>6 DEF MigrationsInv

\* A plan is made of the version read.
LEMMA PlanStep ==
    ASSUME MigrationsInv, NEW m \in Runs, Plan(m)
    PROVE  MigrationsInv'
<1> USE DEF MigrationsInv
<1>1. MigrationsTypeOK'
  BY PlansAreStatements DEF MigrationsTypeOK, Plan, Schemas
<1>2. SchemaMatchesVersion'
  BY DEF SchemaMatchesVersion, Plan
<1>3. holder # m
  BY DEF HolderIsOnItsWay, Plan
<1>4. HolderIsOnItsWay'
  <2>1. holder \in Runs => todo'[holder] = todo[holder]
                           /\ state'[holder] = state[holder]
    BY <1>3 DEF Plan, MigrationsTypeOK
  <2> QED BY <2>1 DEF HolderIsOnItsWay, Plan, Runs
<1>5. OthersHaveTheirPlans'
  <2>1. HasItsPlan(m)'
    <3>1. schema.version \in VersionNames
      BY DEF MigrationsTypeOK, Schemas
    <3>2. /\ schema' = schema
          /\ m \in Upgraders => todo'[m] = UpgradePlan(schema.version)
          /\ m \notin Upgraders => todo'[m] = DowngradePlan(schema.version)
      BY DEF Plan, MigrationsTypeOK
    <3> QED BY <3>1, <3>2 DEF HasItsPlan
  <2>2. ASSUME NEW n \in Runs, n # m, state'[n] = "running", holder' # n
        PROVE  HasItsPlan(n)'
    <3>1. /\ state[n] = "running" /\ holder # n /\ schema' = schema
          /\ todo'[n] = todo[n]
      BY <2>2 DEF Plan, MigrationsTypeOK
    <3>2. HasItsPlan(n)
      BY <3>1 DEF OthersHaveTheirPlans
    <3> QED BY <3>1, <3>2 DEF HasItsPlan
  <2> QED BY <2>1, <2>2 DEF OthersHaveTheirPlans
<1>6. NewestIsKept'
  <2>1. \A n \in Upgraders : state'[n] = "done" => state[n] = "done"
    BY DEF Plan, MigrationsTypeOK, Runs
  <2> QED BY <2>1 DEF NewestIsKept, Plan
<1> QED BY <1>1, <1>2, <1>4, <1>5, <1>6

\* A statement is executed where it can be, by the run that has begun or by the
\* first to begin.
LEMMA ExecuteStep ==
    ASSUME MigrationsInv, NEW m \in Runs, Execute(m)
    PROVE  MigrationsInv'
<1> USE DEF MigrationsInv
<1>1. /\ schema \in Schemas /\ work \in Schemas
      /\ todo \in [Runs -> Seq(AllStatements)]
      /\ state[m] = "running" /\ todo[m] # <<>> /\ holder \in {m, NoRun}
      /\ Executable(Seen(m), Head(todo[m]))
      /\ work' = Executed(Seen(m), Head(todo[m]))
      /\ holder' = m
      /\ todo' = [todo EXCEPT ![m] = Tail(todo[m])]
      /\ UNCHANGED <<schema, state, attempts, serving, cancelled>>
  BY DEF Execute, MayExecute, MigrationsTypeOK
<1>2. NoRun \notin Runs /\ Upgraders \cap Operators = {}
  BY MigrationsAssumption
<1>3. Seen(m) \in Schemas
  BY <1>1 DEF Seen
<1> DEFINE L == Elements(todo[m])
           st == Head(todo[m])
           K == Elements(Tail(todo[m]))
<1>4. Executes(L, st, K) /\ Tail(todo[m]) \in Seq(AllStatements)
  BY <1>1, HeadExecutes
<1>5. todo'[m] = Tail(todo[m]) /\ \A n \in Runs : n # m => todo'[n] = todo[n]
  BY <1>1
<1>6. holder # m => Seen(m) = schema /\ Whole(schema) /\ HasItsPlan(m)
  BY <1>1 DEF Seen, SchemaMatchesVersion, Whole, OthersHaveTheirPlans
<1>7. holder = m => Seen(m) = work
  BY DEF Seen
<1>8. ASSUME m \in Upgraders
      PROVE  work' \in Schemas /\ UpgradesTo(Elements(todo'[m]), work')
  <2>1. CASE holder = m
    BY <1>1, <1>3, <1>4, <1>5, <1>7, <1>8, <2>1, UpgradeStep
       DEF HolderIsOnItsWay
  <2>2. CASE holder # m
    <3>1. PICK v \in VersionNames : todo[m] = UpgradePlan(v)
      BY <1>6, <1>8, <2>2 DEF HasItsPlan
    <3>2. UpgradesTo(L, schema)
      BY <1>1, <1>6, <2>2, <3>1, UpgradeStart
    <3> QED BY <1>1, <1>4, <1>5, <1>6, <2>2, <3>2, UpgradeStep
  <2> QED BY <2>1, <2>2
<1>9. ASSUME m \in Operators
      PROVE  /\ work' \in Schemas
             /\ DowngradesTo(Elements(todo'[m]), work', schema.version)
  <2>1. CASE holder = m
    BY <1>1, <1>3, <1>4, <1>5, <1>7, <1>9, <2>1, DowngradeStep
       DEF HolderIsOnItsWay
  <2>2. CASE holder # m
    <3>1. PICK v \in VersionNames : todo[m] = DowngradePlan(v)
      BY <1>2, <1>6, <1>9, <2>2 DEF HasItsPlan
    <3>2. DowngradesTo(L, schema, schema.version)
      BY <1>1, <1>6, <2>2, <3>1, DowngradeStart
    <3> QED BY <1>1, <1>4, <1>5, <1>6, <2>2, <3>2, DowngradeStep
  <2> QED BY <2>1, <2>2
<1> HIDE DEF L, st, K
<1>10. work' \in Schemas
  BY <1>8, <1>9 DEF Runs
<1>11. todo' \in [Runs -> Seq(AllStatements)]
  BY <1>1, <1>4
<1>12. MigrationsTypeOK'
  BY <1>1, <1>10, <1>11 DEF MigrationsTypeOK
<1>13. HolderIsOnItsWay'
  BY <1>1, <1>2, <1>8, <1>9 DEF HolderIsOnItsWay
<1>14. OthersHaveTheirPlans'
  <2>1. ASSUME NEW n \in Runs, state'[n] = "running", holder' # n
        PROVE  HasItsPlan(n)'
    <3>1. /\ state[n] = "running" /\ holder # n /\ schema' = schema
          /\ todo'[n] = todo[n]
      BY <1>1, <1>2, <1>5, <2>1
    <3>2. HasItsPlan(n)
      BY <3>1 DEF OthersHaveTheirPlans
    <3> QED BY <3>1, <3>2 DEF HasItsPlan
  <2> QED BY <2>1 DEF OthersHaveTheirPlans
<1>15. SchemaMatchesVersion' /\ NewestIsKept'
  BY <1>1 DEF SchemaMatchesVersion, NewestIsKept
<1> QED BY <1>12, <1>13, <1>14, <1>15

\* What a run that fails or crashes had done is rolled back.
LEMMA AbandonStep ==
    ASSUME MigrationsInv, NEW m \in Runs, Abandon(m)
    PROVE  MigrationsInv'
<1> USE DEF MigrationsInv
<1>1. NoRun \notin Runs /\ <<>> \in Seq(AllStatements)
  BY MigrationsAssumption
<1>2. MigrationsTypeOK'
  BY <1>1 DEF MigrationsTypeOK, Abandon
<1>3. HolderIsOnItsWay'
  <2>1. CASE holder = m
    BY <1>1, <2>1 DEF HolderIsOnItsWay, Abandon, Runs
  <2>2. CASE holder # m
    <3>1. /\ holder' = holder /\ work' = work /\ schema' = schema
          /\ holder \in Runs => todo'[holder] = todo[holder]
                                /\ state'[holder] = state[holder]
      BY <2>2 DEF Abandon, MigrationsTypeOK
    <3> QED BY <3>1 DEF HolderIsOnItsWay, Runs
  <2> QED BY <2>1, <2>2
<1>4. OthersHaveTheirPlans'
  <2>1. ASSUME NEW n \in Runs, state'[n] = "running", holder' # n
        PROVE  HasItsPlan(n)'
    <3>1. /\ state[n] = "running" /\ holder # n /\ schema' = schema
          /\ todo'[n] = todo[n]
      BY <2>1 DEF Abandon, MigrationsTypeOK
    <3>2. HasItsPlan(n)
      BY <3>1 DEF OthersHaveTheirPlans
    <3> QED BY <3>1, <3>2 DEF HasItsPlan
  <2> QED BY <2>1 DEF OthersHaveTheirPlans
<1>5. SchemaMatchesVersion'
  BY DEF SchemaMatchesVersion, Abandon
<1>6. NewestIsKept'
  <2>1. \A n \in Upgraders : state'[n] = "done" => state[n] = "done"
    BY DEF Abandon, MigrationsTypeOK, Runs
  <2> QED BY <2>1 DEF NewestIsKept, Abandon
<1> QED BY <1>2, <1>3, <1>4, <1>5, <1>6

\* A run ends when nothing of its plan is left: the schema it commits is whole,
\* the newest after an upgrade, and no downgrade leaves the newest.
LEMMA CommitStep ==
    ASSUME MigrationsInv, NEW m \in Runs, Commit(m)
    PROVE  MigrationsInv'
<1> USE DEF MigrationsInv
<1>1. NoRun \notin Runs /\ Upgraders \cap Operators = {}
  BY MigrationsAssumption
<1>2. Elements(<<>>) = {}
  BY DEF Elements
<1>3. /\ schema \in Schemas /\ work \in Schemas /\ Whole(schema)
      /\ state[m] = "running" /\ todo[m] = <<>> /\ schema' = Seen(m)
  BY DEF Commit, MigrationsTypeOK, SchemaMatchesVersion, Whole
<1>4. /\ schema' \in Schemas /\ Whole(schema')
      /\ m \in Upgraders => schema'.version = "0002"
      /\ m \in Operators /\ schema.version = "0002" => schema' = schema
  <2>1. CASE holder = m /\ m \in Upgraders
    <3>1. UpgradesTo({}, work)
      BY <1>2, <1>3, <2>1 DEF HolderIsOnItsWay
    <3> QED BY <1>1, <1>3, <2>1, <3>1, UpgradeEnds DEF Seen
  <2>2. CASE holder = m /\ m \in Operators
    <3>1. DowngradesTo({}, work, schema.version)
      BY <1>2, <1>3, <2>2 DEF HolderIsOnItsWay
    <3> QED BY <1>1, <1>3, <2>2, <3>1, DowngradeEnds DEF Seen
  <2>3. CASE holder # m
    <3>1. schema' = schema /\ HasItsPlan(m)
      BY <1>3, <2>3 DEF Seen, OthersHaveTheirPlans
    <3>2. m \in Upgraders => schema.version = "0002"
      BY <1>3, <3>1, UpgradePlans DEF HasItsPlan, VersionNames, Consists
    <3> QED BY <1>3, <3>1, <3>2
  <2> QED BY <2>1, <2>2, <2>3 DEF Runs
<1>5. schema.version = "0002" => schema'.version = "0002"
  BY <1>4 DEF Runs
<1>6. cancelled' = cancelled
  <2>1. cancelled = "some" => schema'.version = "0002"
    BY <1>5 DEF NewestIsKept
  <2>2. cancelled = "some" => "releases" \in schema'.objects
    BY <1>4, <2>1, Kinds DEF Whole
  <2> QED BY <1>3, <2>2 DEF Commit
<1>7. MigrationsTypeOK'
  BY <1>4, <1>6 DEF MigrationsTypeOK, Commit
<1>8. SchemaMatchesVersion'
  BY <1>4 DEF SchemaMatchesVersion, Whole
<1>9. HolderIsOnItsWay'
  <2>1. CASE holder = m
    BY <1>1, <2>1 DEF HolderIsOnItsWay, Commit, Runs
  <2>2. CASE holder # m
    <3>1. /\ holder' = holder /\ work' = work /\ schema' = schema
          /\ todo' = todo
          /\ holder \in Runs => state'[holder] = state[holder]
      BY <1>3, <2>2 DEF Commit, MigrationsTypeOK, Seen
    <3> QED BY <3>1 DEF HolderIsOnItsWay, Runs
  <2> QED BY <2>1, <2>2
<1>10. OthersHaveTheirPlans'
  <2>1. ASSUME NEW n \in Runs, state'[n] = "running", holder' # n
        PROVE  HasItsPlan(n)'
    <3>1. state[n] = "running" /\ holder # n /\ todo' = todo
      BY <2>1 DEF Commit, MigrationsTypeOK
    <3>2. HasItsPlan(n)
      BY <3>1 DEF OthersHaveTheirPlans
    <3> QED BY <1>5, <3>1, <3>2 DEF HasItsPlan
  <2> QED BY <2>1 DEF OthersHaveTheirPlans
<1>11. NewestIsKept'
  <2>1. \A n \in Upgraders : state'[n] = "done" => state[n] = "done" \/ n = m
    BY DEF Commit, MigrationsTypeOK, Runs
  <2>2. serving' = serving
    BY DEF Commit
  <2> QED BY <1>4, <1>5, <1>6, <2>1, <2>2 DEF NewestIsKept
<1> QED BY <1>7, <1>8, <1>9, <1>10, <1>11

\* The service changes nothing of the schema.
LEMMA ServiceStep ==
    ASSUME MigrationsInv, StartService \/ CancelSomeRelease
    PROVE  MigrationsInv'
<1> USE DEF MigrationsInv, StartService, CancelSomeRelease
<1>1. /\ UNCHANGED <<schema, work, holder, state, todo>>
      /\ serving' \in BOOLEAN /\ cancelled' \in {"none", "some"}
  BY DEF MigrationsTypeOK
<1>2. MigrationsTypeOK' /\ SchemaMatchesVersion'
  BY <1>1 DEF MigrationsTypeOK, SchemaMatchesVersion
<1>3. HolderIsOnItsWay'
  BY <1>1 DEF HolderIsOnItsWay
<1>4. OthersHaveTheirPlans'
  BY <1>1 DEF OthersHaveTheirPlans, HasItsPlan
<1>5. NewestIsKept'
  BY DEF NewestIsKept
<1> QED BY <1>2, <1>3, <1>4, <1>5

LEMMA MigrationsStep ==
    MigrationsInv /\ [MigrationsNext]_migrationVars => MigrationsInv'
<1> SUFFICES ASSUME MigrationsInv, [MigrationsNext]_migrationVars
             PROVE  MigrationsInv'
  OBVIOUS
<1>1. CASE \E m \in Runs : Plan(m)
  BY <1>1, PlanStep
<1>2. CASE \E m \in Runs : Execute(m)
  BY <1>2, ExecuteStep
<1>3. CASE \E m \in Runs : Fail(m) \/ Crash(m)
  BY <1>3, AbandonStep DEF Fail, Crash
<1>4. CASE \E m \in Runs : Commit(m)
  BY <1>4, CommitStep
<1>5. CASE StartService \/ CancelSomeRelease
  BY <1>5, ServiceStep
<1>6. CASE UNCHANGED migrationVars
  BY <1>6 DEF migrationVars, MigrationsInv, MigrationsTypeOK,
     SchemaMatchesVersion, HolderIsOnItsWay, OthersHaveTheirPlans, HasItsPlan,
     NewestIsKept
<1> QED
  BY <1>1, <1>2, <1>3, <1>4, <1>5, <1>6 DEF MigrationsNext, Proceed

\* The argument of the three theorems.
LEMMA MigrationsInvHolds == MigrationsSpec => []MigrationsInv
<1> QED BY MigrationsStarts, MigrationsStep, PTL DEF MigrationsSpec

\* A run reads the version before it waits, plans on it, and may fail or crash
\* at any statement: the schema committed is nevertheless that of its version,
\* whole (migrations/env.py, one transaction for a run).
THEOREM SchemaStaysWhole == MigrationsSpec => []SchemaMatchesVersion
<1>1. MigrationsInv => SchemaMatchesVersion
  BY DEF MigrationsInv
<1> QED BY <1>1, MigrationsInvHolds, PTL

\* What was started after an upgrade finds the tables and the values it was
\* written for, whoever deploys or downgrades afterwards.
THEOREM ServiceSchemaHolds == MigrationsSpec => []ServiceFindsSchema
<1>1. MigrationsInv => ServiceFindsSchema
  BY DEF MigrationsInv, NewestIsKept, SchemaMatchesVersion, ServiceFindsSchema
<1> QED BY <1>1, MigrationsInvHolds, PTL

\* The refusal of downgrade() of 0002 protects every release that was cancelled,
\* also from a downgrade planned before the upgrade.
THEOREM CancelledReleasesStay == MigrationsSpec => []CancelledReleasesSurvive
<1>1. MigrationsInv => CancelledReleasesSurvive
  BY DEF MigrationsInv, MigrationsTypeOK, CancelledReleasesSurvive
<1> QED BY <1>1, MigrationsInvHolds, PTL
===============================================================================
