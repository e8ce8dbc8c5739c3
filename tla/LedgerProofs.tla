----------------------------- MODULE LedgerProofs -----------------------------
(***************************************************************************)
(* Theorems about Ledger for every number of environments, releases,       *)
(* gates and clients: its types, one release in flight per environment,    *)
(* the stack of promoted versions, and the refinement of VersionStack;     *)
(* then the invariants about a single release and its gates, reasons and   *)
(* journal, for which the steps of the ledger are first reduced to what    *)
(* they do to one release.                                                 *)
(***************************************************************************)
EXTENDS LedgerProperties, SequenceTheorems, FiniteSetTheorems, TLAPS

-------------------------------------------------------------------------------
(* The decisions of Domain.                                                *)

\* evaluate_gates() always answers with one of four statuses, and one that
\* require_transition() accepts from "evaluating" unless it is that status.
LEMMA EvaluateGatesType ==
    ASSUME NEW required, NEW outcome, NEW approval
    PROVE  /\ EvaluateGates(required, outcome, approval)
                  \in {"evaluating", "blocked", "awaiting_approval", "approved"}
           /\ EvaluateGates(required, outcome, approval) # "evaluating" =>
                  MayMove("evaluating",
                          EvaluateGates(required, outcome, approval))
BY DEF EvaluateGates, MayMove, Allowed

\* gate_reason() gives a reason of the ledger for a policy over its gates.
LEMMA GateReasonType ==
    ASSUME NEW required \in SUBSET Gates, NEW outcome, NEW approval
    PROVE  GateReason(required, outcome, approval) \in Reasons
BY DEF GateReason, Reason, Reasons, FailedGates, MissingGates

\* canary_reason() gives a reason of the ledger for every observation.
LEMMA CanaryReasonType ==
    ASSUME NEW o, NEW policy
    PROVE  CanaryReason(o, policy) \in Reasons
BY DEF CanaryReason, Reason, Reasons, ExceededLimits

\* The reasons that name nothing.
LEMMA PlainReasonType ==
    ASSUME NEW kind \in {"none", "approval_received", "canary_started",
                         "manual_rollback", "cancelled_by_operator", "timeout"}
    PROVE  Reason(kind, {}) \in Reasons
BY DEF Reason, Reasons

-------------------------------------------------------------------------------
(* The journal.                                                            *)

\* An event without a change of status is an event of the journal.
LEMMA NoteType ==
    ASSUME NEW type \in {"release.created", "release.gates_evaluated",
                         "gate.reported", "canary.observed", "canary.timeout"},
           NEW actor \in Actors, NEW why \in Reasons
    PROVE  Note(type, actor, why) \in Events
BY DEF Note, Event, Events

\* So is a change of status.
LEMMA StatusChangedType ==
    ASSUME NEW from \in ReleaseStatus, NEW to \in ReleaseStatus,
           NEW actor \in Actors, NEW why \in Reasons
    PROVE  StatusChanged(from, to, actor, why) \in Events
BY DEF StatusChanged, Event, Events

\* add_event() keeps the journal a table of events.
LEMMA LogType ==
    ASSUME journal \in [Releases -> Seq(Events)],
           NEW r \in Releases, NEW events \in Seq(Events),
           Log(r, events)
    PROVE  journal' \in [Releases -> Seq(Events)]
<1>1. journal[r] \o events \in Seq(Events)
  BY ConcatProperties
<1> QED
  BY <1>1 DEF Log

\* transition() writes a status, a reason and events of the ledger.
LEMMA TransitionType ==
    ASSUME TypeOK,
           NEW r \in Releases,
           NEW from \in ReleaseStatus, NEW to \in ReleaseStatus,
           NEW actor \in Actors, NEW why \in Reasons,
           NEW before \in Seq(Events), NEW after \in Seq(Events),
           Transition(r, from, to, actor, why, before, after)
    PROVE  /\ status' \in [Releases -> ReleaseStatus \cup {"absent"}]
           /\ reason' \in [Releases -> Reasons]
           /\ journal' \in [Releases -> Seq(Events)]
           /\ status' = [status EXCEPT ![r] = to]
<1> DEFINE change == <<StatusChanged(from, to, actor, why)>>
<1>1. change \in Seq(Events)
  BY StatusChangedType
<1>2. before \o change \o after \in Seq(Events)
  BY <1>1, ConcatProperties
<1>3. Log(r, before \o change \o after)
  BY DEF Transition
<1>4. journal' \in [Releases -> Seq(Events)]
  BY <1>2, <1>3, LogType DEF TypeOK
<1> QED
  BY <1>4 DEF Transition, TypeOK

-------------------------------------------------------------------------------
(* TypeOK is inductive.                                                    *)

\* What a row that exists gives the proofs.
LEMMA RowOfRelease ==
    ASSUME TypeOK, NEW r \in Releases, Exists(r)
    PROVE  /\ envOf[r] \in Envs
           /\ status[r] \in ReleaseStatus
           /\ Policy[envOf[r]] \in Policies
           /\ Policy[envOf[r]].required_gates \in SUBSET Gates
BY LedgerAssumption DEF TypeOK, Exists, Policies

\* The first state has the types of the tables.
LEMMA InitType == LedgerInit => TypeOK
<1> SUFFICES ASSUME LedgerInit PROVE TypeOK
  OBVIOUS
<1>1. NoReason \in Reasons
  BY PlainReasonType DEF NoReason
<1>2. journal \in [Releases -> Seq(Events)]
  BY EmptySeq DEF LedgerInit
<1> QED
  BY <1>1, <1>2 DEF LedgerInit, EmptyColumns, TypeOK, Exists, NoRelease

\* create_release() keeps the types.
LEMMA CreateType ==
    ASSUME TypeOK, NEW r \in Releases, NEW e \in Envs, NEW k \in Keys,
           NEW a \in Artifacts, NEW who \in Admins, Create(r, e, k, a, who)
    PROVE  TypeOK'
<1> DEFINE created == <<Note("release.created", who, NoReason)>>
<1>1. created \in Seq(Events)
  BY NoteType, PlainReasonType DEF Actors, NoReason
<1>2. Log(r, created)
  BY DEF Create, CreateCommitted
<1>3. journal' \in [Releases -> Seq(Events)]
  <2> HIDE DEF created
  <2> QED
    BY <1>1, <1>2, LogType DEF TypeOK
<1> QED
  BY <1>3 DEF TypeOK, Create, CreateCommitted, Exists, gateTables,
              ReleaseStatus

\* receive_gate_webhook() keeps the types.
LEMMA WebhookType ==
    ASSUME TypeOK, NEW w \in Webhooks, ReceiveWebhook(w)
    PROVE  TypeOK'
<1> DEFINE r == w.release
           e == envOf[r]
           outcome == [results[r] EXCEPT ![w.gate] = w.status]
           policy == Policy[e]
           target == EvaluateGates(policy.required_gates, outcome,
                                   policy.requires_approval)
           why == GateReason(policy.required_gates, outcome,
                             policy.requires_approval)
           reported == <<Note("gate.reported", "ci-webhook", NoReason)>>
           evaluated == reported \o
               <<Note("release.gates_evaluated", "policy-engine", why)>>
<1>1. r \in Releases /\ Exists(r) /\ WebhookCommitted(w, e, outcome)
  BY DEF ReceiveWebhook, Webhooks
<1>2. e \in Envs /\ policy.required_gates \in SUBSET Gates
  BY <1>1, RowOfRelease
<1>3. why \in Reasons
  BY <1>2, GateReasonType
<1>4. evaluated \in Seq(Events)
  <2>1. Note("gate.reported", "ci-webhook", NoReason) \in Events
    BY NoteType, PlainReasonType DEF Actors, NoReason
  <2>2. Note("release.gates_evaluated", "policy-engine", why) \in Events
    BY <1>3, NoteType DEF Actors
  <2> QED
    BY <2>1, <2>2
<1>5. /\ status' \in [Releases -> ReleaseStatus \cup {"absent"}]
      /\ reason' \in [Releases -> Reasons]
      /\ journal' \in [Releases -> Seq(Events)]
      /\ \A s \in Releases : Exists(s)' => Exists(s)
  <2>1. GatesRecalculated(r, e, outcome, reported)
    BY <1>1 DEF WebhookCommitted
  <2>2. CASE target # "evaluating"
    <3>1. Transition(r, "evaluating", target, "policy-engine", why,
                     evaluated, <<>>)
      BY <2>1, <2>2 DEF GatesRecalculated
    <3>2. target \in ReleaseStatus /\ "evaluating" \in ReleaseStatus
      BY EvaluateGatesType DEF ReleaseStatus
    <3>3. <<>> \in Seq(Events) /\ "policy-engine" \in Actors
      BY EmptySeq DEF Actors
    <3>4. /\ status' \in [Releases -> ReleaseStatus \cup {"absent"}]
          /\ reason' \in [Releases -> Reasons]
          /\ journal' \in [Releases -> Seq(Events)]
          /\ status' = [status EXCEPT ![r] = target]
      BY <1>1, <1>3, <1>4, <3>1, <3>2, <3>3, TransitionType
    <3> QED
      BY <1>1, <3>4 DEF TypeOK, Exists
  <2>3. CASE target = "evaluating"
    <3>1. /\ Log(r, evaluated)
          /\ reason' = [reason EXCEPT ![r] = why]
          /\ status' = status
      BY <2>1, <2>3 DEF GatesRecalculated
    <3>2. journal' \in [Releases -> Seq(Events)]
      BY <1>1, <1>4, <3>1, LogType DEF TypeOK
    <3> QED
      BY <1>1, <1>3, <3>1, <3>2 DEF TypeOK, Exists
  <2> QED
    BY <2>2, <2>3
<1>6. active' \in [Envs -> Releases \cup {NoRelease}]
  BY <1>1 DEF WebhookCommitted, GatesRecalculated, TypeOK
<1>7. /\ results' \in [Releases -> [Gates -> GateStatus \cup {"missing"}]]
      /\ details' \in [Releases -> [Gates -> Details \cup {Null}]]
      /\ receipts' \in SUBSET Webhooks
  BY <1>1 DEF WebhookCommitted, TypeOK, Webhooks
<1> QED
  BY <1>1, <1>5, <1>6, <1>7 DEF WebhookCommitted, TypeOK, Exists, identity

\* approve_release() keeps the types.
LEMMA ApproveType ==
    ASSUME TypeOK, NEW r \in Releases, NEW who \in Approvers,
           Approve(r, who)
    PROVE  TypeOK'
<1>1. Exists(r) /\ ApproveCommitted(r, who)
  BY DEF Approve, Exists
<1>2. Transition(r, "awaiting_approval", "approved", who,
                 Reason("approval_received", {}), <<>>, <<>>)
  BY <1>1 DEF ApproveCommitted
<1>3. "awaiting_approval" \in ReleaseStatus /\ "approved" \in ReleaseStatus
  BY <1>1 DEF ReleaseStatus, TypeOK, Exists
<1>4. who \in Actors /\ <<>> \in Seq(Events)
  BY EmptySeq DEF Actors
<1>5. /\ status' \in [Releases -> ReleaseStatus \cup {"absent"}]
      /\ reason' \in [Releases -> Reasons]
      /\ journal' \in [Releases -> Seq(Events)]
      /\ status' = [status EXCEPT ![r] = "approved"]
  BY <1>2, <1>3, <1>4, PlainReasonType, TransitionType
<1> QED
  BY <1>1, <1>5, RowOfRelease, LedgerAssumption
  DEF ApproveCommitted, TypeOK, Exists, identity, pointers, gateTables,
      NoRelease

\* cancel_release() keeps the types.
LEMMA CancelType ==
    ASSUME TypeOK, NEW r \in Releases, NEW who \in Admins,
           Cancel(r, who)
    PROVE  TypeOK'
<1>1. Exists(r) /\ CancelCommitted(r, envOf[r], status[r], who)
  BY DEF Cancel
<1>2. Transition(r, status[r], "cancelled", who,
                 Reason("cancelled_by_operator", {}), <<>>, <<>>)
  BY <1>1 DEF CancelCommitted
<1>3. status[r] \in ReleaseStatus /\ "cancelled" \in ReleaseStatus
  BY <1>1 DEF ReleaseStatus, TypeOK, Exists
<1>4. who \in Actors /\ <<>> \in Seq(Events)
  BY EmptySeq DEF Actors
<1>5. /\ status' \in [Releases -> ReleaseStatus \cup {"absent"}]
      /\ reason' \in [Releases -> Reasons]
      /\ journal' \in [Releases -> Seq(Events)]
      /\ status' = [status EXCEPT ![r] = "cancelled"]
  BY <1>2, <1>3, <1>4, PlainReasonType, TransitionType
<1> QED
  BY <1>1, <1>5, RowOfRelease, LedgerAssumption
  DEF CancelCommitted, TypeOK, Exists, identity, pointers, gateTables,
      NoRelease

\* deploy_release() keeps the types.
LEMMA DeployType ==
    ASSUME TypeOK, NEW r \in Releases, NEW who \in Admins,
           NEW percent \in CanaryPercents, Deploy(r, percent, who)
    PROVE  TypeOK'
<1>1. Exists(r) /\ DeployCommitted(r, percent, who)
  BY DEF Deploy
<1>2. Transition(r, "approved", "canary", who, Reason("canary_started", {}),
                <<>>, <<>>)
  BY <1>1 DEF DeployCommitted
<1>3. "approved" \in ReleaseStatus /\ "canary" \in ReleaseStatus
  BY <1>1 DEF ReleaseStatus, TypeOK, Exists
<1>4. who \in Actors /\ <<>> \in Seq(Events)
  BY EmptySeq DEF Actors
<1>5. /\ status' \in [Releases -> ReleaseStatus \cup {"absent"}]
      /\ reason' \in [Releases -> Reasons]
      /\ journal' \in [Releases -> Seq(Events)]
      /\ status' = [status EXCEPT ![r] = "canary"]
  BY <1>2, <1>3, <1>4, PlainReasonType, TransitionType
<1>6. percent \in 0..100
  BY LedgerAssumption
<1>7. traffic' \in [Releases -> 0..100]
  BY <1>1, <1>6 DEF DeployCommitted, TypeOK
<1> QED
  BY <1>1, <1>5, <1>7
  DEF DeployCommitted, TypeOK, Exists, identity, pointers, gateTables

\* rollback_release() keeps the types.
LEMMA RollbackType ==
    ASSUME TypeOK, NEW r \in Releases, NEW who \in Admins,
           Rollback(r, who)
    PROVE  TypeOK'
<1>1. Exists(r) /\ RollbackCommitted(r, envOf[r], status[r], who)
  BY DEF Rollback
<1>2. Transition(r, status[r], "rolled_back", who,
                 Reason("manual_rollback", {}), <<>>, <<>>)
  BY <1>1 DEF RollbackCommitted
<1>3. status[r] \in ReleaseStatus /\ "rolled_back" \in ReleaseStatus
  BY <1>1 DEF ReleaseStatus, TypeOK, Exists
<1>4. who \in Actors /\ <<>> \in Seq(Events)
  BY EmptySeq DEF Actors
<1>5. /\ status' \in [Releases -> ReleaseStatus \cup {"absent"}]
      /\ reason' \in [Releases -> Reasons]
      /\ journal' \in [Releases -> Seq(Events)]
      /\ status' = [status EXCEPT ![r] = "rolled_back"]
  BY <1>2, <1>3, <1>4, PlainReasonType, TransitionType
<1>6. /\ traffic' \in [Releases -> 0..100]
      /\ current' \in [Envs -> Releases \cup {NoRelease}]
      /\ active' \in [Envs -> Releases \cup {NoRelease}]
  BY <1>1, RowOfRelease DEF RollbackCommitted, TypeOK
<1> QED
  BY <1>1, <1>5, <1>6
  DEF RollbackCommitted, TypeOK, Exists, identity, gateTables

\* observe_canary() keeps the types.
LEMMA ObserveType ==
    ASSUME TypeOK, NEW r \in Releases, NEW o \in Observations,
           NEW who \in Observers, Observe(r, o, who)
    PROVE  TypeOK'
<1> DEFINE e == envOf[r]
           why == CanaryReason(o, Policy[e])
           decision == EvaluateCanary(o, Policy[e])
           observed == <<Note("canary.observed", who, why)>>
<1>1. Exists(r) /\ ObserveCommitted(r, e, o, who)
  BY DEF Observe, Exists
<1>2. e \in Envs
  BY <1>1, RowOfRelease
<1>3. why \in Reasons /\ who \in Actors
  BY CanaryReasonType DEF Actors
<1>4. observed \in Seq(Events) /\ <<>> \in Seq(Events)
  BY <1>3, NoteType, EmptySeq
<1>5. {"canary", "succeeded", "rolled_back"} \subseteq ReleaseStatus
  BY DEF ReleaseStatus
<1>6. decision \in {"promote", "rollback", "continue"}
  BY DEF EvaluateCanary
<1>7. CASE decision = "promote"
  <2>1. Transition(r, "canary", "succeeded", who, why, observed, <<>>)
    BY <1>1, <1>7 DEF ObserveCommitted
  <2> HIDE DEF why, observed
  <2>2. /\ status' \in [Releases -> ReleaseStatus \cup {"absent"}]
        /\ reason' \in [Releases -> Reasons]
        /\ journal' \in [Releases -> Seq(Events)]
        /\ status' = [status EXCEPT ![r] = "succeeded"]
    BY <1>3, <1>4, <1>5, <2>1, TransitionType
  <2> QED
    <3>1. /\ traffic' = [traffic EXCEPT ![r] = 100]
          /\ current' = [current EXCEPT ![e] = r]
          /\ active' = [active EXCEPT ![e] = NoRelease]
          /\ UNCHANGED <<identity, approvedBy, expired, gateTables>>
      BY <1>1, <1>7 DEF ObserveCommitted
    <3>2. traffic' \in [Releases -> 0..100]
      BY <3>1 DEF TypeOK
    <3>3. /\ current' \in [Envs -> Releases \cup {NoRelease}]
          /\ active' \in [Envs -> Releases \cup {NoRelease}]
      BY <3>1 DEF TypeOK
    <3> QED
      BY <1>1, <2>2, <3>1, <3>2, <3>3
      DEF TypeOK, Exists, identity, gateTables
<1>8. CASE decision = "rollback"
  <2>1. Transition(r, "canary", "rolled_back", who, why, observed, <<>>)
    BY <1>1, <1>8 DEF ObserveCommitted
  <2> HIDE DEF why, observed
  <2>2. /\ status' \in [Releases -> ReleaseStatus \cup {"absent"}]
        /\ reason' \in [Releases -> Reasons]
        /\ journal' \in [Releases -> Seq(Events)]
        /\ status' = [status EXCEPT ![r] = "rolled_back"]
    BY <1>3, <1>4, <1>5, <2>1, TransitionType
  <2> QED
    <3>1. /\ traffic' = [traffic EXCEPT ![r] = 0]
          /\ current' = [current EXCEPT ![e] = previous[r]]
          /\ active' = [active EXCEPT ![e] = NoRelease]
          /\ UNCHANGED <<identity, approvedBy, expired, gateTables>>
      BY <1>1, <1>8 DEF ObserveCommitted
    <3>2. traffic' \in [Releases -> 0..100]
      BY <3>1 DEF TypeOK
    <3>3. /\ current' \in [Envs -> Releases \cup {NoRelease}]
          /\ active' \in [Envs -> Releases \cup {NoRelease}]
      BY <3>1 DEF TypeOK
    <3> QED
      BY <1>1, <2>2, <3>1, <3>2, <3>3
      DEF TypeOK, Exists, identity, gateTables
<1>9. CASE decision = "continue"
  <2>1. Log(r, observed) /\ reason' = [reason EXCEPT ![r] = why]
    BY <1>1, <1>9 DEF ObserveCommitted
  <2> HIDE DEF why, observed
  <2>2. journal' \in [Releases -> Seq(Events)]
    BY <1>4, <2>1, LogType DEF TypeOK
  <2> QED
    BY <1>1, <1>3, <1>9, <2>1, <2>2
    DEF ObserveCommitted, TypeOK, Exists, identity, pointers, gateTables
<1> QED
  BY <1>6, <1>7, <1>8, <1>9

\* A batch of the reconciler keeps the types.
LEMMA ReconcileType ==
    ASSUME TypeOK, NEW batch \in SUBSET Due, Reconcile(batch)
    PROVE  TypeOK'
<1> DEFINE owned == Owned(batch)
           why == Reason("timeout", {})
           timedOut ==
               <<StatusChanged("canary", "rolled_back", "reconciler", why),
                 Note("canary.timeout", "reconciler", NoReason)>>
<1>1. ReconcileCommitted(owned) /\ owned \subseteq Releases
  BY DEF Reconcile, Owned, Due
<1>2. why \in Reasons /\ NoReason \in Reasons /\ "reconciler" \in Actors
  BY PlainReasonType DEF NoReason, Actors
<1>3. timedOut \in Seq(Events)
  <2>1. StatusChanged("canary", "rolled_back", "reconciler", why) \in Events
    BY <1>2, StatusChangedType DEF ReleaseStatus
  <2>2. Note("canary.timeout", "reconciler", NoReason) \in Events
    BY <1>2, NoteType
  <2> QED
    BY <2>1, <2>2
<1>4. journal' \in [Releases -> Seq(Events)]
  <2>1. journal' = [r \in Releases |-> IF r \in owned
                                       THEN journal[r] \o timedOut
                                       ELSE journal[r]]
    BY <1>1 DEF ReconcileCommitted
  <2>2. \A r \in Releases : journal[r] \in Seq(Events)
    BY DEF TypeOK
  <2> HIDE DEF timedOut, owned
  <2>3. \A r \in Releases : journal[r] \o timedOut \in Seq(Events)
    BY <1>3, <2>2, ConcatProperties
  <2> QED
    BY <2>1, <2>2, <2>3
<1>5. /\ status' \in [Releases -> ReleaseStatus \cup {"absent"}]
      /\ \A r \in Releases : Exists(r)' => Exists(r)
  BY <1>1 DEF ReconcileCommitted, TypeOK, ReleaseStatus, Exists, Reconcile,
              Due, Owned
<1>6. /\ reason' \in [Releases -> Reasons]
      /\ traffic' \in [Releases -> 0..100]
  BY <1>1, <1>2 DEF ReconcileCommitted, TypeOK
<1>7. /\ active' \in [Envs -> Releases \cup {NoRelease}]
      /\ current' \in [Envs -> Releases \cup {NoRelease}]
  BY <1>1 DEF ReconcileCommitted, TypeOK
<1> QED
  BY <1>1, <1>4, <1>5, <1>6, <1>7
  DEF ReconcileCommitted, TypeOK, identity, gateTables, Exists

\* So does the clock.
LEMMA ExpireType ==
    ASSUME TypeOK, NEW r \in Releases, Expire(r)
    PROVE  TypeOK'
BY DEF TypeOK, Expire, identity, pointers, gateTables, Exists

\* TypeOK is inductive: every handler keeps it.
LEMMA TypeStep ==
    ASSUME TypeOK, [LedgerNext]_ledgerVars
    PROVE  TypeOK'
<1>1. CASE UNCHANGED ledgerVars
  BY <1>1 DEF TypeOK, ledgerVars, identity, pointers, gateTables, Exists
<1>2. CASE LedgerNext
  BY <1>2, CreateType, WebhookType, ApproveType, CancelType, DeployType,
     ObserveType, RollbackType, ReconcileType, ExpireType
  DEF LedgerNext, ClientNext, ReconcilerNext
<1> QED
  BY <1>1, <1>2

\* TypeOK is an invariant of every instance of the ledger: no sequence of
\* requests puts a value of the wrong kind in a column, and every release has
\* an environment.
THEOREM TypeCorrect == LedgerSpec => []TypeOK
BY InitType, TypeStep, PTL DEF LedgerSpec

-------------------------------------------------------------------------------
(* Ownership and Lineage: an environment is held by the one release in     *)
(* flight in it, and the pointers to the versions form a stack.  The steps *)
(* of the ledger are first reduced to what they do to the columns the two  *)
(* invariants read.                                                        *)


\* Releases are created in the order of their numbers.
Prefix == \A r, s \in Releases : s < r /\ Exists(r) => Exists(s)

\* A release in flight is newer than every version of its environment.
OpenIsNewest ==
    \A r \in Releases : status[r] \in OpenStatus =>
        \A s \in Succeeded(envOf[r]) : s < r

\* Lineage alone is not inductive: that a promoted release becomes the newest
\* version needs OpenIsNewest, that a new one is newer than all needs Prefix,
\* and that a rollback finds no other release in flight needs Ownership.
LineageInv == TypeOK /\ Ownership /\ Prefix /\ OpenIsNewest /\ Lineage

shape == <<status, envOf, previous, active, current>>

-------------------------------------------------------------------------------
(* What a step does to `shape`.                                            *)

Starts(r, e) ==
    /\ IsNext(r)
    /\ active[e] = NoRelease
    /\ status' = [status EXCEPT ![r] = "evaluating"]
    /\ envOf' = [envOf EXCEPT ![r] = e]
    /\ previous' = [previous EXCEPT ![r] = current[e]]
    /\ active' = [active EXCEPT ![e] = r]
    /\ UNCHANGED current

StaysOpen(r) ==
    /\ status[r] \in OpenStatus
    /\ \E st \in OpenStatus : status' = [status EXCEPT ![r] = st]
    /\ UNCHANGED <<envOf, previous, active, current>>

\* The release ends before it had a canary.
Closes(r) ==
    /\ status[r] \in OpenStatus
    /\ \E st \in {"blocked", "cancelled"} : status' = [status EXCEPT ![r] = st]
    /\ active' = [active EXCEPT ![envOf[r]] = NoRelease]
    /\ UNCHANGED <<envOf, previous, current>>

Promotes(r) ==
    /\ status[r] \in OpenStatus
    /\ status' = [status EXCEPT ![r] = "succeeded"]
    /\ current' = [current EXCEPT ![envOf[r]] = r]
    /\ active' = [active EXCEPT ![envOf[r]] = NoRelease]
    /\ UNCHANGED <<envOf, previous>>

\* The canary or the current release r is rolled back.
Reverts(r) ==
    /\ \/ status[r] \in OpenStatus
       \/ /\ status[r] = "succeeded"
          /\ current[envOf[r]] = r
          /\ active[envOf[r]] = NoRelease
    /\ status' = [status EXCEPT ![r] = "rolled_back"]
    /\ current' = [current EXCEPT ![envOf[r]] = previous[r]]
    /\ active' = [active EXCEPT ![envOf[r]] = NoRelease]
    /\ UNCHANGED <<envOf, previous>>

\* Several canaries are rolled back at once.
RevertsAll(owned) ==
    /\ \A r \in owned : status[r] \in OpenStatus
    /\ status' = [r \in Releases |->
                      IF r \in owned THEN "rolled_back" ELSE status[r]]
    /\ current' = [e \in Envs |-> IF active[e] \in owned
                                  THEN previous[active[e]] ELSE current[e]]
    /\ active' = [e \in Envs |-> IF active[e] \in owned
                                 THEN NoRelease ELSE active[e]]
    /\ UNCHANGED <<envOf, previous>>

ShapeStep ==
    \/ UNCHANGED shape
    \/ \E r \in Releases, e \in Envs : Starts(r, e)
    \/ \E r \in Releases :
           StaysOpen(r) \/ Closes(r) \/ Promotes(r) \/ Reverts(r)
    \/ \E owned \in SUBSET Releases : RevertsAll(owned)

\* Every step of the ledger is one of these.
LEMMA EveryStepHasAShape ==
    ASSUME TypeOK, Ownership, [LedgerNext]_ledgerVars
    PROVE  ShapeStep
<1>1. CASE UNCHANGED ledgerVars
  BY <1>1 DEF ShapeStep, shape, ledgerVars, identity, pointers
<1>2. ASSUME NEW r \in Releases, NEW e \in Envs, NEW k \in Keys,
             NEW a \in Artifacts, NEW who \in Admins, Create(r, e, k, a, who)
      PROVE  ShapeStep
  <2>1. Starts(r, e)
    BY <1>2 DEF Create, CreateCommitted, Starts
  <2> QED
    BY <2>1 DEF ShapeStep
<1>3. ASSUME NEW w \in Webhooks, ReceiveWebhook(w) PROVE ShapeStep
  <2> DEFINE r == w.release
             e == envOf[r]
             outcome == [results[r] EXCEPT ![w.gate] = w.status]
             target == EvaluateGates(Policy[e].required_gates, outcome,
                                     Policy[e].requires_approval)
             reported == <<Note("gate.reported", "ci-webhook", NoReason)>>
  <2>1. r \in Releases /\ status[r] = "evaluating"
    BY <1>3 DEF ReceiveWebhook, Webhooks
  <2>2. /\ GatesRecalculated(r, e, outcome, reported)
        /\ UNCHANGED <<envOf, previous, current>>
    BY <1>3 DEF ReceiveWebhook, WebhookCommitted, identity
  <2>3. target \in {"evaluating", "blocked", "awaiting_approval", "approved"}
    BY EvaluateGatesType
  <2>4. /\ target # "evaluating" => status' = [status EXCEPT ![r] = target]
        /\ target = "evaluating" => status' = status
        /\ active' = IF target = "blocked"
                     THEN [active EXCEPT ![e] = NoRelease] ELSE active
    BY <2>2 DEF GatesRecalculated, Transition
  <2> HIDE DEF target
  <2>5. CASE target = "evaluating"
    BY <2>2, <2>4, <2>5 DEF ShapeStep, shape
  <2>6. CASE target = "blocked"
    <3>1. Closes(r)
      BY <2>1, <2>2, <2>4, <2>6 DEF Closes, OpenStatus
    <3> QED
      BY <2>1, <3>1 DEF ShapeStep
  <2>7. CASE target \in {"awaiting_approval", "approved"}
    <3>1. StaysOpen(r)
      BY <2>1, <2>2, <2>4, <2>7 DEF StaysOpen, OpenStatus
    <3> QED
      BY <2>1, <3>1 DEF ShapeStep
  <2> QED
    BY <2>3, <2>5, <2>6, <2>7
<1>4. ASSUME NEW r \in Releases, NEW who \in Approvers, Approve(r, who)
      PROVE  ShapeStep
  <2>1. StaysOpen(r)
    BY <1>4 DEF Approve, ApproveCommitted, Transition, StaysOpen, OpenStatus,
                identity, pointers
  <2> QED
    BY <2>1 DEF ShapeStep
<1>5. ASSUME NEW r \in Releases, NEW who \in Admins, Cancel(r, who)
      PROVE  ShapeStep
  <2>1. status[r] \in OpenStatus
    BY <1>5 DEF Cancel, MayCancel, MayMove, Allowed, OpenStatus
  <2>2. Closes(r)
    BY <1>5, <2>1 DEF Cancel, CancelCommitted, Transition, Closes, identity
  <2> QED
    BY <2>2 DEF ShapeStep
<1>6. ASSUME NEW r \in Releases, NEW p \in CanaryPercents, NEW who \in Admins,
             Deploy(r, p, who)
      PROVE  ShapeStep
  <2>1. status[r] \in OpenStatus
    BY <1>6 DEF Deploy, MayDeploy, MayMove, Allowed, OpenStatus
  <2>2. StaysOpen(r)
    BY <1>6, <2>1 DEF Deploy, DeployCommitted, Transition, StaysOpen,
                      OpenStatus, identity, pointers
  <2> QED
    BY <2>2 DEF ShapeStep
<1>7. ASSUME NEW r \in Releases, NEW o \in Observations, NEW who \in Observers,
             Observe(r, o, who)
      PROVE  ShapeStep
  <2>1. status[r] = "canary" /\ ObserveCommitted(r, envOf[r], o, who)
    BY <1>7 DEF Observe
  <2>2. Promotes(r) \/ Reverts(r) \/ UNCHANGED shape
    BY <2>1 DEF ObserveCommitted, Transition, Promotes, Reverts, shape,
                OpenStatus, identity, pointers
  <2> QED
    BY <2>2 DEF ShapeStep
<1>8. ASSUME NEW r \in Releases, NEW who \in Admins, Rollback(r, who)
      PROVE  ShapeStep
  <2>1. status[r] \in {"canary", "succeeded"}
    BY <1>8 DEF Rollback, MayRollBack, MayMove, Allowed
  <2>2. Reverts(r)
    BY <1>8, <2>1 DEF Rollback, RollbackCommitted, MayRollBack, Transition,
                      Reverts, OpenStatus, identity
  <2> QED
    BY <2>2 DEF ShapeStep
<1>9. ASSUME NEW batch \in SUBSET Due, Reconcile(batch) PROVE ShapeStep
  <2>1. Owned(batch) \in SUBSET Releases
    BY DEF Owned, Due
  <2>2. \A r \in Owned(batch) : status[r] \in OpenStatus
    BY DEF Owned, Due, OpenStatus
  <2>3. RevertsAll(Owned(batch))
    BY <1>9, <2>2 DEF Reconcile, ReconcileCommitted, RevertsAll, identity
  <2> QED
    BY <2>1, <2>3 DEF ShapeStep
<1>10. ASSUME NEW r \in Releases, Expire(r) PROVE ShapeStep
  BY <1>10 DEF Expire, ShapeStep, shape, identity, pointers
<1> QED
  BY <1>1, <1>2, <1>3, <1>4, <1>5, <1>6, <1>7, <1>8, <1>9, <1>10
  DEF LedgerNext, ClientNext, ReconcilerNext

-------------------------------------------------------------------------------
(* Ownership.                                                              *)

\* A release in flight is a row, and its environment one of Envs.
LEMMA OpenRow ==
    ASSUME TypeOK, NEW r \in Releases,
           status[r] \in OpenStatus \cup {"succeeded"}
    PROVE  Exists(r) /\ envOf[r] \in Envs
BY DEF TypeOK, Exists, OpenStatus

\* Releases are positive numbers, NULL is not one of them.
LEMMA ReleaseNumbers ==
    /\ \A r \in Releases : r \in Nat /\ r # NoRelease
    /\ NoRelease = 0
BY LedgerAssumption DEF Releases, NoRelease

\* No step leaves an environment without its release in flight, or with a
\* release that has ended.
LEMMA OwnershipStep ==
    ASSUME TypeOK, Ownership, ShapeStep
    PROVE  Ownership'
<1> USE DEF Ownership
<1>1. CASE UNCHANGED shape
  BY <1>1 DEF shape
<1>2. ASSUME NEW r \in Releases, NEW e \in Envs, Starts(r, e)
      PROVE  Ownership'
  <2>1. status[r] \notin OpenStatus /\ ~Exists(r)
    BY <1>2 DEF Starts, IsNext, Exists, OpenStatus
  <2>2. \A f \in Envs : active[f] # r
    BY <2>1
  <2>3. r # NoRelease
    BY ReleaseNumbers
  <2> QED
    BY <1>2, <2>1, <2>2, <2>3, ReleaseNumbers DEF Starts, TypeOK, OpenStatus
<1>3. ASSUME NEW r \in Releases, StaysOpen(r) PROVE Ownership'
  BY <1>3 DEF StaysOpen, TypeOK
<1>4. ASSUME NEW r \in Releases, Closes(r) PROVE Ownership'
  <2>1. envOf[r] \in Envs /\ active[envOf[r]] = r
    BY <1>4, OpenRow DEF Closes
  <2> QED
    BY <1>4, <2>1, ReleaseNumbers DEF Closes, TypeOK, OpenStatus
<1>5. ASSUME NEW r \in Releases, Promotes(r) PROVE Ownership'
  <2>1. envOf[r] \in Envs /\ active[envOf[r]] = r
    BY <1>5, OpenRow DEF Promotes
  <2> QED
    BY <1>5, <2>1, ReleaseNumbers DEF Promotes, TypeOK, OpenStatus
<1>6. ASSUME NEW r \in Releases, Reverts(r) PROVE Ownership'
  <2>1. /\ envOf[r] \in Envs
        /\ active[envOf[r]] \in {r, NoRelease}
    BY <1>6, OpenRow DEF Reverts
  <2> QED
    BY <1>6, <2>1, ReleaseNumbers DEF Reverts, TypeOK, OpenStatus
<1>7. ASSUME NEW owned \in SUBSET Releases, RevertsAll(owned)
      PROVE  Ownership'
  <2> SUFFICES ASSUME NEW r \in Releases, NEW e \in Envs
               PROVE  (active'[e] = r)
                          <=> (status'[r] \in OpenStatus /\ envOf'[r] = e)
    OBVIOUS
  <2>1. "rolled_back" \notin OpenStatus
    BY DEF OpenStatus
  <2>2. CASE r \in owned
    BY <1>7, <2>1, <2>2, ReleaseNumbers DEF RevertsAll, TypeOK
  <2>3. CASE r \notin owned
    BY <1>7, <2>3, ReleaseNumbers DEF RevertsAll, TypeOK
  <2> QED
    BY <2>2, <2>3
<1> QED
  BY <1>1, <1>2, <1>3, <1>4, <1>5, <1>6, <1>7 DEF ShapeStep

-------------------------------------------------------------------------------
(* Versions.                                                               *)

\* A set of releases has one newest member.
LEMMA NewestIsUnique ==
    ASSUME NEW S \in SUBSET Releases, NEW x, NEW y,
           IsNewest(x, S), IsNewest(y, S)
    PROVE  x = y
BY ReleaseNumbers DEF IsNewest

\* A release in flight goes back to what its environment runs now.
LEMMA OpenGoesBackToCurrent ==
    ASSUME LineageInv, NEW r \in Releases, status[r] \in OpenStatus
    PROVE  previous[r] = current[envOf[r]]
<1> DEFINE e == envOf[r]
           S == {s \in Succeeded(e) : s < r}
<1>1. e \in Envs
  BY OpenRow DEF LineageInv
<1>2. S = Succeeded(e) /\ S \in SUBSET Releases
  BY DEF LineageInv, OpenIsNewest, Succeeded
<1>3. IsNewest(previous[r], S) /\ IsNewest(current[e], Succeeded(e))
  BY <1>1 DEF LineageInv, Lineage
<1> HIDE DEF S
<1> QED
  BY <1>2, <1>3, NewestIsUnique

\* New releases keep to the order of their numbers.
LEMMA PrefixStep ==
    ASSUME TypeOK, Prefix, ShapeStep
    PROVE  Prefix'
<1> USE DEF Prefix, Exists
<1>1. CASE UNCHANGED shape
  BY <1>1 DEF shape
<1>2. ASSUME NEW r \in Releases, NEW e \in Envs, Starts(r, e) PROVE Prefix'
  BY <1>2 DEF Starts, IsNext, TypeOK
<1>3. ASSUME NEW r \in Releases,
             StaysOpen(r) \/ Closes(r) \/ Promotes(r) \/ Reverts(r)
      PROVE  Prefix'
  <2>1. /\ status[r] # "absent"
        /\ \E st \in ReleaseStatus : status' = [status EXCEPT ![r] = st]
    BY <1>3 DEF StaysOpen, Closes, Promotes, Reverts, OpenStatus,
                ReleaseStatus
  <2>2. \A s \in Releases : (status'[s] # "absent") <=> (status[s] # "absent")
    BY <2>1 DEF TypeOK, ReleaseStatus
  <2> QED
    BY <2>2
<1>4. ASSUME NEW owned \in SUBSET Releases, RevertsAll(owned) PROVE Prefix'
  <2>1. \A s \in Releases : (status'[s] # "absent") <=> (status[s] # "absent")
    BY <1>4 DEF RevertsAll, OpenStatus
  <2> QED
    BY <2>1
<1> QED
  BY <1>1, <1>2, <1>3, <1>4 DEF ShapeStep

\* The versions of an environment change only when one is promoted or the
\* current one is rolled back.
LEMMA SucceededStep ==
    ASSUME TypeOK
    PROVE  /\ \A r \in Releases, e \in Envs :
                  Starts(r, e) => \A f \in Envs : Succeeded(f)' = Succeeded(f)
           /\ \A r \in Releases : StaysOpen(r) \/ Closes(r) =>
                  \A f \in Envs : Succeeded(f)' = Succeeded(f)
           /\ \A r \in Releases : Promotes(r) => \A f \in Envs :
                  Succeeded(f)' = Succeeded(f)
                                  \cup (IF envOf[r] = f THEN {r} ELSE {})
           /\ \A r \in Releases : Reverts(r) => \A f \in Envs :
                  Succeeded(f)' = Succeeded(f) \ {r}
           /\ \A owned \in SUBSET Releases : RevertsAll(owned) =>
                  \A f \in Envs : Succeeded(f)' = Succeeded(f)
<1> USE DEF Succeeded, OpenStatus
<1>1. ASSUME NEW r \in Releases, NEW e \in Envs, Starts(r, e), NEW f \in Envs
      PROVE  Succeeded(f)' = Succeeded(f)
  BY <1>1 DEF Starts, IsNext, Exists, TypeOK
<1>2. ASSUME NEW r \in Releases, StaysOpen(r) \/ Closes(r), NEW f \in Envs
      PROVE  Succeeded(f)' = Succeeded(f)
  BY <1>2 DEF StaysOpen, Closes, TypeOK
<1>3. ASSUME NEW r \in Releases, Promotes(r), NEW f \in Envs
      PROVE  Succeeded(f)' = Succeeded(f)
                             \cup (IF envOf[r] = f THEN {r} ELSE {})
  BY <1>3 DEF Promotes, TypeOK
<1>4. ASSUME NEW r \in Releases, Reverts(r), NEW f \in Envs
      PROVE  Succeeded(f)' = Succeeded(f) \ {r}
  BY <1>4 DEF Reverts, TypeOK
<1>5. ASSUME NEW owned \in SUBSET Releases, RevertsAll(owned), NEW f \in Envs
      PROVE  Succeeded(f)' = Succeeded(f)
  BY <1>5 DEF RevertsAll, TypeOK
<1> QED
  BY <1>1, <1>2, <1>3, <1>4, <1>5

\* No version becomes newer than a release in flight.
LEMMA OpenIsNewestStep ==
    ASSUME LineageInv, ShapeStep
    PROVE  OpenIsNewest'
<1> USE DEF LineageInv
<1> SUFFICES ASSUME NEW q \in Releases, status'[q] \in OpenStatus,
                    NEW s \in Releases, status'[s] = "succeeded",
                    envOf'[s] = envOf'[q]
             PROVE  s < q
  BY DEF OpenIsNewest, Succeeded
<1>0. ASSUME status[q] \in OpenStatus, status[s] = "succeeded",
             envOf[s] = envOf[q]
      PROVE  s < q
  BY <1>0 DEF OpenIsNewest, Succeeded
<1>1. CASE UNCHANGED shape
  BY <1>0, <1>1 DEF shape
<1>2. ASSUME NEW r \in Releases, NEW e \in Envs, Starts(r, e) PROVE s < q
  <2>1. status[s] = "succeeded" /\ envOf'[s] = envOf[s] /\ s # r
    BY <1>2 DEF Starts, TypeOK
  <2>2. CASE q = r
    <3>1. Exists(s) /\ ~Exists(r)
      BY <1>2, <2>1 DEF Starts, IsNext, Exists
    <3> QED
      BY <2>1, <2>2, <3>1, ReleaseNumbers DEF Prefix
  <2>3. CASE q # r
    BY <1>0, <1>2, <2>1, <2>3 DEF Starts, TypeOK
  <2> QED
    BY <2>2, <2>3
<1>3. ASSUME NEW r \in Releases, StaysOpen(r) \/ Closes(r) PROVE s < q
  BY <1>0, <1>3 DEF StaysOpen, Closes, TypeOK, OpenStatus
<1>4. ASSUME NEW r \in Releases, Promotes(r) PROVE s < q
  <2>1. status[q] \in OpenStatus /\ envOf' = envOf /\ q # r
    BY <1>4 DEF Promotes, TypeOK, OpenStatus
  <2>2. envOf[q] # envOf[r]
    BY <1>4, <2>1, OpenRow DEF Promotes, Ownership
  <2>3. status[s] = "succeeded"
    BY <1>4, <2>1, <2>2 DEF Promotes, TypeOK
  <2> QED
    BY <1>0, <2>1, <2>3
<1>5. ASSUME NEW r \in Releases, Reverts(r) PROVE s < q
  BY <1>0, <1>5 DEF Reverts, TypeOK, OpenStatus
<1>6. ASSUME NEW owned \in SUBSET Releases, RevertsAll(owned) PROVE s < q
  BY <1>0, <1>6 DEF RevertsAll, OpenStatus
<1> QED
  BY <1>1, <1>2, <1>3, <1>4, <1>5, <1>6 DEF ShapeStep

\* current_release_id stays the newest version of its environment.
LEMMA CurrentIsNewestStep ==
    ASSUME LineageInv, ShapeStep, NEW e \in Envs
    PROVE  IsNewest(current[e], Succeeded(e))'
<1> USE DEF LineageInv
<1>1. IsNewest(current[e], Succeeded(e))
  BY DEF Lineage
<1>2. CASE UNCHANGED shape
  BY <1>1, <1>2 DEF shape, Succeeded, IsNewest
<1>3. ASSUME NEW r \in Releases, NEW f \in Envs, Starts(r, f)
      PROVE  IsNewest(current[e], Succeeded(e))'
  BY <1>1, <1>3, SucceededStep DEF Starts, IsNewest
<1>4. ASSUME NEW r \in Releases, StaysOpen(r) \/ Closes(r)
      PROVE  IsNewest(current[e], Succeeded(e))'
  BY <1>1, <1>4, SucceededStep DEF StaysOpen, Closes, IsNewest
<1>5. ASSUME NEW r \in Releases, Promotes(r)
      PROVE  IsNewest(current[e], Succeeded(e))'
  <2>1. CASE e = envOf[r]
    <3>1. Succeeded(e)' = Succeeded(e) \cup {r} /\ current'[e] = r
      BY <1>5, <2>1, SucceededStep DEF Promotes, TypeOK
    <3>2. \A s \in Succeeded(e) : s < r
      BY <1>5, <2>1 DEF Promotes, OpenIsNewest
    <3>3. Succeeded(e) \subseteq Releases
      BY DEF Succeeded
    <3> QED
      BY <3>1, <3>2, <3>3, ReleaseNumbers DEF IsNewest
  <2>2. CASE e # envOf[r]
    <3>1. Succeeded(e)' = Succeeded(e)
      BY <1>5, <2>2, SucceededStep
    <3>2. current'[e] = current[e]
      BY <1>5, <2>2 DEF Promotes, TypeOK
    <3> QED
      BY <1>1, <3>1, <3>2 DEF IsNewest
  <2> QED
    BY <2>1, <2>2
<1>6. ASSUME NEW r \in Releases, Reverts(r)
      PROVE  IsNewest(current[e], Succeeded(e))'
  <2>1. Succeeded(e)' = Succeeded(e) \ {r}
    BY <1>6, SucceededStep
  <2>2. CASE e # envOf[r]
    <3>1. r \notin Succeeded(e) /\ current'[e] = current[e]
      BY <1>6, <2>2 DEF Reverts, Succeeded, TypeOK
    <3> QED
      BY <1>1, <2>1, <3>1 DEF IsNewest
  <2>3. CASE e = envOf[r] /\ status[r] \in OpenStatus
    <3>1. r \notin Succeeded(e)
      BY <2>3 DEF Succeeded, OpenStatus
    <3>2. current'[e] = current[e]
      BY <1>6, <2>3, OpenGoesBackToCurrent DEF Reverts, TypeOK
    <3> QED
      BY <1>1, <2>1, <3>1, <3>2 DEF IsNewest
  <2>4. CASE e = envOf[r] /\ status[r] = "succeeded"
    <3>1. current[e] = r /\ current'[e] = previous[r]
      BY <1>6, <2>4 DEF Reverts, OpenStatus, TypeOK
    <3>2. Succeeded(e) \ {r} = {s \in Succeeded(e) : s < r}
      BY <1>1, <3>1, ReleaseNumbers DEF IsNewest, Succeeded
    <3>3. IsNewest(previous[r], {s \in Succeeded(e) : s < r})
      BY <2>4 DEF Lineage
    <3> QED
      BY <2>1, <3>1, <3>2, <3>3 DEF IsNewest
  <2> QED
    BY <1>6, <2>2, <2>3, <2>4 DEF Reverts
<1>7. ASSUME NEW owned \in SUBSET Releases, RevertsAll(owned)
      PROVE  IsNewest(current[e], Succeeded(e))'
  <2>1. Succeeded(e)' = Succeeded(e)
    BY <1>7, SucceededStep
  <2>2. current'[e] = current[e]
    <3>1. CASE active[e] \in owned
      <4>1. envOf[active[e]] = e /\ status[active[e]] \in OpenStatus
        BY <3>1 DEF Ownership
      <4> QED
        BY <1>7, <3>1, <4>1, OpenGoesBackToCurrent DEF RevertsAll
    <3>2. CASE active[e] \notin owned
      BY <1>7, <3>2 DEF RevertsAll
    <3> QED
      BY <3>1, <3>2
  <2> QED
    BY <1>1, <2>1, <2>2 DEF IsNewest
<1> QED
  BY <1>2, <1>3, <1>4, <1>5, <1>6, <1>7 DEF ShapeStep

\* The versions that release q may go back to.
Below(q) == {s \in Succeeded(envOf[q]) : s < q}

\* previous_release_id stays the newest version before its release.
LEMMA PreviousStep ==
    ASSUME LineageInv, ShapeStep, NEW q \in Releases,
           status'[q] \in OpenStatus \cup {"succeeded"}
    PROVE  IsNewest(previous[q], Below(q))'
<1> USE DEF LineageInv
<1>1. ASSUME status[q] \in OpenStatus \cup {"succeeded"},
             previous'[q] = previous[q], Below(q)' = Below(q)
      PROVE  IsNewest(previous[q], Below(q))'
  <2>1. IsNewest(previous[q], Below(q))
    BY <1>1 DEF Lineage, Below
  <2> QED
    BY <1>1, <2>1 DEF IsNewest
<1>2. CASE UNCHANGED shape
  BY <1>1, <1>2 DEF shape, Below, Succeeded
<1>3. ASSUME NEW r \in Releases, NEW e \in Envs, Starts(r, e)
      PROVE  IsNewest(previous[q], Below(q))'
  <2>1. /\ \A s \in Releases : Exists(s) => s # r
        /\ \A s \in Releases : (status'[s] = "succeeded")
                                   <=> (status[s] = "succeeded")
        /\ \A s \in Releases : s # r => envOf'[s] = envOf[s]
    BY <1>3 DEF Starts, IsNext, Exists, TypeOK
  <2>2. CASE q # r
    <3>1. previous'[q] = previous[q] /\ status'[q] = status[q]
      BY <1>3, <2>2 DEF Starts, TypeOK
    <3>2. Below(q)' = Below(q)
      BY <2>1, <2>2 DEF Below, Succeeded, Exists
    <3> QED
      BY <1>1, <3>1, <3>2
  <2>3. CASE q = r
    <3>1. previous'[q] = current[e] /\ envOf'[q] = e
      BY <1>3, <2>3 DEF Starts, TypeOK
    <3>2. \A s \in Succeeded(e) : s < q
      <4> SUFFICES ASSUME NEW s \in Succeeded(e) PROVE s < q
        OBVIOUS
      <4>1. s \in Releases /\ Exists(s) /\ ~Exists(q) /\ s # q
        BY <1>3, <2>1, <2>3 DEF Succeeded, Exists, Starts, IsNext
      <4> QED
        BY <4>1, ReleaseNumbers DEF Prefix
    <3>3. Below(q)' = Succeeded(e)
      BY <2>1, <3>1, <3>2, <2>3 DEF Below, Succeeded, Exists
    <3>4. IsNewest(current[e], Succeeded(e))
      BY DEF Lineage
    <3> QED
      BY <3>1, <3>3, <3>4 DEF IsNewest
  <2> QED
    BY <2>2, <2>3
<1>4. ASSUME NEW r \in Releases, StaysOpen(r) \/ Closes(r)
      PROVE  IsNewest(previous[q], Below(q))'
  <2>1. status[q] \in OpenStatus \cup {"succeeded"} /\ previous' = previous
    BY <1>4 DEF StaysOpen, Closes, TypeOK, OpenStatus
  <2>2. Below(q)' = Below(q)
    BY <1>4 DEF StaysOpen, Closes, TypeOK, OpenStatus, Below, Succeeded
  <2> QED
    BY <1>1, <2>1, <2>2
<1>5. ASSUME NEW r \in Releases, Promotes(r)
      PROVE  IsNewest(previous[q], Below(q))'
  <2>1. status[q] \in OpenStatus \cup {"succeeded"} /\ previous' = previous
    BY <1>5 DEF Promotes, TypeOK, OpenStatus
  <2>2. ~(envOf[q] = envOf[r] /\ r < q)
    <3> SUFFICES ASSUME envOf[q] = envOf[r], r < q PROVE FALSE
      OBVIOUS
    <3>1. CASE status[q] \in OpenStatus
      BY <1>5, <3>1, OpenRow, ReleaseNumbers DEF Promotes, Ownership
    <3>2. CASE status[q] = "succeeded"
      <4>1. q < r
        BY <1>5, <3>2 DEF Promotes, OpenIsNewest, Succeeded
      <4> QED
        BY <4>1, ReleaseNumbers
    <3> QED
      BY <2>1, <3>1, <3>2
  <2>3. Below(q)' = Below(q)
    BY <1>5, <2>2 DEF Promotes, TypeOK, OpenStatus, Below, Succeeded
  <2> QED
    BY <1>1, <2>1, <2>3
<1>6. ASSUME NEW r \in Releases, Reverts(r)
      PROVE  IsNewest(previous[q], Below(q))'
  <2>1. /\ status[q] \in OpenStatus \cup {"succeeded"}
        /\ previous' = previous /\ q # r
    BY <1>6 DEF Reverts, TypeOK, OpenStatus
  <2>2. ~(r \in Below(q))
    <3> SUFFICES ASSUME r \in Succeeded(envOf[q]), r < q PROVE FALSE
      BY DEF Below
    <3>1. /\ envOf[r] = envOf[q] /\ envOf[q] \in Envs
          /\ current[envOf[q]] = r /\ active[envOf[q]] = NoRelease
      BY <1>6, OpenRow DEF Reverts, Succeeded, OpenStatus
    <3>2. status[q] = "succeeded"
      BY <2>1, <3>1, ReleaseNumbers DEF Ownership
    <3>3. q <= r
      BY <3>1, <3>2, ReleaseNumbers DEF Lineage, IsNewest, Succeeded
    <3> QED
      BY <3>3, ReleaseNumbers
  <2>3. Below(q)' = Below(q)
    BY <1>6, <2>2 DEF Reverts, TypeOK, Below, Succeeded
  <2> QED
    BY <1>1, <2>1, <2>3
<1>7. ASSUME NEW owned \in SUBSET Releases, RevertsAll(owned)
      PROVE  IsNewest(previous[q], Below(q))'
  <2>1. status[q] \in OpenStatus \cup {"succeeded"} /\ previous' = previous
    BY <1>7 DEF RevertsAll, OpenStatus
  <2>2. Below(q)' = Below(q)
    BY <1>7 DEF RevertsAll, Below, Succeeded, OpenStatus
  <2> QED
    BY <1>1, <2>1, <2>2
<1> QED
  BY <1>2, <1>3, <1>4, <1>5, <1>6, <1>7 DEF ShapeStep

-------------------------------------------------------------------------------
(* The theorems.                                                           *)

\* The ledger begins with no release.
LEMMA LineageInit == LedgerInit => LineageInv
<1> SUFFICES ASSUME LedgerInit PROVE LineageInv
  OBVIOUS
<1>1. TypeOK
  BY InitType
<1>2. \A r \in Releases : status[r] = "absent"
  BY DEF LedgerInit
<1>3. Ownership
  BY <1>2, ReleaseNumbers DEF LedgerInit, Ownership, OpenStatus
<1>4. Prefix /\ OpenIsNewest
  BY <1>2 DEF Prefix, Exists, OpenIsNewest, OpenStatus
<1>5. Lineage
  BY <1>2 DEF LedgerInit, EmptyColumns, Lineage, IsNewest, Succeeded,
              OpenStatus
<1> QED
  BY <1>1, <1>3, <1>4, <1>5 DEF LineageInv

\* LineageInv is inductive.
LEMMA LineageStep ==
    ASSUME LineageInv, [LedgerNext]_ledgerVars
    PROVE  LineageInv'
<1>1. TypeOK'
  BY TypeStep DEF LineageInv
<1>2. ShapeStep
  BY EveryStepHasAShape DEF LineageInv
<1>3. Ownership' /\ Prefix' /\ OpenIsNewest'
  BY <1>2, OwnershipStep, PrefixStep, OpenIsNewestStep DEF LineageInv
<1>4. Lineage'
  <2>1. \A e \in Envs : IsNewest(current[e], Succeeded(e))'
    BY <1>2, CurrentIsNewestStep
  <2>2. \A q \in Releases : status'[q] \in OpenStatus \cup {"succeeded"} =>
            IsNewest(previous[q], Below(q))'
    BY <1>2, PreviousStep
  <2> QED
    BY <2>1, <2>2 DEF Lineage, Below
<1> QED
  BY <1>1, <1>3, <1>4 DEF LineageInv

\* Whatever is committed, and in any order, active_release_id names exactly the
\* release in flight in its environment.
THEOREM OwnershipHolds == LedgerSpec => []Ownership
<1>1. LineageInv => Ownership
  BY DEF LineageInv
<1> QED
  BY <1>1, LineageInit, LineageStep, PTL DEF LedgerSpec

\* current_release_id and the chain of previous_release_id list the versions
\* of every environment from the newest to the oldest; in particular no late
\* rollback can bring back an older version than the last good one.
THEOREM LineageHolds == LedgerSpec => []Lineage
<1>1. LineageInv => Lineage
  BY DEF LineageInv
<1> QED
  BY <1>1, LineageInit, LineageStep, PTL DEF LedgerSpec

\* Only a canary becomes a version.
LEMMA OnlyCanariesSucceed ==
    ASSUME TypeOK, [LedgerNext]_ledgerVars, NEW r \in Releases,
           status[r] # "succeeded", status'[r] = "succeeded"
    PROVE  status[r] = "canary"
<1>1. ASSUME NEW w \in Webhooks, ReceiveWebhook(w) PROVE FALSE
  <2> DEFINE outcome == [results[w.release] EXCEPT ![w.gate] = w.status]
             e == envOf[w.release]
             target == EvaluateGates(Policy[e].required_gates, outcome,
                                     Policy[e].requires_approval)
  <2>1. target # "succeeded"
    BY EvaluateGatesType
  <2>2. status' = status \/ status' = [status EXCEPT ![w.release] = target]
    BY <1>1 DEF ReceiveWebhook, WebhookCommitted, GatesRecalculated,
                Transition
  <2> HIDE DEF target
  <2> QED
    BY <2>1, <2>2 DEF TypeOK, Webhooks
<1>2. ASSUME NEW q \in Releases, NEW o \in Observations,
             NEW who \in Observers, Observe(q, o, who)
      PROVE  status[r] = "canary"
  <2>1. /\ status[q] = "canary"
        /\ \A s \in Releases : s # q => status'[s] = status[s]
    BY <1>2 DEF Observe, ObserveCommitted, Transition, TypeOK
  <2> QED
    BY <2>1
<1>3. ASSUME NEW batch \in SUBSET Due, Reconcile(batch) PROVE FALSE
  BY <1>3 DEF Reconcile, ReconcileCommitted
<1> QED
  BY <1>1, <1>2, <1>3
  DEF LedgerNext, ClientNext, ReconcilerNext, ledgerVars, Create,
      CreateCommitted, Approve, ApproveCommitted, Cancel, CancelCommitted,
      Deploy, DeployCommitted,
      Rollback, RollbackCommitted, Expire, Transition, TypeOK

\* A step that moves current_release_id promotes the canary of the environment
\* or rolls its current release back, and goes back to its previous one.
LEMMA CurrentStep ==
    ASSUME LineageInv, ShapeStep, NEW e \in Envs, current'[e] # current[e]
    PROVE  \E r \in Releases :
               \/ /\ active[e] = r /\ current'[e] = r
                  /\ status[r] \in OpenStatus /\ status'[r] = "succeeded"
               \/ /\ current[e] = r /\ active[e] = NoRelease
                  /\ status'[r] = "rolled_back"
                  /\ current'[e] = previous[r]
<1> USE DEF LineageInv
<1>1. ASSUME NEW r \in Releases, Promotes(r)
      PROVE  /\ active[e] = r /\ current'[e] = r
             /\ status[r] \in OpenStatus /\ status'[r] = "succeeded"
  BY <1>1, OpenRow DEF Promotes, Ownership, TypeOK
<1>2. ASSUME NEW r \in Releases, Reverts(r)
      PROVE  /\ current[e] = r /\ active[e] = NoRelease
             /\ status'[r] = "rolled_back"
             /\ current'[e] = previous[r]
  <2>1. e = envOf[r] /\ current'[e] = previous[r]
    BY <1>2 DEF Reverts, TypeOK
  <2>2. status[r] \notin OpenStatus
    BY <2>1, OpenGoesBackToCurrent
  <2> QED
    BY <1>2, <2>1, <2>2 DEF Reverts, TypeOK
<1>3. ASSUME NEW owned \in SUBSET Releases, RevertsAll(owned) PROVE FALSE
  <2>1. active[e] \in owned
    BY <1>3 DEF RevertsAll
  <2>2. envOf[active[e]] = e /\ status[active[e]] \in OpenStatus
    BY <2>1 DEF Ownership
  <2> QED
    BY <1>3, <2>1, <2>2, OpenGoesBackToCurrent DEF RevertsAll
<1> QED
  BY <1>1, <1>2, <1>3 DEF ShapeStep, Starts, StaysOpen, Closes, shape

\* current_release_id only moves forward to a promoted canary or back by one
\* version: the action property of the ledger, for every instance of it.
THEOREM CurrentMovesHolds == LedgerSpec => CurrentMoves
<1> DEFINE Moves ==
        \A e \in Envs : current'[e] # current[e] =>
            \E r \in Releases :
                \/ /\ active[e] = r /\ current'[e] = r
                   /\ status[r] = "canary" /\ status'[r] = "succeeded"
                \/ /\ current[e] = r /\ active[e] = NoRelease
                   /\ status'[r] = "rolled_back"
                   /\ current'[e] = previous[r]
<1>1. ASSUME LineageInv, [LedgerNext]_ledgerVars
      PROVE  [Moves]_ledgerVars
  <2>1. ShapeStep
    BY <1>1, EveryStepHasAShape DEF LineageInv
  <2>2. \A r \in Releases : status[r] \in OpenStatus /\ status'[r] = "succeeded"
            => status[r] = "canary"
    BY <1>1, OnlyCanariesSucceed DEF LineageInv, OpenStatus
  <2> QED
    BY <1>1, <2>1, <2>2, CurrentStep
<1> QED
  BY <1>1, LineageInit, LineageStep, PTL DEF LedgerSpec, CurrentMoves

-------------------------------------------------------------------------------
(* The environments are stacks.                                            *)

\* The sets of releases can be counted.
LEMMA Counting ==
    ASSUME NEW S \in SUBSET Releases
    PROVE  /\ IsFiniteSet(S)
           /\ Cardinality(S) \in Nat
<1>1. IsFiniteSet(Releases)
  BY LedgerAssumption, FS_Interval DEF Releases
<1> QED
  BY <1>1, FS_Subset, FS_CardinalityType

\* InOrder makes a sequence.
LEMMA InOrderIsSequence ==
    ASSUME NEW S \in SUBSET Releases
    PROVE  /\ \E X : InOrder(S) \in Seq(X)
           /\ Len(InOrder(S)) = Cardinality(S)
           /\ \A i \in 1..Cardinality(S) :
                  InOrder(S)[i] = CHOOSE s \in Nth(S, i) : TRUE
<1> DEFINE q == InOrder(S)
           n == Cardinality(S)
           X == {q[i] : i \in 1..n}
<1>1. n \in Nat
  BY Counting
<1>2. q = [i \in 1..n |-> q[i]]
  BY DEF InOrder
<1> HIDE DEF q, n
<1>3. q \in [1..n -> X]
  BY <1>2
<1> HIDE DEF X
<1>4. q \in Seq(X) /\ Len(q) = n
  BY <1>1, <1>3
<1>5. \A i \in 1..Cardinality(S) :
          InOrder(S)[i] = CHOOSE s \in Nth(S, i) : TRUE
  BY DEF InOrder
<1> QED
  BY <1>4, <1>5 DEF q, n

\* A new version goes on top of the older ones.
LEMMA NewestGoesOnTop ==
    ASSUME NEW S \in SUBSET Releases, NEW r \in Releases, \A s \in S : s < r
    PROVE  InOrder(S \cup {r}) = Append(InOrder(S), r)
<1> DEFINE T == S \cup {r}
           n == Cardinality(S)
<1>1. /\ n \in Nat /\ IsFiniteSet(S) /\ T \in SUBSET Releases
      /\ \A s \in T : s \in Nat
      /\ r \notin S /\ r \in Nat
  BY Counting, ReleaseNumbers
<1>2. Cardinality(T) = n + 1
  BY <1>1, FS_AddElement
<1>3. \A s \in S : /\ {t \in T : t <= s} = {t \in S : t <= s}
                  /\ Cardinality({t \in S : t <= s}) <= n
                  /\ Cardinality({t \in S : t <= s}) \in Nat
  <2> TAKE s \in S
  <2>1. {t \in T : t <= s} = {t \in S : t <= s}
    BY <1>1
  <2>2. {t \in S : t <= s} \in SUBSET S
    OBVIOUS
  <2>3. /\ IsFiniteSet({t \in S : t <= s})
        /\ Cardinality({t \in S : t <= s}) <= n
    BY <1>1, <2>2, FS_Subset
  <2> QED
    BY <2>1, <2>3, FS_CardinalityType
<1>4. {t \in T : t <= r} = T
  <2>1. \A t \in T : t <= r
    BY <1>1
  <2> HIDE DEF T
  <2> QED
    BY <2>1
<1>5. \A i \in 1..n : Nth(T, i) = Nth(S, i)
  <2> TAKE i \in 1..n
  <2>1. \A s \in S : Cardinality({t \in T : t <= s}) = i
                        <=> Cardinality({t \in S : t <= s}) = i
    BY <1>3
  <2>2. Cardinality({t \in T : t <= r}) # i
    BY <1>1, <1>2, <1>4
  <2> QED
    BY <2>1, <2>2 DEF Nth
<1>6. Nth(T, n + 1) = {r}
  <2>1. \A s \in S : Cardinality({t \in T : t <= s}) # n + 1
    BY <1>1, <1>3
  <2>2. Cardinality({t \in T : t <= r}) = n + 1
    BY <1>2, <1>4
  <2> QED
    BY <2>1, <2>2 DEF Nth
<1>7. /\ \A i \in 1..n : InOrder(T)[i] = InOrder(S)[i]
      /\ InOrder(T)[n + 1] = r
  <2>1. 1..n \subseteq 1..(n + 1) /\ n + 1 \in 1..(n + 1)
    BY <1>1
  <2> HIDE DEF n, T
  <2>2. \A i \in 1..(n + 1) :
            InOrder(T)[i] = CHOOSE s \in Nth(T, i) : TRUE
    BY <1>1, <1>2, InOrderIsSequence
  <2>3. \A i \in 1..n : InOrder(S)[i] = CHOOSE s \in Nth(S, i) : TRUE
    BY InOrderIsSequence DEF n
  <2>4. (CHOOSE s \in Nth(T, n + 1) : TRUE) = r
    BY <1>6
  <2> QED
    BY <1>5, <2>1, <2>2, <2>3, <2>4
<1> DEFINE q == InOrder(S)
           p == InOrder(T)
<1>8. PICK X : q \in Seq(X) /\ Len(q) = n
  BY InOrderIsSequence
<1>9. PICK Y : p \in Seq(Y) /\ Len(p) = n + 1
  BY <1>1, <1>2, InOrderIsSequence
<1> DEFINE Z == X \cup Y \cup {r}
<1>10. q \in Seq(Z) /\ p \in Seq(Z) /\ r \in Z
  BY <1>8, <1>9, SeqMonotonic
<1>11. /\ \A i \in 1..n : p[i] = q[i]
       /\ p[n + 1] = r
  BY <1>7
<1> HIDE DEF p, q, n, Z
<1>12. /\ Append(q, r) \in Seq(Z) /\ Len(Append(q, r)) = n + 1
       /\ \A i \in 1..n : Append(q, r)[i] = q[i]
       /\ Append(q, r)[n + 1] = r
  BY <1>8, <1>10, AppendProperties
<1>13. \A i \in 1..(n + 1) : p[i] = Append(q, r)[i]
  BY <1>1, <1>11, <1>12
<1>14. p = Append(q, r)
  BY <1>9, <1>10, <1>12, <1>13, SeqEqual
<1> QED
  BY <1>14 DEF p, q

\* What is on top comes off again, and leaves what was below it.
LEMMA TopComesOff ==
    ASSUME NEW S \in SUBSET Releases, NEW r \in S, \A s \in S : s <= r
    PROVE  LET q == InOrder(S)
           IN  /\ q # <<>>
               /\ Versions!Top(q) = r
               /\ SubSeq(q, 1, Len(q) - 1) = InOrder(S \ {r})
<1> DEFINE R == S \ {r}
           p == InOrder(R)
           q == InOrder(S)
<1>1. /\ r \in Releases /\ R \in SUBSET Releases /\ S = R \cup {r}
      /\ \A s \in R : s < r
  BY ReleaseNumbers
<1>2. q = Append(p, r)
  BY <1>1, NewestGoesOnTop
<1>3. PICK X : p \in Seq(X)
  BY <1>1, InOrderIsSequence
<1> HIDE DEF p, q
<1> DEFINE Z == X \cup {r}
<1>4. p \in Seq(Z) /\ r \in Z
  BY <1>3, SeqMonotonic
<1> HIDE DEF Z
<1>5. /\ q \in Seq(Z) /\ q # <<>> /\ Len(q) = Len(p) + 1 /\ Len(p) \in Nat
      /\ \A i \in 1..Len(p) : q[i] = p[i] /\ p[i] \in Z
      /\ q[Len(q)] = r
  BY <1>2, <1>4, AppendProperties, LenProperties, ElementOfSeq
<1>6. SubSeq(q, 1, Len(q) - 1) = p
  <2>1. /\ SubSeq(q, 1, Len(p)) \in Seq(Z)
        /\ Len(SubSeq(q, 1, Len(p))) = Len(p)
        /\ \A i \in 1..Len(p) : SubSeq(q, 1, Len(p))[i] = q[i]
    BY <1>5, SubSeqProperties
  <2>2. SubSeq(q, 1, Len(p)) = p
    BY <1>4, <1>5, <2>1, SeqEqual
  <2> QED
    BY <1>5, <2>2
<1>7. Versions!Top(q) = r
  BY <1>5 DEF Versions!Top
<1> QED
  BY <1>5, <1>6, <1>7 DEF p, q

\* The newest version is on top, if there is one.
LEMMA NewestIsTop ==
    ASSUME NEW S \in SUBSET Releases, NEW x, IsNewest(x, S)
    PROVE  Versions!Top(InOrder(S)) = x
<1>1. CASE S = {}
  <2>1. InOrder(S) = <<>>
    BY <1>1, FS_EmptySet, InOrderIsSequence, EmptySeq
  <2>2. x = NoRelease
    BY <1>1 DEF IsNewest
  <2> QED
    BY <2>1, <2>2 DEF Versions!Top
<1>2. CASE S # {}
  <2>1. x \in S /\ \A s \in S : s <= x
    BY <1>2 DEF IsNewest
  <2> QED
    BY <2>1, TopComesOff
<1> QED
  BY <1>1, <1>2

\* The accepted versions of the environments, as VersionStack sees them.
versionStacks == [e \in Envs |-> InOrder(Succeeded(e))]

\* The stack of an environment after a step is that of its versions then.
LEMMA AcceptedNext ==
    ASSUME NEW e \in Envs
    PROVE  /\ versionStacks[e] = InOrder(Succeeded(e))
           /\ \A S : Succeeded(e)' = S => versionStacks'[e] = InOrder(S)
<1>1. versionStacks[e] = InOrder(Succeeded(e))
  BY DEF versionStacks
<1>2. ASSUME NEW S, Succeeded(e)' = S PROVE versionStacks'[e] = InOrder(S)
  <2>1. versionStacks'[e] = InOrder(Succeeded(e))'
    BY DEF versionStacks
  <2>2. InOrder(Succeeded(e))' = InOrder(S)
    BY <1>2 DEF InOrder, Nth
  <2> QED
    BY <2>1, <2>2
<1> QED
  BY <1>1, <1>2

\* A step that changes the versions of no environment changes no stack.
LEMMA AcceptedStays ==
    ASSUME \A e \in Envs : Succeeded(e)' = Succeeded(e)
    PROVE  versionStacks' = versionStacks
<1>1. \A e \in Envs : versionStacks'[e] = versionStacks[e]
  BY AcceptedNext
<1> QED
  BY <1>1 DEF versionStacks

\* The releases that are rows.
createdReleases == {r \in Releases : Exists(r)}

\* A new release is proposed.
LEMMA StartsProposes ==
    ASSUME LineageInv, NEW r \in Releases, NEW e \in Envs, Starts(r, e)
    PROVE  Versions!Propose(e, r)
<1>1. versionStacks' = versionStacks
  BY SucceededStep, AcceptedStays DEF LineageInv
<1>2. r \notin createdReleases /\ createdReleases' = createdReleases \cup {r}
  BY DEF LineageInv, TypeOK, Starts, IsNext, Exists, createdReleases
<1>3. active[e] = NoRelease /\ active' = [active EXCEPT ![e] = r]
  BY DEF Starts
<1>4. UNCHANGED current
  BY DEF Starts
<1> QED
  BY <1>1, <1>2, <1>3, <1>4 DEF Versions!Propose, createdReleases, versionStacks

\* A release that stays in flight is a step VersionStack does not see.
LEMMA StaysOpenStutters ==
    ASSUME LineageInv, NEW r \in Releases, StaysOpen(r)
    PROVE  UNCHANGED Versions!stackVars
<1>1. versionStacks' = versionStacks
  BY SucceededStep, AcceptedStays DEF LineageInv
<1>2. createdReleases' = createdReleases
  BY DEF LineageInv, TypeOK, StaysOpen, OpenStatus, Exists, createdReleases
<1>3. UNCHANGED <<active, current>>
  BY DEF StaysOpen
<1> QED
  BY <1>1, <1>2, <1>3 DEF Versions!stackVars, createdReleases, versionStacks

\* Candidates are thrown away, one or several at a time.
LEMMA Discards ==
    ASSUME LineageInv, NEW E \in SUBSET Envs, versionStacks' = versionStacks,
           createdReleases' = createdReleases, UNCHANGED current,
           \A e \in E : active[e] # NoRelease,
           active' = [e \in Envs |-> IF e \in E THEN NoRelease ELSE active[e]]
    PROVE  Versions!Discard(E)
BY DEF Versions!Discard, createdReleases, versionStacks

\* A release that is cancelled or blocked is thrown away.
LEMMA ClosesDiscards ==
    ASSUME LineageInv, NEW r \in Releases, Closes(r)
    PROVE  Versions!Discard({envOf[r]})
<1>1. versionStacks' = versionStacks
  BY SucceededStep, AcceptedStays DEF LineageInv
<1>2. createdReleases' = createdReleases
  BY DEF LineageInv, TypeOK, Closes, OpenStatus, Exists, createdReleases
<1>3. envOf[r] \in Envs /\ active[envOf[r]] = r /\ r # NoRelease
  BY OpenRow, ReleaseNumbers DEF LineageInv, Ownership, Closes
<1>4. active' = [e \in Envs |-> IF e \in {envOf[r]} THEN NoRelease
                                ELSE active[e]]
  BY DEF Closes, LineageInv, TypeOK
<1>5. UNCHANGED current
  BY DEF Closes
<1> QED
  BY <1>1, <1>2, <1>3, <1>4, <1>5, Discards

\* A canary that is promoted is accepted: it is newer than every version of
\* its environment.
LEMMA PromotesAccepts ==
    ASSUME LineageInv, NEW r \in Releases, Promotes(r)
    PROVE  Versions!Accept(envOf[r])
<1> DEFINE e == envOf[r]
<1>1. /\ e \in Envs /\ active[e] = r /\ r # NoRelease
      /\ TypeOK /\ status[r] \in OpenStatus
  BY OpenRow, ReleaseNumbers DEF LineageInv, Ownership, Promotes
<1>2. createdReleases' = createdReleases
  BY DEF LineageInv, TypeOK, Promotes, OpenStatus, Exists, createdReleases
<1>3. /\ \A s \in Succeeded(e) : s < r
      /\ Succeeded(e) \in SUBSET Releases
  BY <1>1 DEF LineageInv, OpenIsNewest, Succeeded
<1>4. \A f \in Envs : Succeeded(f)' = IF f = e THEN Succeeded(e) \cup {r}
                                      ELSE Succeeded(f)
  BY <1>1, SucceededStep
<1>5. versionStacks'[e] = Append(versionStacks[e], r)
  <2>1. versionStacks'[e] = InOrder(Succeeded(e) \cup {r})
    BY <1>1, <1>4, AcceptedNext
  <2>2. versionStacks[e] = InOrder(Succeeded(e))
    BY <1>1, AcceptedNext
  <2> QED
    BY <1>3, <2>1, <2>2, NewestGoesOnTop
<1>6. \A f \in Envs \ {e} : versionStacks'[f] = versionStacks[f]
  BY <1>4, AcceptedNext
<1>7. versionStacks' = [versionStacks EXCEPT ![e] = Append(@, active[e])]
  BY <1>1, <1>5, <1>6 DEF versionStacks
<1>8. /\ current' = [current EXCEPT ![e] = active[e]]
      /\ active' = [active EXCEPT ![e] = NoRelease]
  BY <1>1 DEF Promotes
<1> QED
  BY <1>1, <1>2, <1>7, <1>8 DEF Versions!Accept, createdReleases, versionStacks

\* A canary that is rolled back is thrown away: its environment runs the
\* version it goes back to.
LEMMA CanaryRevertsDiscards ==
    ASSUME LineageInv, NEW r \in Releases, Reverts(r), status[r] \in OpenStatus
    PROVE  Versions!Discard({envOf[r]})
<1>1. /\ envOf[r] \in Envs /\ active[envOf[r]] = r /\ r # NoRelease
      /\ TypeOK
  BY OpenRow, ReleaseNumbers DEF LineageInv, Ownership
<1>2. versionStacks' = versionStacks
  <2>1. \A f \in Envs : Succeeded(f)' = Succeeded(f) \ {r}
    BY <1>1, SucceededStep
  <2>2. \A f \in Envs : r \notin Succeeded(f)
    BY DEF Succeeded, OpenStatus
  <2>3. \A f \in Envs : Succeeded(f)' = Succeeded(f)
    BY <2>1, <2>2
  <2> QED
    BY <2>3, AcceptedStays
<1>3. createdReleases' = createdReleases
  BY DEF LineageInv, TypeOK, Reverts, OpenStatus, Exists, createdReleases
<1>4. active' = [e \in Envs |-> IF e \in {envOf[r]} THEN NoRelease
                                ELSE active[e]]
  BY <1>1 DEF Reverts, TypeOK
<1>5. UNCHANGED current
  BY <1>1, OpenGoesBackToCurrent DEF Reverts, TypeOK
<1> QED
  BY <1>1, <1>2, <1>3, <1>4, <1>5, Discards

\* The current release is rolled back: the top version is undone, and the
\* environment runs the one below it.
LEMMA CurrentRevertsUndoes ==
    ASSUME LineageInv, NEW r \in Releases, Reverts(r), status[r] = "succeeded"
    PROVE  Versions!Undo(envOf[r])
<1> DEFINE e == envOf[r]
           S == Succeeded(e)
<1>1. /\ e \in Envs /\ TypeOK
      /\ current[e] = r /\ active[e] = NoRelease /\ r # NoRelease
  BY OpenRow, ReleaseNumbers DEF LineageInv, Reverts, OpenStatus
<1>2. createdReleases' = createdReleases
  BY DEF LineageInv, TypeOK, Reverts, OpenStatus, Exists, createdReleases
<1>3. S \in SUBSET Releases /\ r \in S /\ \A s \in S : s <= r
  BY <1>1 DEF LineageInv, Lineage, IsNewest, Succeeded
<1>4. IsNewest(previous[r], S \ {r})
  <2>1. {s \in S : s < r} = S \ {r}
    BY <1>3, ReleaseNumbers
  <2> QED
    BY <2>1 DEF LineageInv, Lineage
<1>5. \A f \in Envs : Succeeded(f)' = Succeeded(f) \ {r}
  BY <1>1, SucceededStep
<1>6. versionStacks[e] = InOrder(S) /\ versionStacks'[e] = InOrder(S \ {r})
  BY <1>1, <1>5, AcceptedNext
<1>7. ASSUME NEW f \in Envs \ {e} PROVE versionStacks'[f] = versionStacks[f]
  <2>1. Succeeded(f)' = Succeeded(f)
    BY <1>5 DEF Succeeded
  <2> QED
    BY <2>1, AcceptedNext
<1> HIDE DEF S
<1>8. /\ versionStacks[e] # <<>>
      /\ versionStacks'[e] =
             SubSeq(versionStacks[e], 1, Len(versionStacks[e]) - 1)
  BY <1>3, <1>6, TopComesOff
<1>9. versionStacks' = [versionStacks EXCEPT ![e] = SubSeq(@, 1, Len(@) - 1)]
  BY <1>1, <1>7, <1>8 DEF versionStacks
<1>10. Versions!Top(versionStacks'[e]) = previous[r]
  BY <1>3, <1>4, <1>6, NewestIsTop
<1>11. /\ current' = [current EXCEPT ![e] = previous[r]]
       /\ active' = [active EXCEPT ![e] = NoRelease]
  BY DEF Reverts
<1>12. active' = active
  BY <1>1, <1>11 DEF TypeOK
<1> QED
  BY <1>1, <1>2, <1>8, <1>9, <1>10, <1>11, <1>12
  DEF Versions!Undo, createdReleases, versionStacks

\* The reconciler throws several candidates away.
LEMMA RevertsAllDiscards ==
    ASSUME LineageInv, NEW owned \in SUBSET Releases, RevertsAll(owned)
    PROVE  Versions!Discard({e \in Envs : active[e] \in owned})
<1> DEFINE E == {e \in Envs : active[e] \in owned}
<1>1. versionStacks' = versionStacks
  BY SucceededStep, AcceptedStays DEF LineageInv
<1>2. createdReleases' = createdReleases
  BY DEF LineageInv, TypeOK, RevertsAll, OpenStatus, Exists, createdReleases
<1>3. \A e \in E : active[e] # NoRelease
  BY ReleaseNumbers
<1>4. active' = [e \in Envs |-> IF e \in E THEN NoRelease ELSE active[e]]
  BY DEF RevertsAll
<1>5. UNCHANGED current
  <2>1. ASSUME NEW e \in Envs, active[e] \in owned
        PROVE  previous[active[e]] = current[e]
    <3>1. envOf[active[e]] = e /\ status[active[e]] \in OpenStatus
      BY <2>1 DEF LineageInv, Ownership
    <3> QED
      BY <2>1, <3>1, OpenGoesBackToCurrent
  <2> QED
    BY <2>1 DEF RevertsAll, LineageInv, TypeOK
<1> QED
  BY <1>1, <1>2, <1>3, <1>4, <1>5, Discards

\* Every step of the ledger is one of VersionStack, or one it does not see.
LEMMA StackStep ==
    ASSUME LineageInv, [LedgerNext]_ledgerVars
    PROVE  [Versions!Next]_Versions!stackVars
<1>1. ShapeStep
  BY EveryStepHasAShape DEF LineageInv
<1>2. CASE UNCHANGED shape
  <2>1. /\ \A e \in Envs : Succeeded(e)' = Succeeded(e)
        /\ createdReleases' = createdReleases
        /\ UNCHANGED <<active, current>>
    BY <1>2 DEF shape, Succeeded, createdReleases, Exists
  <2>2. versionStacks' = versionStacks
    BY <2>1, AcceptedStays
  <2> QED
    BY <2>1, <2>2 DEF Versions!stackVars, createdReleases, versionStacks
<1>3. ASSUME NEW r \in Releases, NEW e \in Envs, Starts(r, e)
      PROVE  Versions!Next
  BY <1>3, StartsProposes DEF Versions!Next
<1>4. ASSUME NEW r \in Releases, StaysOpen(r)
      PROVE  UNCHANGED Versions!stackVars
  BY <1>4, StaysOpenStutters
<1>5. ASSUME NEW r \in Releases, Closes(r) \/ Promotes(r) \/ Reverts(r)
      PROVE  Versions!Next
  <2>1. envOf[r] \in Envs
    BY <1>5, OpenRow DEF LineageInv, Closes, Promotes, Reverts
  <2>2. CASE Closes(r)
    BY <2>1, <2>2, ClosesDiscards DEF Versions!Next
  <2>3. CASE Promotes(r)
    BY <2>1, <2>3, PromotesAccepts DEF Versions!Next
  <2>4. CASE Reverts(r) /\ status[r] \in OpenStatus
    BY <2>1, <2>4, CanaryRevertsDiscards DEF Versions!Next
  <2>5. CASE Reverts(r) /\ status[r] = "succeeded"
    BY <2>1, <2>5, CurrentRevertsUndoes DEF Versions!Next
  <2> QED
    BY <1>5, <2>2, <2>3, <2>4, <2>5 DEF Reverts
<1>6. ASSUME NEW owned \in SUBSET Releases, RevertsAll(owned)
      PROVE  Versions!Next
  BY <1>6, RevertsAllDiscards DEF Versions!Next
<1> QED
  BY <1>1, <1>2, <1>3, <1>4, <1>5, <1>6 DEF ShapeStep

\* Before the first release every stack is empty.
LEMMA StackInit == LedgerInit => Versions!Init
<1> SUFFICES ASSUME LedgerInit PROVE Versions!Init
  OBVIOUS
<1>1. \A e \in Envs : Succeeded(e) = {}
  BY DEF LedgerInit, Succeeded
<1>2. InOrder({}) = <<>>
  BY FS_EmptySet, InOrderIsSequence, EmptySeq
<1>3. versionStacks = [e \in Envs |-> <<>>]
  BY <1>1, <1>2 DEF versionStacks
<1>4. createdReleases = {}
  BY DEF LedgerInit, createdReleases, Exists
<1>5. /\ active = [e \in Envs |-> NoRelease]
      /\ current = [e \in Envs |-> NoRelease]
  BY DEF LedgerInit, EmptyColumns
<1> QED
  BY <1>3, <1>4, <1>5 DEF Versions!Init, createdReleases, versionStacks

\* The ledger implements VersionStack: whatever requests and sweeps commit, the
\* versions of every environment form a stack, of which it runs the top.
THEOREM StacksHold == LedgerSpec => EnvironmentsAreStacks
<1> QED
  BY StackInit, StackStep, LineageInit, LineageStep, PTL
  DEF LedgerSpec, EnvironmentsAreStacks, Versions!Spec

-------------------------------------------------------------------------------
(* What a step does to release r.                                          *)

GatesKept(r) ==
    /\ results'[r] = results[r]
    /\ details'[r] = details[r]
    /\ Accepted(r)' = Accepted(r)

Kept(r) ==
    /\ status'[r] = status[r]
    /\ envOf'[r] = envOf[r]
    /\ traffic'[r] = traffic[r]
    /\ approvedBy'[r] = approvedBy[r]
    /\ reason'[r] = reason[r]
    /\ journal'[r] = journal[r]
    /\ GatesKept(r)

IsCreated(r) ==
    /\ status[r] = "absent" /\ status'[r] = "evaluating"
    /\ envOf'[r] \in Envs
    /\ traffic'[r] = traffic[r]
    /\ approvedBy'[r] = approvedBy[r]
    /\ reason'[r] = reason[r]
    /\ \E who \in Actors :
           journal'[r] = journal[r] \o
                         <<Note("release.created", who, NoReason)>>
    /\ GatesKept(r)

\* What the policy engine makes of the results of r after the step.
Ruling(r) ==
    EvaluateGates(Policy[envOf[r]].required_gates, results'[r],
                  Policy[envOf[r]].requires_approval)
Why(r) ==
    GateReason(Policy[envOf[r]].required_gates, results'[r],
               Policy[envOf[r]].requires_approval)

Reported ==
    <<Note("gate.reported", "ci-webhook", NoReason)>>
Evaluated(why) ==
    Reported \o <<Note("release.gates_evaluated", "policy-engine", why)>>

IsReported(r, w) ==
    /\ status[r] = "evaluating" /\ status'[r] = Ruling(r)
    /\ w.release = r
    /\ w.gate \in Policy[envOf[r]].required_gates
    /\ SameResult(w, results[r][w.gate], details[r][w.gate])
    /\ results'[r] = [results[r] EXCEPT ![w.gate] = w.status]
    /\ details'[r] = [details[r] EXCEPT ![w.gate] = w.details]
    /\ w \notin Accepted(r) /\ Accepted(r)' = Accepted(r) \cup {w}
    /\ reason'[r] = Why(r)
    /\ envOf'[r] = envOf[r]
    /\ traffic'[r] = traffic[r]
    /\ approvedBy'[r] = approvedBy[r]
    /\ journal'[r] = journal[r] \o
           IF Ruling(r) = "evaluating" THEN Evaluated(Why(r))
           ELSE Evaluated(Why(r)) \o
                <<StatusChanged("evaluating", Ruling(r), "policy-engine",
                                Why(r))>>

\* transition() by a client or by the reconciler, with the events the handler
\* adds before it and after it.
Moves(r, to, why, actor, before, after) ==
    /\ MayMove(status[r], to) /\ status'[r] = to
    /\ reason'[r] = why
    /\ journal'[r] = journal[r] \o
                     (before \o <<StatusChanged(status[r], to, actor, why)>>
                             \o after)
    /\ envOf'[r] = envOf[r]
    /\ GatesKept(r)

NotesOf(type, why) ==
    {<<>>} \cup {<<Note(type, actor, why)>> : actor \in Actors}

IsApproved(r) ==
    /\ status[r] = "awaiting_approval"
    /\ approvedBy'[r] \in Approvers
    /\ traffic'[r] = traffic[r]
    /\ Moves(r, "approved", Reason("approval_received", {}), approvedBy'[r],
             <<>>, <<>>)

IsCancelled(r) ==
    /\ approvedBy'[r] = approvedBy[r]
    /\ traffic'[r] = 0
    /\ \E who \in Actors :
           Moves(r, "cancelled", Reason("cancelled_by_operator", {}), who,
                 <<>>, <<>>)

IsDeployed(r) ==
    /\ PassedGates(envOf[r], results[r])
    /\ approvedBy'[r] = approvedBy[r]
    /\ traffic'[r] \in CanaryPercents
    /\ \E who \in Actors :
           Moves(r, "canary", Reason("canary_started", {}), who, <<>>, <<>>)

IsPromoted(r) ==
    /\ approvedBy'[r] = approvedBy[r]
    /\ traffic'[r] = 100
    /\ LET why == Reason("canary_enough", {})
       IN  \E who \in Actors : \E before \in NotesOf("canary.observed", why) :
               Moves(r, "succeeded", why, who, before, <<>>)

\* By an operator, by an observation, or by the reconciler.
IsRolledBack(r) ==
    /\ approvedBy'[r] = approvedBy[r]
    /\ traffic'[r] = 0
    /\ \E who \in Actors, why \in Reasons :
         /\ \/ why \in {Reason("manual_rollback", {}), Reason("timeout", {})}
            \/ \E limits \in (SUBSET {"error_rate", "p95_ms"}) \ {{}} :
                   why = Reason("canary_exceeded", limits)
         /\ \E before \in NotesOf("canary.observed", why),
               after \in NotesOf("canary.timeout", NoReason) :
                Moves(r, "rolled_back", why, who, before, after)

\* An observation of too few requests.
GoesOn(r) ==
    /\ status[r] = "canary" /\ status'[r] = status[r]
    /\ reason'[r] = Reason("canary_insufficient", {})
    /\ \E who \in Actors :
           journal'[r] = journal[r] \o
                         <<Note("canary.observed", who, reason'[r])>>
    /\ envOf'[r] = envOf[r]
    /\ traffic'[r] = traffic[r]
    /\ approvedBy'[r] = approvedBy[r]
    /\ GatesKept(r)

RowStep(r) ==
    \/ Kept(r) \/ IsCreated(r) \/ \E w \in Webhooks : IsReported(r, w)
    \/ IsApproved(r) \/ IsCancelled(r) \/ IsDeployed(r) \/ GoesOn(r)
    \/ IsPromoted(r) \/ IsRolledBack(r)

-------------------------------------------------------------------------------
(* The invariants, for one release.                                        *)

\* A row not there yet has no column written and no event.
Blank(r) ==
    status[r] = "absent" =>
        /\ results[r] = [g \in Gates |-> "missing"]
        /\ approvedBy[r] = Null /\ traffic[r] = 0 /\ reason[r] = NoReason
        /\ journal[r] = <<>> /\ Accepted(r) = {}

\* Nobody has approved a release that waits.
NotYetApproved(r) ==
    status[r] \in {"evaluating", "awaiting_approval"} => approvedBy[r] = Null

RowInv(r) == Blank(r) /\ NotYetApproved(r)

-------------------------------------------------------------------------------
(* Every step of the ledger is a RowStep of each release.                  *)

\* add_event() adds to the journal of one release.
LEMMA LogRow ==
    ASSUME TypeOK, NEW r \in Releases, NEW events, Log(r, events)
    PROVE  /\ journal'[r] = journal[r] \o events
           /\ \A s \in Releases \ {r} : journal'[s] = journal[s]
BY DEF Log, TypeOK

\* transition() writes one release.
LEMMA TransitionRow ==
    ASSUME TypeOK, NEW r \in Releases, NEW from, NEW to, NEW actor, NEW why,
           NEW before, NEW after, from = status[r],
           Transition(r, from, to, actor, why, before, after)
    PROVE  /\ MayMove(from, to) /\ envOf'[r] = envOf[r] /\ GatesKept(r) =>
                  Moves(r, to, why, actor, before, after)
           /\ \A s \in Releases \ {r} : /\ status'[s] = status[s]
                                        /\ reason'[s] = reason[s]
                                        /\ journal'[s] = journal[s]
<1> DEFINE events ==
        before \o <<StatusChanged(from, to, actor, why)>> \o after
<1>1. /\ status' = [status EXCEPT ![r] = to]
      /\ reason' = [reason EXCEPT ![r] = why]
      /\ Log(r, events)
  BY DEF Transition
<1> HIDE DEF events
<1>2. /\ journal'[r] = journal[r] \o events
      /\ \A s \in Releases \ {r} : journal'[s] = journal[s]
  BY <1>1, LogRow
<1>3. /\ status'[r] = to /\ reason'[r] = why
      /\ \A s \in Releases \ {r} : /\ status'[s] = status[s]
                                   /\ reason'[s] = reason[s]
  BY <1>1 DEF TypeOK
<1>4. ASSUME MayMove(from, to), envOf'[r] = envOf[r], GatesKept(r)
      PROVE  Moves(r, to, why, actor, before, after)
  BY <1>2, <1>3, <1>4 DEF Moves, events
<1> QED
  BY <1>2, <1>3, <1>4

\* create_release() fills one row and leaves the others alone.
LEMMA CreateRow ==
    ASSUME TypeOK, NEW r \in Releases, NEW e \in Envs, NEW k \in Keys,
           NEW a \in Artifacts, NEW who \in Admins, Create(r, e, k, a, who),
           NEW s \in Releases
    PROVE  RowStep(s)
<1> DEFINE created == <<Note("release.created", who, NoReason)>>
<1>1. Log(r, created) /\ status[r] = "absent" /\ who \in Actors
  BY DEF Create, CreateCommitted, IsNext, Exists, Actors
<1> HIDE DEF created
<1>2. /\ journal'[r] = journal[r] \o created
      /\ s # r => journal'[s] = journal[s]
  BY <1>1, LogRow
<1>3. /\ status' = [status EXCEPT ![r] = "evaluating"]
      /\ envOf' = [envOf EXCEPT ![r] = e]
      /\ UNCHANGED <<traffic, approvedBy, reason, results, details, receipts>>
  BY DEF Create, CreateCommitted, gateTables
<1>4. GatesKept(s)
  BY <1>3 DEF GatesKept, Accepted
<1>5. CASE s = r
  <2>1. IsCreated(s)
    BY <1>1, <1>2, <1>3, <1>4, <1>5 DEF IsCreated, TypeOK, created
  <2> QED BY <2>1 DEF RowStep
<1>6. CASE s # r
  <2>1. Kept(s)
    BY <1>2, <1>3, <1>4, <1>6 DEF Kept, TypeOK
  <2> QED BY <2>1 DEF RowStep
<1> QED BY <1>5, <1>6

\* approve_release() does to one release what IsApproved says.
LEMMA ApproveRow ==
    ASSUME TypeOK, NEW r \in Releases, NEW who \in Approvers, Approve(r, who),
           NEW s \in Releases
    PROVE  RowStep(s)
<1> DEFINE why == Reason("approval_received", {})
<1>1. Transition(r, "awaiting_approval", "approved", who, why, <<>>, <<>>)
  BY DEF Approve, ApproveCommitted
<1>2. /\ approvedBy' = [approvedBy EXCEPT ![r] = who]
      /\ UNCHANGED <<envOf, traffic, results, details, receipts>>
      /\ status[r] = "awaiting_approval"
  BY DEF Approve, ApproveCommitted, identity, gateTables
<1> HIDE DEF why
<1>3. GatesKept(s)
  BY <1>2 DEF GatesKept, Accepted
<1>4. CASE s = r
  <2>1. MayMove("awaiting_approval", "approved")
    BY DEF MayMove, Allowed
  <2>2. approvedBy'[s] = who
    BY <1>2, <1>4 DEF TypeOK
  <2>3. Moves(s, "approved", why, who, <<>>, <<>>)
    BY <1>1, <1>2, <1>3, <1>4, <2>1, TransitionRow
  <2>4. IsApproved(s)
    BY <1>2, <1>4, <2>2, <2>3 DEF IsApproved, why
  <2> QED BY <2>4 DEF RowStep
<1>5. CASE s # r
  <2>1. Kept(s)
    BY <1>1, <1>2, <1>3, <1>5, TransitionRow DEF Kept, TypeOK
  <2> QED BY <2>1 DEF RowStep
<1> QED BY <1>4, <1>5

\* cancel_release() moves one release, without traffic, to cancelled.
LEMMA CancelRow ==
    ASSUME TypeOK, NEW r \in Releases, NEW who \in Admins, Cancel(r, who),
           NEW s \in Releases
    PROVE  RowStep(s)
<1> DEFINE why == Reason("cancelled_by_operator", {})
<1> PICK from : from = status[r]
  OBVIOUS
<1>1. Transition(r, from, "cancelled", who, why, <<>>, <<>>)
  BY DEF Cancel, CancelCommitted, Transition, Log
<1>2. /\ traffic' = [traffic EXCEPT ![r] = 0]
      /\ UNCHANGED <<envOf, approvedBy, results, details, receipts>>
      /\ MayMove(from, "cancelled") /\ who \in Actors
  BY DEF Cancel, CancelCommitted, MayCancel, identity, gateTables, Actors
<1> HIDE DEF why
<1>3. GatesKept(s)
  BY <1>2 DEF GatesKept, Accepted
<1>4. CASE s = r
  <2>1. Moves(s, "cancelled", why, who, <<>>, <<>>)
    BY <1>1, <1>2, <1>3, <1>4, TransitionRow
  <2>2. IsCancelled(s)
    BY <1>2, <1>4, <2>1 DEF IsCancelled, why, TypeOK
  <2> QED BY <2>2 DEF RowStep
<1>5. CASE s # r
  <2>1. Kept(s)
    BY <1>1, <1>2, <1>3, <1>5, TransitionRow DEF Kept, TypeOK
  <2> QED BY <2>1 DEF RowStep
<1> QED BY <1>4, <1>5

\* deploy_release() gives one release with its gates passed a canary.
LEMMA DeployRow ==
    ASSUME TypeOK, NEW r \in Releases, NEW p \in CanaryPercents,
           NEW who \in Admins, Deploy(r, p, who), NEW s \in Releases
    PROVE  RowStep(s)
<1> DEFINE why == Reason("canary_started", {})
<1>1. Transition(r, "approved", "canary", who, why, <<>>, <<>>)
  BY DEF Deploy, DeployCommitted
<1>2. /\ traffic' = [traffic EXCEPT ![r] = p]
      /\ UNCHANGED <<envOf, approvedBy, results, details, receipts>>
      /\ PassedGates(envOf[r], results[r]) /\ who \in Actors
  BY DEF Deploy, DeployCommitted, MayDeploy, identity, gateTables, Actors
<1>3. status[r] = "approved" /\ MayMove("approved", "canary")
  BY DEF Deploy, MayDeploy, MayMove, Allowed
<1> HIDE DEF why
<1>4. GatesKept(s)
  BY <1>2 DEF GatesKept, Accepted
<1>5. CASE s = r
  <2>1. Moves(s, "canary", why, who, <<>>, <<>>)
    BY <1>1, <1>2, <1>3, <1>4, <1>5, TransitionRow
  <2>2. IsDeployed(s)
    BY <1>2, <1>5, <2>1 DEF IsDeployed, why, TypeOK
  <2> QED BY <2>2 DEF RowStep
<1>6. CASE s # r
  <2>1. Kept(s)
    BY <1>1, <1>2, <1>3, <1>4, <1>6, TransitionRow DEF Kept, TypeOK
  <2> QED BY <2>1 DEF RowStep
<1> QED BY <1>5, <1>6

\* rollback_release() moves one release, by hand.
LEMMA RollbackRow ==
    ASSUME TypeOK, NEW r \in Releases, NEW who \in Admins, Rollback(r, who),
           NEW s \in Releases
    PROVE  RowStep(s)
<1> DEFINE why == Reason("manual_rollback", {})
<1> PICK from : from = status[r]
  OBVIOUS
<1>1. Transition(r, from, "rolled_back", who, why, <<>>, <<>>)
  BY DEF Rollback, RollbackCommitted, Transition, Log
<1>2. /\ traffic' = [traffic EXCEPT ![r] = 0]
      /\ UNCHANGED <<envOf, approvedBy, results, details, receipts>>
      /\ MayMove(from, "rolled_back") /\ who \in Actors
  BY DEF Rollback, RollbackCommitted, MayRollBack, identity, gateTables,
         Actors
<1>3. why \in Reasons
  BY PlainReasonType
<1>4. <<>> \in NotesOf("canary.observed", why)
      /\ <<>> \in NotesOf("canary.timeout", NoReason)
  BY DEF NotesOf
<1>5. why \in {Reason("manual_rollback", {}), Reason("timeout", {})}
  OBVIOUS
<1> HIDE DEF why
<1>6. GatesKept(s)
  BY <1>2 DEF GatesKept, Accepted
<1>7. CASE s = r
  <2>1. Moves(s, "rolled_back", why, who, <<>>, <<>>)
    BY <1>1, <1>2, <1>6, <1>7, TransitionRow
  <2>2. approvedBy'[s] = approvedBy[s] /\ traffic'[s] = 0
    BY <1>2, <1>7 DEF TypeOK
  <2>3. IsRolledBack(s)
    BY <1>2, <1>3, <1>4, <1>5, <2>1, <2>2 DEF IsRolledBack
  <2> QED BY <2>3 DEF RowStep
<1>8. CASE s # r
  <2>1. Kept(s)
    BY <1>1, <1>2, <1>6, <1>8, TransitionRow DEF Kept, TypeOK
  <2> QED BY <2>1 DEF RowStep
<1> QED BY <1>7, <1>8

\* The reason of an observation agrees with what it decides.
LEMMA CanaryReasons ==
    ASSUME NEW o \in Observations, NEW e \in Envs
    PROVE  LET decision == EvaluateCanary(o, Policy[e])
               why == CanaryReason(o, Policy[e])
           IN  /\ decision = "promote" => why = Reason("canary_enough", {})
               /\ decision = "continue" =>
                      why = Reason("canary_insufficient", {})
               /\ decision = "rollback" =>
                      \E limits \in (SUBSET {"error_rate", "p95_ms"}) \ {{}} :
                          why = Reason("canary_exceeded", limits)
<1>1. /\ o.request_count \in Nat
      /\ Policy[e].min_requests \in Nat
  BY LedgerAssumption DEF Policies
<1>2. ExceededLimits(o, Policy[e]) \in SUBSET {"error_rate", "p95_ms"}
  BY DEF ExceededLimits
<1>3. EvaluateCanary(o, Policy[e]) = "rollback" <=>
          \/ o.error_rate > Policy[e].max_error_rate
          \/ o.p95_ms > Policy[e].max_p95_ms
  BY DEF EvaluateCanary
<1>4. "error_rate" \in ExceededLimits(o, Policy[e]) <=>
          o.error_rate > Policy[e].max_error_rate
  BY DEF ExceededLimits
<1>5. "p95_ms" \in ExceededLimits(o, Policy[e]) <=>
          o.p95_ms > Policy[e].max_p95_ms
  BY DEF ExceededLimits
<1>6. EvaluateCanary(o, Policy[e]) = "rollback" <=>
          ExceededLimits(o, Policy[e]) # {}
  BY <1>2, <1>3, <1>4, <1>5
<1>7. /\ EvaluateCanary(o, Policy[e]) = "promote" =>
             o.request_count >= Policy[e].min_requests
      /\ EvaluateCanary(o, Policy[e]) = "continue" =>
             ~(o.request_count >= Policy[e].min_requests)
  BY DEF EvaluateCanary
<1>8. o.request_count >= Policy[e].min_requests <=>
          ~(o.request_count < Policy[e].min_requests)
  BY <1>1
<1> QED
  BY <1>2, <1>6, <1>7, <1>8, Zenon DEF CanaryReason

\* observe_canary() promotes, rolls back or goes on with one release.
LEMMA ObserveRow ==
    ASSUME TypeOK, NEW r \in Releases, NEW o \in Observations,
           NEW who \in Observers, Observe(r, o, who), NEW s \in Releases
    PROVE  RowStep(s)
<1> PICK e \in Envs : e = envOf[r]
  BY DEF Observe, TypeOK, Exists
<1> DEFINE decision == EvaluateCanary(o, Policy[e])
           why == CanaryReason(o, Policy[e])
           observed == <<Note("canary.observed", who, why)>>
<1>1. /\ UNCHANGED <<envOf, approvedBy, results, details, receipts>>
      /\ status[r] = "canary" /\ who \in Actors
  BY DEF Observe, ObserveCommitted, identity, gateTables, Actors
<1>2. \/ /\ decision = "promote"
         /\ Transition(r, "canary", "succeeded", who, why, observed, <<>>)
         /\ traffic' = [traffic EXCEPT ![r] = 100]
      \/ /\ decision = "rollback"
         /\ Transition(r, "canary", "rolled_back", who, why, observed, <<>>)
         /\ traffic' = [traffic EXCEPT ![r] = 0]
      \/ /\ decision = "continue"
         /\ Log(r, observed)
         /\ reason' = [reason EXCEPT ![r] = why]
         /\ UNCHANGED <<status, traffic>>
  BY DEF Observe, ObserveCommitted, Transition, Log
<1>3. GatesKept(s)
  BY <1>1 DEF GatesKept, Accepted
<1>4. why \in Reasons
  BY CanaryReasonType
<1>5. observed \in NotesOf("canary.observed", why)
      /\ <<>> \in NotesOf("canary.timeout", NoReason)
  BY <1>1 DEF NotesOf
<1>6. /\ decision = "promote" => why = Reason("canary_enough", {})
      /\ decision = "continue" => why = Reason("canary_insufficient", {})
      /\ decision = "rollback" =>
             \E limits \in (SUBSET {"error_rate", "p95_ms"}) \ {{}} :
                 why = Reason("canary_exceeded", limits)
  BY CanaryReasons
<1>7. MayMove("canary", "succeeded") /\ MayMove("canary", "rolled_back")
  BY DEF MayMove, Allowed
<1> HIDE DEF decision, why, observed
<1>9. CASE s # r
  <2>1. Kept(s)
    BY <1>1, <1>2, <1>3, <1>9, TransitionRow, LogRow DEF Kept, TypeOK
  <2> QED BY <2>1 DEF RowStep
<1>10. CASE s = r /\ decision = "promote"
  <2>1. Moves(s, "succeeded", why, who, observed, <<>>)
    BY <1>1, <1>2, <1>3, <1>7, <1>10, TransitionRow
  <2>2. approvedBy'[s] = approvedBy[s] /\ traffic'[s] = 100
    BY <1>1, <1>2, <1>10 DEF TypeOK
  <2>3. IsPromoted(s)
    BY <1>1, <1>5, <1>6, <1>10, <2>1, <2>2 DEF IsPromoted
  <2> QED BY <2>3 DEF RowStep
<1>11. CASE s = r /\ decision = "rollback"
  <2>1. Moves(s, "rolled_back", why, who, observed, <<>>)
    BY <1>1, <1>2, <1>3, <1>7, <1>11, TransitionRow
  <2>2. approvedBy'[s] = approvedBy[s] /\ traffic'[s] = 0
    BY <1>1, <1>2, <1>11 DEF TypeOK
  <2>3. IsRolledBack(s)
    BY <1>1, <1>4, <1>5, <1>6, <1>11, <2>1, <2>2 DEF IsRolledBack
  <2> QED BY <2>3 DEF RowStep
<1>12. CASE s = r /\ decision = "continue"
  <2>1. /\ Log(r, observed) /\ reason' = [reason EXCEPT ![r] = why]
        /\ UNCHANGED <<status, traffic>>
    BY <1>2, <1>12
  <2>2. journal'[s] = journal[s] \o observed
    BY <1>12, <2>1, LogRow
  <2>3. reason'[s] = why
    BY <1>12, <2>1 DEF TypeOK
  <2>4. GoesOn(s)
    BY <1>1, <1>3, <1>6, <1>12, <2>1, <2>2, <2>3 DEF GoesOn, observed
  <2> QED BY <2>4 DEF RowStep
<1> QED BY <1>2, <1>9, <1>10, <1>11, <1>12

\* reconcile_batch() times out the releases it owns, each on its own.
LEMMA ReconcileRow ==
    ASSUME TypeOK, NEW batch \in SUBSET Due, Reconcile(batch),
           NEW s \in Releases
    PROVE  RowStep(s)
<1> DEFINE owned == Owned(batch)
           why == Reason("timeout", {})
           before == <<StatusChanged("canary", "rolled_back", "reconciler",
                                     why)>>
           after == <<Note("canary.timeout", "reconciler", NoReason)>>
<1>1. /\ UNCHANGED <<envOf, approvedBy, results, details, receipts>>
      /\ status'[s] = IF s \in owned THEN "rolled_back" ELSE status[s]
      /\ reason'[s] = IF s \in owned THEN why ELSE reason[s]
      /\ journal'[s] = IF s \in owned
             THEN journal[s] \o <<StatusChanged("canary", "rolled_back",
                                                "reconciler", why),
                                  Note("canary.timeout", "reconciler",
                                       NoReason)>>
             ELSE journal[s]
      /\ traffic'[s] = IF s \in owned THEN 0 ELSE traffic[s]
  BY DEF Reconcile, ReconcileCommitted, identity, gateTables
<1>2. s \in owned => status[s] = "canary"
  BY DEF Owned, Due
<1>3. <<StatusChanged("canary", "rolled_back", "reconciler", why),
        Note("canary.timeout", "reconciler", NoReason)>>
          = <<>> \o before \o after
  OBVIOUS
<1>4. after \in NotesOf("canary.timeout", NoReason)
      /\ <<>> \in NotesOf("canary.observed", why)
      /\ "reconciler" \in Actors
  BY DEF NotesOf, Actors
<1>5. why \in Reasons
  BY PlainReasonType
<1>6. why \in {Reason("manual_rollback", {}), Reason("timeout", {})}
  OBVIOUS
<1>7. GatesKept(s)
  BY <1>1 DEF GatesKept, Accepted
<1> HIDE DEF owned, why, after
<1>8. CASE s \in owned
  <2>1. journal'[s] = journal[s] \o (<<>> \o before \o after)
    BY <1>1, <1>3, <1>8
  <2>2. MayMove("canary", "rolled_back")
    BY DEF MayMove, Allowed
  <2>3. Moves(s, "rolled_back", why, "reconciler", <<>>, after)
    BY <1>1, <1>2, <1>7, <1>8, <2>1, <2>2 DEF Moves
  <2>4. approvedBy'[s] = approvedBy[s] /\ traffic'[s] = 0
    BY <1>1, <1>8
  <2>5. IsRolledBack(s)
    BY <1>4, <1>5, <1>6, <2>3, <2>4 DEF IsRolledBack
  <2> QED BY <2>5 DEF RowStep
<1>9. CASE s \notin owned
  <2>1. Kept(s)
    BY <1>1, <1>7, <1>9 DEF Kept
  <2> QED BY <2>1 DEF RowStep
<1> QED BY <1>8, <1>9

\* receive_gate_webhook() reports one result of one release.
LEMMA WebhookRow ==
    ASSUME TypeOK, NEW w \in Webhooks, ReceiveWebhook(w), NEW s \in Releases
    PROVE  RowStep(s)
<1> PICK r \in Releases : r = w.release
  BY DEF Webhooks
<1> PICK outcome : outcome = [results[r] EXCEPT ![w.gate] = w.status]
  OBVIOUS
<1> PICK e \in Envs : e = envOf[r]
  BY DEF ReceiveWebhook, TypeOK, Exists
<1> DEFINE policy == Policy[e]
           target == EvaluateGates(policy.required_gates, outcome,
                                   policy.requires_approval)
           why == GateReason(policy.required_gates, outcome,
                             policy.requires_approval)
           evaluated == Evaluated(why)
           change == <<StatusChanged("evaluating", target, "policy-engine",
                                     why)>>
<1>1. /\ status[r] = "evaluating"
      /\ w.gate \in policy.required_gates
      /\ SameResult(w, results[r][w.gate], details[r][w.gate])
      /\ \A v \in receipts : v.event # w.event
      /\ results' = [results EXCEPT ![r] = outcome]
      /\ details' = [details EXCEPT ![r] = [@ EXCEPT ![w.gate] = w.details]]
      /\ receipts' = receipts \cup {w}
      /\ UNCHANGED <<envOf, traffic, approvedBy>>
  BY DEF ReceiveWebhook, WebhookCommitted, ReceiptsOf, identity, TypeOK
<1>2. \/ /\ target # "evaluating"
         /\ Transition(r, "evaluating", target, "policy-engine", why,
                       evaluated, <<>>)
      \/ /\ target = "evaluating" /\ Log(r, evaluated)
         /\ reason' = [reason EXCEPT ![r] = why] /\ status' = status
  BY DEF ReceiveWebhook, WebhookCommitted, GatesRecalculated, Evaluated,
         Reported, Transition, Log
<1>3. CASE s # r
  <2>1. Accepted(s)' = Accepted(s)
    BY <1>1, <1>3 DEF Accepted
  <2>2. GatesKept(s)
    BY <1>1, <1>3, <2>1 DEF GatesKept, TypeOK
  <2> HIDE DEF target, why, evaluated
  <2>3. /\ status'[s] = status[s] /\ reason'[s] = reason[s]
        /\ journal'[s] = journal[s]
    BY <1>1, <1>2, <1>3, TransitionRow, LogRow DEF TypeOK
  <2>4. Kept(s)
    BY <1>1, <1>3, <2>2, <2>3 DEF Kept
  <2> QED BY <2>4 DEF RowStep
<1>4. CASE s = r
  <2>1. /\ w \notin Accepted(r) /\ Accepted(r)' = Accepted(r) \cup {w}
        /\ w.release = r
    BY <1>1 DEF Accepted
  <2>2. /\ results'[r] = outcome
        /\ details'[r] = [details[r] EXCEPT ![w.gate] = w.details]
        /\ envOf'[r] = envOf[r] /\ traffic'[r] = traffic[r]
        /\ approvedBy'[r] = approvedBy[r]
    BY <1>1 DEF TypeOK
  <2>3. Ruling(r) = target /\ Why(r) = why
    BY <2>2 DEF Ruling, Why
  <2> HIDE DEF target, why, evaluated
  <2>4. CASE target # "evaluating"
    <3>1. /\ status' = [status EXCEPT ![r] = target]
          /\ reason' = [reason EXCEPT ![r] = why]
          /\ Log(r, evaluated \o change \o <<>>)
      BY <1>2, <2>4 DEF Transition
    <3>2. evaluated \o change \o <<>> = evaluated \o change
      BY DEF evaluated, Evaluated, Reported
    <3> HIDE DEF change
    <3>3. journal'[r] = journal[r] \o (evaluated \o change)
      BY <3>1, <3>2, LogRow
    <3>4. IsReported(r, w)
      BY <1>1, <2>1, <2>2, <2>3, <2>4, <3>1, <3>3
      DEF IsReported, TypeOK, evaluated, change
    <3> QED BY <1>4, <3>4 DEF RowStep
  <2>5. CASE target = "evaluating"
    <3>1. Log(r, evaluated) /\ status' = status
          /\ reason' = [reason EXCEPT ![r] = why]
      BY <1>2, <2>5
    <3>2. journal'[r] = journal[r] \o evaluated
      BY <3>1, LogRow
    <3>3. IsReported(r, w)
      BY <1>1, <2>1, <2>2, <2>3, <2>5, <3>1, <3>2
      DEF IsReported, TypeOK, evaluated
    <3> QED BY <1>4, <3>3 DEF RowStep
  <2> QED BY <2>4, <2>5
<1> QED BY <1>3, <1>4

\* No request, no notification, no pass of the reconciler does anything else to
\* a release.
LEMMA EveryRowSteps ==
    ASSUME TypeOK, [LedgerNext]_ledgerVars, NEW s \in Releases
    PROVE  RowStep(s)
<1>1. ASSUME UNCHANGED <<status, envOf, traffic, approvedBy, reason, results,
                         details, receipts, journal>>
      PROVE  RowStep(s)
  BY <1>1 DEF RowStep, Kept, GatesKept, Accepted
<1>2. CASE UNCHANGED ledgerVars
  BY <1>1, <1>2 DEF ledgerVars, identity, gateTables
<1>3. CASE \E r \in Releases : Expire(r)
  BY <1>1, <1>3 DEF Expire, identity, gateTables
<1>4. CASE ClientNext
  BY <1>4, CreateRow, ApproveRow, CancelRow, DeployRow, ObserveRow, RollbackRow
  DEF ClientNext
<1> QED
  BY <1>2, <1>3, <1>4, WebhookRow, ReconcileRow DEF LedgerNext, ReconcilerNext

-------------------------------------------------------------------------------
(* Gates, admission and traffic.                                           *)

\* evaluate_gates() lets a release on only with all its gates passed.
LEMMA GatesDecide ==
    ASSUME NEW required \in SUBSET Gates,
           NEW outcome \in [Gates -> GateStatus \cup {"missing"}],
           NEW approval \in BOOLEAN
    PROVE  LET target == EvaluateGates(required, outcome, approval)
               passed == \A g \in required : outcome[g] = "passed"
           IN  /\ target = "approved" <=> passed /\ ~approval
               /\ target = "awaiting_approval" <=> passed /\ approval
               /\ target = "blocked" <=>
                      \E g \in required : outcome[g] = "failed"
BY DEF EvaluateGates, FailedGates, MissingGates, GateStatus

\* What the policy of a release's environment gives the proofs.
LEMMA PolicyOfRelease ==
    ASSUME TypeOK, NEW r \in Releases, Exists(r)
    PROVE  /\ envOf[r] \in Envs
           /\ Policy[envOf[r]].required_gates \in SUBSET Gates
           /\ Policy[envOf[r]].requires_approval \in BOOLEAN
BY RowOfRelease DEF Policies

\* The guard of the gates is kept by every step, also after a release that was
\* approved without it.
LEMMA GatesGuardStep ==
    ASSUME TypeOK, GatesGuardCanary, \A r \in Releases : RowStep(r)
    PROVE  GatesGuardCanary'
<1> SUFFICES ASSUME NEW r \in Releases, status'[r] \in {"canary", "succeeded"},
                    NEW g \in Policy[envOf'[r]].required_gates
             PROVE  results'[r][g] = "passed"
  BY DEF GatesGuardCanary
<1>1. RowStep(r)
  OBVIOUS
<1>2. CASE Kept(r) \/ GoesOn(r)
  BY <1>2 DEF Kept, GoesOn, GatesKept, GatesGuardCanary
<1>3. CASE IsPromoted(r)
  <2>1. status[r] = "canary" /\ envOf'[r] = envOf[r] /\ results'[r] = results[r]
    BY <1>3 DEF IsPromoted, Moves, MayMove, Allowed, GatesKept
  <2> QED BY <2>1 DEF GatesGuardCanary
<1>4. CASE IsDeployed(r)
  <2>1. /\ Exists(r) /\ envOf'[r] = envOf[r] /\ results'[r] = results[r]
        /\ PassedGates(envOf[r], results[r])
    BY <1>4 DEF IsDeployed, Moves, MayMove, Allowed, GatesKept, Exists
  <2>2. /\ Policy[envOf[r]].required_gates \in SUBSET Gates
        /\ results[r] \in [Gates -> GateStatus \cup {"missing"}]
    BY <2>1, PolicyOfRelease DEF TypeOK
  <2>3. EvaluateGates(Policy[envOf[r]].required_gates, results[r], FALSE)
            = "approved"
    BY <2>1 DEF PassedGates
  <2>4. \A gate \in Policy[envOf[r]].required_gates :
            results[r][gate] = "passed"
    BY <2>2, <2>3, GatesDecide
  <2> QED BY <2>1, <2>4
<1>5. CASE IsCreated(r) \/ IsApproved(r) \/ IsCancelled(r) \/ IsRolledBack(r)
  BY <1>5 DEF IsCreated, IsApproved, IsCancelled, IsRolledBack, Moves
<1>6. ASSUME NEW w \in Webhooks, IsReported(r, w) PROVE FALSE
  <2>1. Ruling(r) \notin {"canary", "succeeded"}
    BY EvaluateGatesType DEF Ruling
  <2> QED BY <1>6, <2>1 DEF IsReported
<1> QED BY <1>1, <1>2, <1>3, <1>4, <1>5, <1>6 DEF RowStep

\* A release is blank until it is created and not approved until it waits.
LEMMA RowInvStep ==
    ASSUME TypeOK, NEW r \in Releases, RowInv(r), RowStep(r)
    PROVE  RowInv(r)'
<1> USE DEF RowInv, Blank, NotYetApproved
<1>1. CASE Kept(r)
  BY <1>1 DEF Kept, GatesKept
<1>2. CASE IsCreated(r) \/ GoesOn(r)
  BY <1>2 DEF IsCreated, GoesOn
<1>3. ASSUME NEW w \in Webhooks, IsReported(r, w) PROVE RowInv(r)'
  <2>1. Ruling(r) # "absent"
    BY EvaluateGatesType DEF Ruling
  <2> QED BY <1>3, <2>1 DEF IsReported
<1>4. CASE IsApproved(r) \/ IsCancelled(r) \/ IsDeployed(r) \/ IsPromoted(r)
           \/ IsRolledBack(r)
  BY <1>4 DEF IsApproved, IsCancelled, IsDeployed, IsPromoted, IsRolledBack,
              Moves
<1> QED BY <1>1, <1>2, <1>3, <1>4 DEF RowStep

\* Admission is kept by every step.
LEMMA AdmissionStep ==
    ASSUME TypeOK, TypeOK', \A r \in Releases : RowInv(r) /\ RowStep(r),
           Admission
    PROVE  Admission'
<1> USE DEF Admission
<1> SUFFICES ASSUME NEW r \in Releases
             PROVE  /\ status'[r] \in {"awaiting_approval", "approved"} =>
                           \A g \in Policy[envOf'[r]].required_gates :
                               results'[r][g] = "passed"
                    /\ status'[r] \in {"approved", "canary", "succeeded"} =>
                           (approvedBy'[r] \in Approvers
                                <=> Policy[envOf'[r]].requires_approval)
                    /\ status'[r] = "awaiting_approval" =>
                           Policy[envOf'[r]].requires_approval
  OBVIOUS
<1>1. RowStep(r) /\ RowInv(r)
  OBVIOUS
<1>2. CASE Kept(r) \/ GoesOn(r)
  BY <1>2 DEF Kept, GoesOn, GatesKept
<1>3. CASE IsCreated(r) \/ IsCancelled(r) \/ IsRolledBack(r)
  BY <1>3 DEF IsCreated, IsCancelled, IsRolledBack, Moves
<1>4. CASE IsDeployed(r) \/ IsPromoted(r)
  BY <1>4 DEF IsDeployed, IsPromoted, Moves, MayMove, Allowed
<1>5. CASE IsApproved(r)
  BY <1>5 DEF IsApproved, Moves, GatesKept
<1>6. ASSUME NEW w \in Webhooks, IsReported(r, w)
      PROVE  /\ status'[r] \in {"awaiting_approval", "approved"} =>
                    \A g \in Policy[envOf'[r]].required_gates :
                        results'[r][g] = "passed"
             /\ status'[r] \in {"approved", "canary", "succeeded"} =>
                    (approvedBy'[r] \in Approvers
                         <=> Policy[envOf'[r]].requires_approval)
             /\ status'[r] = "awaiting_approval" =>
                    Policy[envOf'[r]].requires_approval
  <2>1. /\ status[r] = "evaluating" /\ Exists(r) /\ status'[r] = Ruling(r)
        /\ envOf'[r] = envOf[r] /\ approvedBy'[r] = approvedBy[r]
    BY <1>6 DEF IsReported, Exists
  <2>2. approvedBy'[r] \notin Approvers
    BY <1>1, <2>1, LedgerAssumption DEF RowInv, NotYetApproved
  <2>3. results'[r] \in [Gates -> GateStatus \cup {"missing"}]
    BY DEF TypeOK
  <2>4. Ruling(r) \notin {"canary", "succeeded"}
    BY EvaluateGatesType DEF Ruling
  <2>5. LET passed == \A g \in Policy[envOf[r]].required_gates :
                          results'[r][g] = "passed"
            approval == Policy[envOf[r]].requires_approval
        IN  /\ Ruling(r) = "approved" <=> passed /\ ~approval
            /\ Ruling(r) = "awaiting_approval" <=> passed /\ approval
    BY <2>1, <2>3, PolicyOfRelease, GatesDecide DEF Ruling
  <2> QED BY <2>1, <2>2, <2>4, <2>5
<1> QED BY <1>1, <1>2, <1>3, <1>4, <1>5, <1>6 DEF RowStep

\* So is the share of traffic.
LEMMA TrafficStep ==
    ASSUME TypeOK, \A r \in Releases : RowStep(r), TrafficMatchesStatus
    PROVE  TrafficMatchesStatus'
<1> USE DEF TrafficMatchesStatus
<1> SUFFICES ASSUME NEW r \in Releases
             PROVE  /\ status'[r] = "canary" => traffic'[r] \in CanaryPercents
                    /\ status'[r] = "succeeded" => traffic'[r] = 100
                    /\ status'[r] \notin {"canary", "succeeded"} =>
                           traffic'[r] = 0
  OBVIOUS
<1>1. RowStep(r)
  OBVIOUS
<1>2. CASE Kept(r) \/ IsCreated(r) \/ GoesOn(r) \/ IsApproved(r)
  BY <1>2 DEF Kept, IsCreated, GoesOn, IsApproved, Moves
<1>3. CASE IsCancelled(r) \/ IsDeployed(r) \/ IsPromoted(r) \/ IsRolledBack(r)
  BY <1>3 DEF IsCancelled, IsDeployed, IsPromoted, IsRolledBack, Moves
<1>4. ASSUME NEW w \in Webhooks, IsReported(r, w)
      PROVE  /\ traffic'[r] = 0
             /\ status'[r] \notin {"canary", "succeeded"}
  <2>1. Ruling(r) \notin {"canary", "succeeded"}
    BY EvaluateGatesType DEF Ruling
  <2> QED BY <1>4, <2>1 DEF IsReported
<1> QED BY <1>1, <1>2, <1>3, <1>4 DEF RowStep

-------------------------------------------------------------------------------
(* What is settled.                                                        *)

\* No step touches a release that has ended, a result that was reported, or
\* the results of a release past its evaluation.
LEMMA SettledStep ==
    ASSUME TypeOK, \A r \in Releases : RowStep(r), NEW r \in Releases
    PROVE  /\ status[r] \in {"blocked", "cancelled", "rolled_back"} =>
                  /\ status'[r] = status[r]
                  /\ reason'[r] = reason[r]
                  /\ traffic'[r] = traffic[r]
           /\ \A g \in Gates : results[r][g] # "missing" =>
                  /\ results'[r][g] = results[r][g]
                  /\ details'[r][g] = details[r][g]
           /\ status[r] # "evaluating" => results'[r] = results[r]
<1> USE DEF GatesKept
<1>1. RowStep(r)
  OBVIOUS
<1>2. CASE Kept(r) \/ IsCreated(r) \/ GoesOn(r)
  BY <1>2 DEF Kept, IsCreated, GoesOn
<1>3. CASE IsApproved(r) \/ IsCancelled(r) \/ IsDeployed(r) \/ IsPromoted(r)
           \/ IsRolledBack(r)
  <2>1. GatesKept(r) /\ \E to : MayMove(status[r], to)
    BY <1>3 DEF IsApproved, IsCancelled, IsDeployed, IsPromoted, IsRolledBack,
                Moves
  <2> QED BY <2>1 DEF MayMove, Allowed
<1>4. ASSUME NEW w \in Webhooks, IsReported(r, w), NEW g \in Gates,
             results[r][g] # "missing"
      PROVE  results'[r][g] = results[r][g] /\ details'[r][g] = details[r][g]
  BY <1>4 DEF IsReported, SameResult, TypeOK
<1>5. ASSUME NEW w \in Webhooks, IsReported(r, w)
      PROVE  status[r] = "evaluating"
  BY <1>5 DEF IsReported
<1> QED BY <1>1, <1>2, <1>3, <1>4, <1>5 DEF RowStep

-------------------------------------------------------------------------------
(* The reason of a status.                                                 *)

\* Every step leaves each release with a reason that explains its status.
LEMMA ReasonStep ==
    ASSUME TypeOK, TypeOK', \A r \in Releases : RowInv(r) /\ RowStep(r),
           ReasonExplainsStatus
    PROVE  ReasonExplainsStatus'
<1> SUFFICES ASSUME NEW r \in Releases PROVE reason'[r] \in Explanations(r)'
  BY DEF ReasonExplainsStatus
<1>1. RowStep(r) /\ RowInv(r) /\ reason[r] \in Explanations(r)
  BY DEF ReasonExplainsStatus
<1>2. CASE Kept(r)
  BY <1>1, <1>2 DEF Kept, GatesKept, Explanations
<1>3. CASE IsCreated(r)
  <2> DEFINE required == Policy[envOf'[r]].required_gates
  <2>1. required \in SUBSET Gates
    BY <1>3, LedgerAssumption DEF IsCreated, Policies
  <2>2. results'[r] = [g \in Gates |-> "missing"] /\ reason'[r] = NoReason
    BY <1>1, <1>3 DEF IsCreated, GatesKept, RowInv, Blank
  <2>3. MissingGates(required, results'[r]) = required
    BY <2>1, <2>2 DEF MissingGates
  <2>4. status'[r] = "evaluating"
    BY <1>3 DEF IsCreated
  <2> QED BY <2>2, <2>3, <2>4 DEF Explanations
<1>4. CASE IsApproved(r)
  BY <1>4, LedgerAssumption DEF IsApproved, Moves, Explanations
<1>5. CASE IsCancelled(r) \/ IsDeployed(r) \/ IsPromoted(r) \/ GoesOn(r)
  BY <1>5 DEF IsCancelled, IsDeployed, IsPromoted, GoesOn, Moves, Explanations
<1>6. CASE IsRolledBack(r)
  <2>1. status'[r] = "rolled_back"
    BY <1>6 DEF IsRolledBack, Moves
  <2>2. Explanations(r)' =
            {Reason("manual_rollback", {}), Reason("timeout", {})} \cup
            {Reason("canary_exceeded", limits) :
                 limits \in (SUBSET {"error_rate", "p95_ms"}) \ {{}}}
    BY <2>1 DEF Explanations
  <2>3. reason'[r] \in {Reason("manual_rollback", {}), Reason("timeout", {})}
        \/ \E limits \in (SUBSET {"error_rate", "p95_ms"}) \ {{}} :
               reason'[r] = Reason("canary_exceeded", limits)
    BY <1>6 DEF IsRolledBack, Moves
  <2> QED BY <2>2, <2>3
<1>7. ASSUME NEW w \in Webhooks, IsReported(r, w)
      PROVE  reason'[r] \in Explanations(r)'
  <2> DEFINE required == Policy[envOf[r]].required_gates
             approval == Policy[envOf[r]].requires_approval
             missing == MissingGates(required, results'[r])
             failed == FailedGates(required, results'[r])
  <2>1. /\ status'[r] = Ruling(r) /\ reason'[r] = Why(r)
        /\ envOf'[r] = envOf[r] /\ approvedBy'[r] = approvedBy[r]
        /\ approvedBy[r] = Null /\ Exists(r)
    BY <1>1, <1>7 DEF IsReported, RowInv, NotYetApproved, Exists
  <2>2. w.gate \in required /\ results'[r][w.gate] # "missing"
    <3>1. w.gate \in Gates /\ w.gate \in required
      BY <1>7 DEF IsReported, Webhooks
    <3> QED BY <1>7, <3>1 DEF IsReported, TypeOK, Webhooks, GateStatus
  <2>3. missing # required
    BY <2>2 DEF MissingGates
  <2>4. approval \in BOOLEAN
    BY <2>1, PolicyOfRelease
  <2> QED
    BY <2>1, <2>3, <2>4
    DEF Ruling, Why, EvaluateGates, GateReason, Explanations
<1> QED BY <1>1, <1>2, <1>3, <1>4, <1>5, <1>6, <1>7 DEF RowStep

-------------------------------------------------------------------------------
(* Journals.                                                               *)

\* One more event that is not a change of status.
LEMMA TrailNote ==
    ASSUME NEW events \in Seq(Events), NEW st, NEW ev \in Events,
           Trail(events, st), ev.type # "release.status_changed"
    PROVE  Trail(Append(events, ev), st)
<1> DEFINE longer == Append(events, ev)
<1>1. /\ Len(longer) = Len(events) + 1 /\ Len(events) \in Nat
      /\ DOMAIN longer = 1..(Len(events) + 1)
      /\ DOMAIN events = 1..Len(events)
      /\ \A i \in 1..Len(events) : longer[i] = events[i]
      /\ longer[Len(events) + 1] = ev
      /\ longer # <<>>
  BY AppendProperties, LenProperties
<1> HIDE DEF longer
<1>2. StatusChanges(longer) = StatusChanges(events)
  BY <1>1 DEF StatusChanges
<1>3. \A i \in StatusChanges(events) : longer[i] = events[i] /\ i <= Len(events)
  BY <1>1 DEF StatusChanges
<1>4. \A n, to : ReplaysTo(longer, n, to) <=> ReplaysTo(events, n, to)
  BY <1>2, <1>3 DEF ReplaysTo
<1>5. ReplaysTo(longer, Len(longer), st)
  <2>1. {i \in StatusChanges(longer) : i <= Len(longer)}
            = {i \in StatusChanges(events) : i <= Len(events)}
    BY <1>1, <1>2, <1>3 DEF StatusChanges
  <2>2. ReplaysTo(events, Len(events), st)
    BY DEF Trail
  <2> QED BY <1>3, <2>1, <2>2 DEF ReplaysTo
<1>6. longer[1] = events[1]
  BY <1>1, EmptySeq, LenProperties DEF Trail
<1> QED BY <1>1, <1>2, <1>3, <1>4, <1>5, <1>6 DEF Trail, longer

\* One more change of status.
LEMMA TrailChange ==
    ASSUME NEW events \in Seq(Events), NEW ev \in Events,
           Trail(events, ev.from), ev.type = "release.status_changed"
    PROVE  Trail(Append(events, ev), ev.to)
<1> DEFINE longer == Append(events, ev)
           last == Len(events) + 1
<1>1. /\ Len(longer) = last /\ Len(events) \in Nat
      /\ DOMAIN longer = 1..last /\ DOMAIN events = 1..Len(events)
      /\ \A i \in 1..Len(events) : longer[i] = events[i]
      /\ longer[last] = ev
      /\ longer # <<>>
  BY AppendProperties, LenProperties
<1> HIDE DEF longer
<1>2. StatusChanges(longer) = StatusChanges(events) \cup {last}
  BY <1>1 DEF StatusChanges
<1>3. \A i \in StatusChanges(events) :
          longer[i] = events[i] /\ i <= Len(events) /\ i \in Nat
  BY <1>1 DEF StatusChanges
<1>4. ASSUME NEW n \in Int, n <= Len(events), NEW to
      PROVE  ReplaysTo(longer, n, to) <=> ReplaysTo(events, n, to)
  <2>1. {i \in StatusChanges(longer) : i <= n}
            = {i \in StatusChanges(events) : i <= n}
    BY <1>1, <1>2, <1>3, <1>4
  <2> QED BY <1>3, <2>1 DEF ReplaysTo
<1>5. ReplaysTo(longer, last, ev.to)
  BY <1>1, <1>2, <1>3 DEF ReplaysTo
<1>6. longer[1] = events[1]
  BY <1>1, EmptySeq, LenProperties DEF Trail
<1>7. ASSUME NEW i \in StatusChanges(longer)
      PROVE  ReplaysTo(longer, i - 1, longer[i].from)
  BY <1>1, <1>2, <1>3, <1>4, <1>7 DEF Trail
<1> QED BY <1>1, <1>5, <1>6, <1>7 DEF Trail, longer

\* The latest reason after one more event.
LEMMA LatestReasonAppend ==
    ASSUME NEW events \in Seq(Events), NEW why, NEW ev \in Events,
           LatestReason(events, why)
    PROVE  LatestReason(Append(events, ev),
                        IF ev.reason = NoReason THEN why ELSE ev.reason)
<1> DEFINE longer == Append(events, ev)
           last == Len(events) + 1
<1>1. /\ Len(longer) = last /\ Len(events) \in Nat
      /\ DOMAIN longer = 1..last /\ DOMAIN events = 1..Len(events)
      /\ \A i \in 1..Len(events) : longer[i] = events[i]
      /\ longer[last] = ev
  BY AppendProperties, LenProperties
<1> HIDE DEF longer
<1>2. \A i \in Reasoned(events) : longer[i] = events[i] /\ i < last
  BY <1>1 DEF Reasoned
<1>3. CASE ev.reason = NoReason
  <2>1. Reasoned(longer) = Reasoned(events)
    BY <1>1, <1>3 DEF Reasoned
  <2> QED BY <1>2, <1>3, <2>1 DEF LatestReason, longer
<1>4. CASE ev.reason # NoReason
  <2>1. Reasoned(longer) = Reasoned(events) \cup {last}
    BY <1>1, <1>4 DEF Reasoned
  <2>2. \A j \in Reasoned(longer) : j <= last
    BY <1>1, <1>2, <2>1 DEF Reasoned
  <2> QED BY <1>1, <1>4, <2>1, <2>2 DEF LatestReason, longer
<1> QED BY <1>3, <1>4

\* The number of events of a type after one more event.
LEMMA EventCountAppend ==
    ASSUME NEW events \in Seq(Events), NEW type, NEW ev \in Events
    PROVE  EventCount(Append(events, ev), type) =
               IF ev.type = type THEN EventCount(events, type) + 1
               ELSE EventCount(events, type)
<1> DEFINE longer == Append(events, ev)
           last == Len(events) + 1
           S == {i \in DOMAIN events : events[i].type = type}
           T == {i \in DOMAIN longer : longer[i].type = type}
<1>1. /\ Len(events) \in Nat
      /\ DOMAIN longer = 1..last /\ DOMAIN events = 1..Len(events)
      /\ \A i \in 1..Len(events) : longer[i] = events[i]
      /\ longer[last] = ev
  BY AppendProperties, LenProperties
<1> HIDE DEF longer
<1>2. /\ EventCount(longer, type) = Cardinality(T)
      /\ EventCount(events, type) = Cardinality(S)
  BY DEF EventCount
<1>3. IsFiniteSet(S) /\ Cardinality(S) \in Nat
  <2>1. IsFiniteSet(1..Len(events))
    BY <1>1, FS_Interval
  <2> QED BY <1>1, <2>1, FS_Subset, FS_CardinalityType
<1>4. CASE ev.type = type
  <2>1. T = S \cup {last} /\ last \notin S
    BY <1>1, <1>4
  <2>2. Cardinality(T) = Cardinality(S) + 1
    BY <1>3, <2>1, FS_AddElement
  <2> QED BY <1>2, <1>3, <1>4, <2>2 DEF longer
<1>5. CASE ev.type # type
  <2>1. T = S
    BY <1>1, <1>5
  <2> QED BY <1>2, <1>3, <1>5, <2>1 DEF longer
<1> QED BY <1>4, <1>5

\* What a journal says: the status, the latest reason, and how many results
\* were reported and evaluated.
Says(events, st, why, reports, evaluations) ==
    /\ Trail(events, st)
    /\ LatestReason(events, why)
    /\ EventCount(events, "gate.reported") = reports
    /\ EventCount(events, "release.gates_evaluated") = evaluations

\* After one more event, which starts where the journal ended if it is a change
\* of status.
LEMMA SaysAppend ==
    ASSUME NEW events \in Seq(Events), NEW ev \in Events,
           NEW st, NEW why, NEW reports \in Nat, NEW evaluations \in Nat,
           Says(events, st, why, reports, evaluations),
           ev.type = "release.status_changed" => ev.from = st
    PROVE  LET changed == ev.type = "release.status_changed"
               given == ev.reason # NoReason
               reported == ev.type = "gate.reported"
               evaluated == ev.type = "release.gates_evaluated"
           IN  Says(Append(events, ev),
                    IF changed THEN ev.to ELSE st,
                    IF given THEN ev.reason ELSE why,
                    IF reported THEN reports + 1 ELSE reports,
                    IF evaluated THEN evaluations + 1 ELSE evaluations)
<1> DEFINE longer == Append(events, ev)
<1>1. Trail(longer, IF ev.type = "release.status_changed" THEN ev.to ELSE st)
  BY TrailNote, TrailChange DEF Says
<1>2. LatestReason(longer, IF ev.reason # NoReason THEN ev.reason ELSE why)
  BY LatestReasonAppend DEF Says
<1>3. EventCount(longer, "gate.reported") =
          IF ev.type = "gate.reported" THEN reports + 1 ELSE reports
  BY EventCountAppend DEF Says
<1>4. EventCount(longer, "release.gates_evaluated") =
          IF ev.type = "release.gates_evaluated" THEN evaluations + 1
          ELSE evaluations
  BY EventCountAppend DEF Says
<1> QED BY <1>1, <1>2, <1>3, <1>4 DEF Says

\* The fields of the two kinds of event.
LEMMA EventFields ==
    /\ \A type, actor, why : /\ Note(type, actor, why).type = type
                             /\ Note(type, actor, why).reason = why
    /\ \A from, to, actor, why :
           LET ev == StatusChanged(from, to, actor, why)
           IN  /\ ev.type = "release.status_changed" /\ ev.reason = why
               /\ ev.from = from /\ ev.to = to
BY DEF Note, StatusChanged, Event

\* What the journal of a release must say at any moment.
JournalInv(r) ==
    /\ IsFiniteSet(Accepted(r))
    /\ Exists(r) => LET accepted == Cardinality(Accepted(r))
                    IN  Says(journal[r], status[r], reason[r],
                             accepted, accepted)

\* Journals are joined in any order.
LEMMA EventsAssociative ==
    \A s, t, u \in Seq(Events) : (s \o t) \o u = s \o (t \o u)
BY ConcatAssociative

\* What a journal says after transition(), and the notes around it.
LEMMA SaysMoved ==
    ASSUME NEW events \in Seq(Events), NEW st \in ReleaseStatus, NEW old,
           NEW n \in Nat, Says(events, st, old, n, n),
           NEW to \in ReleaseStatus, NEW actor \in Actors,
           NEW why \in Reasons, why # NoReason,
           NEW before \in NotesOf("canary.observed", why),
           NEW after \in NotesOf("canary.timeout", NoReason)
    PROVE  Says(events \o (before \o <<StatusChanged(st, to, actor, why)>>
                                   \o after), to, why, n, n)
<1> DEFINE change == StatusChanged(st, to, actor, why)
<1>1. /\ change \in Events
      /\ change.type = "release.status_changed" /\ change.reason = why
      /\ change.from = st /\ change.to = to
  BY StatusChangedType, EventFields
<1> HIDE DEF change
<1>2. /\ before \in Seq(Events) /\ <<change>> \in Seq(Events)
      /\ after \in Seq(Events)
  <2>1. <<change>> \in Seq(Events) /\ <<>> \in Seq(Events)
    BY <1>1, EmptySeq
  <2>2. ASSUME NEW who \in Actors
        PROVE  /\ <<Note("canary.observed", who, why)>> \in Seq(Events)
               /\ <<Note("canary.timeout", who, NoReason)>> \in Seq(Events)
    <3>1. /\ Note("canary.observed", who, why) \in Events
          /\ Note("canary.timeout", who, NoReason) \in Events
      BY NoteType, PlainReasonType DEF NoReason
    <3> QED BY <3>1
  <2> QED BY <2>1, <2>2 DEF NotesOf
<1>3. PICK first \in Seq(Events) :
          /\ first = events \o before
          /\ \E why1 : Says(first, st, why1, n, n)
  <2>1. CASE before = <<>>
    BY <2>1, ConcatEmptySeq
  <2>2. ASSUME NEW who \in Actors,
               before = <<Note("canary.observed", who, why)>>
        PROVE  /\ events \o before \in Seq(Events)
               /\ \E why1 : Says(events \o before, st, why1, n, n)
    <3> DEFINE ev == Note("canary.observed", who, why)
    <3>1. ev \in Events /\ ev.type = "canary.observed" /\ ev.reason = why
      BY NoteType, EventFields
    <3> HIDE DEF ev
    <3>2. Says(Append(events, ev), st, why, n, n)
      BY <3>1, SaysAppend
    <3>3. events \o before = Append(events, ev)
          /\ Append(events, ev) \in Seq(Events)
      BY <2>2, <3>1, AppendIsConcat, AppendProperties DEF ev
    <3> QED BY <3>2, <3>3
  <2> QED BY <2>1, <2>2 DEF NotesOf
<1>4. /\ Says(Append(first, change), to, why, n, n)
      /\ Append(first, change) \in Seq(Events)
  BY <1>1, <1>3, SaysAppend, AppendProperties
<1> DEFINE c == <<change>>
<1>5. Append(first, change) = events \o (before \o c)
  <2>1. c \in Seq(Events) /\ Append(first, change) = first \o c
    BY <1>1, <1>2, <1>3, AppendIsConcat
  <2> HIDE DEF c
  <2>2. (events \o before) \o c = events \o (before \o c)
    BY <1>2, <2>1, EventsAssociative, Zenon
  <2> QED BY <1>3, <2>1, <2>2, Zenon
<1>6. CASE after = <<>>
  <2>1. (before \o c) \o after = before \o c
    BY <1>6, <1>2, ConcatProperties, ConcatEmptySeq
  <2> QED BY <1>4, <1>5, <2>1 DEF change
<1>7. ASSUME NEW who \in Actors,
             after = <<Note("canary.timeout", who, NoReason)>>
      PROVE  Says(events \o (before \o c \o after), to, why, n, n)
  <2> DEFINE ev == Note("canary.timeout", who, NoReason)
             second == Append(first, change)
  <2>1. /\ ev \in Events /\ ev.type = "canary.timeout"
        /\ ev.reason = NoReason
    BY NoteType, EventFields, PlainReasonType DEF NoReason
  <2> HIDE DEF ev
  <2>2. Says(Append(second, ev), to, why, n, n)
    BY <1>4, <2>1, SaysAppend
  <2>3. Append(second, ev) = second \o after
    BY <1>4, <1>7, <2>1, AppendIsConcat DEF ev
  <2>4. second \o after = events \o (before \o c \o after)
    <3>1. before \o c \in Seq(Events) /\ c \in Seq(Events)
      BY <1>2, ConcatProperties
    <3> HIDE DEF c
    <3>2. (events \o (before \o c)) \o after
              = events \o ((before \o c) \o after)
      BY <1>2, <3>1, EventsAssociative, Zenon
    <3> QED BY <1>5, <3>2, Zenon
  <2> QED BY <2>2, <2>3, <2>4
<1> QED BY <1>6, <1>7 DEF NotesOf, change

\* And after a notification, before the change of status if there is one.
LEMMA SaysEvaluated ==
    ASSUME NEW events \in Seq(Events), NEW st, NEW old, NEW n \in Nat,
           Says(events, st, old, n, n), NEW why \in Reasons, why # NoReason
    PROVE  /\ events \o Evaluated(why) \in Seq(Events)
           /\ Says(events \o Evaluated(why), st, why, n + 1, n + 1)
<1> DEFINE a == Note("gate.reported", "ci-webhook", NoReason)
           b == Note("release.gates_evaluated", "policy-engine", why)
<1>1. /\ a \in Events /\ a.type = "gate.reported" /\ a.reason = NoReason
      /\ b \in Events /\ b.type = "release.gates_evaluated"
      /\ b.reason = why
  <2>1. /\ NoReason \in Reasons
        /\ "ci-webhook" \in Actors /\ "policy-engine" \in Actors
    BY PlainReasonType DEF NoReason, Actors
  <2>2. a \in Events /\ b \in Events
    BY <2>1, NoteType
  <2> QED BY <2>2, EventFields
<1>2. Evaluated(why) = <<a>> \o <<b>>
  BY DEF Evaluated, Reported
<1> HIDE DEF a, b
<1> DEFINE one == Append(events, a)
           sa == <<a>>
           sb == <<b>>
<1>3. /\ one \in Seq(Events) /\ Append(one, b) \in Seq(Events)
      /\ sa \in Seq(Events) /\ sb \in Seq(Events)
      /\ one = events \o sa /\ Append(one, b) = one \o sb
  <2>1. one \in Seq(Events) /\ Append(one, b) \in Seq(Events)
    BY <1>1, AppendProperties
  <2>2. sa \in Seq(Events) /\ sb \in Seq(Events)
    BY <1>1
  <2>3. one = events \o sa /\ Append(one, b) = one \o sb
    BY <1>1, <2>1, AppendIsConcat
  <2> QED BY <2>1, <2>2, <2>3
<1>4. Says(one, st, old, n + 1, n)
  BY <1>1, SaysAppend
<1>5. Says(Append(one, b), st, why, n + 1, n + 1)
  BY <1>1, <1>3, <1>4, SaysAppend
<1>6. Append(one, b) = events \o (sa \o sb)
  <2> HIDE DEF sa, sb, one
  <2>1. (events \o sa) \o sb = events \o (sa \o sb)
    BY <1>3, EventsAssociative, Zenon
  <2> QED BY <1>3, <2>1, Zenon
<1> QED BY <1>2, <1>3, <1>5, <1>6

\* Every step leaves the journal of every release true.
LEMMA JournalStep ==
    ASSUME TypeOK, NEW r \in Releases, RowInv(r), JournalInv(r), RowStep(r)
    PROVE  JournalInv(r)'
<1> PICK n : n = Cardinality(Accepted(r))
  OBVIOUS
<1> PICK events \in Seq(Events) : events = journal[r]
  BY DEF TypeOK
<1> PICK st \in ReleaseStatus \cup {"absent"} : st = status[r]
  BY DEF TypeOK
<1> PICK old \in Reasons : old = reason[r]
  BY DEF TypeOK
<1>1. /\ IsFiniteSet(Accepted(r)) /\ n \in Nat
      /\ st # "absent" => Says(events, st, old, n, n)
  BY FS_CardinalityType DEF JournalInv, Exists
<1>2. CASE Kept(r)
  BY <1>1, <1>2 DEF Kept, GatesKept, JournalInv, Exists
<1>3. CASE IsCreated(r)
  <2>1. /\ events = <<>> /\ old = NoReason /\ n = 0
        /\ status'[r] = "evaluating" /\ reason'[r] = old
        /\ Accepted(r)' = Accepted(r)
    BY <1>3, FS_EmptySet DEF IsCreated, RowInv, Blank, GatesKept
  <2>2. PICK who \in Actors :
            journal'[r] = events \o <<Note("release.created", who, NoReason)>>
    BY <1>3 DEF IsCreated
  <2> DEFINE ev == Note("release.created", who, NoReason)
             new == <<ev>>
  <2>3. /\ ev \in Events /\ ev.type = "release.created"
        /\ ev.reason = NoReason
    BY NoteType, EventFields, PlainReasonType DEF NoReason
  <2>4. journal'[r] = <<ev>>
    BY <2>1, <2>2
  <2> HIDE DEF ev
  <2>5. /\ Len(new) = 1 /\ DOMAIN new = {1} /\ new[1] = ev /\ new # <<>>
    OBVIOUS
  <2> HIDE DEF new
  <2>6. /\ StatusChanges(new) = {} /\ Reasoned(new) = {}
        /\ \A type : (type # "release.created") => EventCount(new, type) = 0
    <3>1. StatusChanges(new) = {} /\ Reasoned(new) = {}
      BY <2>3, <2>5 DEF StatusChanges, Reasoned
    <3>2. ASSUME NEW type, type # "release.created"
          PROVE  EventCount(new, type) = 0
      <4>1. {i \in DOMAIN new : new[i].type = type} = {}
        BY <2>3, <2>5, <3>2
      <4> QED BY <4>1, FS_EmptySet DEF EventCount
    <3> QED BY <3>1, <3>2
  <2>7. Trail(new, "evaluating")
    BY <2>3, <2>5, <2>6 DEF Trail, ReplaysTo
  <2>8. Says(new, "evaluating", NoReason, 0, 0)
    BY <2>6, <2>7 DEF Says, LatestReason
  <2> QED BY <1>1, <2>1, <2>4, <2>8 DEF JournalInv, new
<1>4. ASSUME NEW to \in ReleaseStatus, NEW why \in Reasons, why # NoReason,
             NEW actor \in Actors,
             NEW before \in NotesOf("canary.observed", why),
             NEW after \in NotesOf("canary.timeout", NoReason),
             status'[r] = to, reason'[r] = why, MayMove(st, to),
             journal'[r] = events \o
                 (before \o <<StatusChanged(st, to, actor, why)>> \o after),
             Accepted(r)' = Accepted(r)
      PROVE  JournalInv(r)'
  <2>1. st \in ReleaseStatus /\ st # "absent"
    BY <1>4 DEF MayMove, Allowed, ReleaseStatus
  <2>2. Says(journal'[r], to, why, n, n)
    BY <1>1, <1>4, <2>1, SaysMoved
  <2> QED BY <1>1, <1>4, <2>2 DEF JournalInv
<1>5. \A why : /\ <<>> \in NotesOf("canary.observed", why)
               /\ <<>> \in NotesOf("canary.timeout", NoReason)
  BY DEF NotesOf
<1>6. CASE IsApproved(r)
  <2> DEFINE why == Reason("approval_received", {})
  <2>1. why \in Reasons /\ why # NoReason
    BY PlainReasonType DEF Reason, NoReason
  <2>2. PICK actor \in Actors : actor = approvedBy'[r]
    BY <1>6 DEF IsApproved, Actors
  <2> QED
    BY <1>4, <1>5, <1>6, <2>1, <2>2
    DEF IsApproved, Moves, GatesKept, ReleaseStatus
<1>7. CASE IsCancelled(r)
  <2> DEFINE why == Reason("cancelled_by_operator", {})
  <2>1. why \in Reasons /\ why # NoReason
    BY PlainReasonType DEF Reason, NoReason
  <2> QED
    BY <1>4, <1>5, <1>7, <2>1 DEF IsCancelled, Moves, GatesKept, ReleaseStatus
<1>8. CASE IsDeployed(r)
  <2> DEFINE why == Reason("canary_started", {})
  <2>1. why \in Reasons /\ why # NoReason
    BY PlainReasonType DEF Reason, NoReason
  <2> QED
    BY <1>4, <1>5, <1>8, <2>1 DEF IsDeployed, Moves, GatesKept, ReleaseStatus
<1>9. CASE IsPromoted(r)
  <2> DEFINE why == Reason("canary_enough", {})
  <2>1. why \in Reasons /\ why # NoReason
    BY DEF Reason, NoReason, Reasons
  <2> QED
    BY <1>4, <1>5, <1>9, <2>1 DEF IsPromoted, Moves, GatesKept, ReleaseStatus
<1>10. CASE IsRolledBack(r)
  <2>1. PICK actor \in Actors, why \in Reasons :
            /\ \/ why \in {Reason("manual_rollback", {}), Reason("timeout", {})}
               \/ \E limits \in (SUBSET {"error_rate", "p95_ms"}) \ {{}} :
                      why = Reason("canary_exceeded", limits)
            /\ \E before \in NotesOf("canary.observed", why),
                  after \in NotesOf("canary.timeout", NoReason) :
                   Moves(r, "rolled_back", why, actor, before, after)
    BY <1>10 DEF IsRolledBack
  <2>2. why # NoReason
    BY <2>1 DEF Reason, NoReason
  <2> QED BY <1>4, <2>1, <2>2 DEF Moves, GatesKept, ReleaseStatus
<1>11. CASE GoesOn(r)
  <2> PICK why : why = Reason("canary_insufficient", {})
    OBVIOUS
  <2>1. why \in Reasons /\ why # NoReason
    BY DEF Reason, NoReason, Reasons
  <2>2. PICK who \in Actors :
            journal'[r] = events \o <<Note("canary.observed", who, why)>>
    BY <1>11 DEF GoesOn
  <2>3. /\ st = "canary" /\ status'[r] = st /\ reason'[r] = why
        /\ Accepted(r)' = Accepted(r)
    BY <1>11 DEF GoesOn, GatesKept
  <2> DEFINE ev == Note("canary.observed", who, why)
  <2>4. ev \in Events /\ ev.type = "canary.observed" /\ ev.reason = why
    BY <2>1, NoteType, EventFields
  <2>5. journal'[r] = events \o <<ev>>
    BY <2>2
  <2> HIDE DEF ev
  <2>6. journal'[r] = Append(events, ev)
    BY <2>4, <2>5, AppendIsConcat
  <2>7. Says(journal'[r], st, why, n, n)
    BY <1>1, <2>1, <2>3, <2>4, <2>6, SaysAppend
  <2> QED BY <1>1, <2>3, <2>7 DEF JournalInv
<1>12. ASSUME NEW w \in Webhooks, IsReported(r, w) PROVE JournalInv(r)'
  <2> PICK to \in ReleaseStatus : to = Ruling(r)
    BY EvaluateGatesType DEF Ruling, ReleaseStatus
  <2>1. /\ st = "evaluating" /\ status'[r] = to /\ Exists(r)
        /\ Accepted(r)' = Accepted(r) \cup {w} /\ w \notin Accepted(r)
        /\ envOf'[r] = envOf[r]
    BY <1>12 DEF IsReported, Exists
  <2> PICK why \in Reasons : why = Why(r)
    BY <2>1, PolicyOfRelease, GateReasonType DEF Why
  <2>2. why # NoReason
    BY DEF Why, GateReason, Reason, NoReason
  <2>3. /\ reason'[r] = why
        /\ journal'[r] = events \o
               IF to = "evaluating" THEN Evaluated(why)
               ELSE Evaluated(why) \o
                    <<StatusChanged("evaluating", to, "policy-engine", why)>>
    BY <1>12 DEF IsReported
  <2>4. /\ IsFiniteSet(Accepted(r)') /\ Cardinality(Accepted(r)') = n + 1
    BY <1>1, <2>1, FS_AddElement
  <2> DEFINE first == events \o Evaluated(why)
             change == StatusChanged("evaluating", to, "policy-engine", why)
             c == <<change>>
  <2>5. first \in Seq(Events) /\ Says(first, "evaluating", why, n + 1, n + 1)
    BY <1>1, <2>1, <2>2, SaysEvaluated
  <2>6. CASE to = "evaluating"
    <3>1. Says(journal'[r], to, why, n + 1, n + 1)
      BY <2>3, <2>5, <2>6
    <3> QED BY <2>1, <2>3, <2>4, <3>1 DEF JournalInv
  <2>7. CASE to # "evaluating"
    <3>1. /\ change \in Events
          /\ change.type = "release.status_changed" /\ change.reason = why
          /\ change.from = "evaluating" /\ change.to = to
      <4>1. "evaluating" \in ReleaseStatus /\ "policy-engine" \in Actors
        BY DEF ReleaseStatus, Actors
      <4>2. change \in Events
        BY <4>1, StatusChangedType
      <4> QED BY <4>2, EventFields
    <3> HIDE DEF change
    <3>2. Says(Append(first, change), to, why, n + 1, n + 1)
      <4> HIDE DEF first
      <4>1. n + 1 \in Nat
        BY <1>1
      <4> QED BY <2>2, <2>5, <3>1, <4>1, SaysAppend
    <3>3. Append(first, change) = first \o c /\ c \in Seq(Events)
      BY <2>5, <3>1, AppendIsConcat
    <3>4. Evaluated(why) \in Seq(Events)
      <4>1. <<>> \o Evaluated(why) = Evaluated(why)
        BY DEF Evaluated, Reported
      <4>2. /\ Note("gate.reported", "ci-webhook", NoReason) \in Events
            /\ Note("release.gates_evaluated", "policy-engine", why) \in Events
        BY NoteType, PlainReasonType DEF NoReason, Actors
      <4> QED BY <4>2, ConcatProperties DEF Evaluated, Reported
    <3>5. journal'[r] = events \o (Evaluated(why) \o c)
      BY <2>3, <2>7 DEF change
    <3> HIDE DEF c
    <3>6. (events \o Evaluated(why)) \o c = events \o (Evaluated(why) \o c)
      BY <3>3, <3>4, EventsAssociative, Zenon
    <3>7. journal'[r] = Append(first, change)
      BY <3>3, <3>5, <3>6, Zenon
    <3>8. Says(journal'[r], to, why, n + 1, n + 1)
      BY <3>2, <3>7
    <3> QED BY <2>1, <2>3, <2>4, <3>8 DEF JournalInv
  <2> QED BY <2>6, <2>7
<1> QED
  BY <1>2, <1>3, <1>6, <1>7, <1>8, <1>9, <1>10, <1>11, <1>12 DEF RowStep

-------------------------------------------------------------------------------
(* Receipts.                                                               *)

\* The notifications accepted for a gate agree with its result.
Agrees(r) ==
    \A w \in Accepted(r) : /\ results[r][w.gate] = w.status
                            /\ details[r][w.gate] = w.details

\* A second notification for a gate is accepted only if it repeats the first.
LEMMA AgreesStep ==
    ASSUME TypeOK, NEW r \in Releases, Agrees(r), RowStep(r)
    PROVE  Agrees(r)'
<1>1. CASE GatesKept(r)
  BY <1>1 DEF GatesKept, Agrees
<1>2. ASSUME NEW w \in Webhooks, IsReported(r, w) PROVE Agrees(r)'
  <2> SUFFICES ASSUME NEW v \in Accepted(r) \cup {w}
               PROVE  /\ results'[r][v.gate] = v.status
                      /\ details'[r][v.gate] = v.details
    BY <1>2 DEF IsReported, Agrees
  <2>1. /\ results[r] \in [Gates -> GateStatus \cup {"missing"}]
        /\ details[r] \in [Gates -> Details \cup {Null}]
        /\ v \in Webhooks
    BY DEF TypeOK, Accepted
  <2>2. /\ results'[r] = [results[r] EXCEPT ![w.gate] = w.status]
        /\ details'[r] = [details[r] EXCEPT ![w.gate] = w.details]
        /\ SameResult(w, results[r][w.gate], details[r][w.gate])
    BY <1>2 DEF IsReported
  <2>3. CASE v = w
    BY <2>1, <2>2, <2>3 DEF Webhooks
  <2>4. CASE v # w
    <3>1. results[r][v.gate] = v.status /\ details[r][v.gate] = v.details
      BY <2>4 DEF Agrees
    <3>2. v.status # "missing" /\ v.gate \in Gates /\ w.gate \in Gates
      BY <2>1 DEF Webhooks, GateStatus
    <3> QED BY <2>1, <2>2, <3>1, <3>2 DEF SameResult
  <2> QED BY <2>3, <2>4
<1> QED
  BY <1>1, <1>2 DEF RowStep, Kept, IsCreated, IsApproved, IsCancelled,
                    IsDeployed, IsPromoted, IsRolledBack, GoesOn, Moves

-------------------------------------------------------------------------------
(* What a step adds to a journal.                                          *)

\* The events that record the start of the canary.
BeginsCanary(event) ==
    event.type = "release.status_changed" /\ event.to = "canary"

\* Events none of which records the start of a canary.
Plain == {events \in Seq(Events) :
              \A i \in 1..Len(events) : ~BeginsCanary(events[i])}

\* One event or none.
LEMMA PlainEvents ==
    /\ <<>> \in Plain
    /\ \A ev \in Events : ~BeginsCanary(ev) => <<ev>> \in Plain
BY DEF Plain

\* Such events, joined.
LEMMA PlainJoined ==
    ASSUME NEW s \in Plain, NEW t \in Plain
    PROVE  s \o t \in Plain
<1>1. s \in Seq(Events) /\ t \in Seq(Events)
  BY DEF Plain
<1>2. /\ s \o t \in Seq(Events) /\ Len(s \o t) = Len(s) + Len(t)
      /\ \A i \in 1..(Len(s) + Len(t)) :
             (s \o t)[i] = IF i <= Len(s) THEN s[i] ELSE t[i - Len(s)]
  BY <1>1, ConcatProperties
<1>3. Len(s) \in Nat /\ Len(t) \in Nat
  BY <1>1, LenProperties
<1>4. ASSUME NEW i \in 1..(Len(s) + Len(t))
      PROVE  ~BeginsCanary((s \o t)[i])
  <2>1. CASE i <= Len(s)
    BY <1>2, <1>3, <2>1 DEF Plain
  <2>2. CASE i > Len(s)
    <3>1. i - Len(s) \in 1..Len(t)
      BY <1>3, <2>2
    <3> QED BY <1>2, <2>2, <3>1, <1>3 DEF Plain
  <2> QED BY <1>3, <2>1, <2>2
<1> QED BY <1>2, <1>4 DEF Plain

\* The notes of the handlers, and the changes to another status.
LEMMA PlainNotes ==
    /\ \A type \in {"release.created", "release.gates_evaluated",
                    "gate.reported", "canary.observed", "canary.timeout"},
          actor \in Actors, why \in Reasons :
              <<Note(type, actor, why)>> \in Plain
    /\ \A from, to \in ReleaseStatus, actor \in Actors, why \in Reasons :
           to # "canary" => <<StatusChanged(from, to, actor, why)>> \in Plain
<1>1. ASSUME NEW type \in {"release.created", "release.gates_evaluated",
                           "gate.reported", "canary.observed",
                           "canary.timeout"},
             NEW actor \in Actors, NEW why \in Reasons
      PROVE  <<Note(type, actor, why)>> \in Plain
  <2>1. Note(type, actor, why) \in Events
    BY NoteType
  <2>2. ~BeginsCanary(Note(type, actor, why))
    BY EventFields DEF BeginsCanary
  <2> QED BY <2>1, <2>2, PlainEvents
<1>2. ASSUME NEW from \in ReleaseStatus, NEW to \in ReleaseStatus,
             NEW actor \in Actors, NEW why \in Reasons, to # "canary"
      PROVE  <<StatusChanged(from, to, actor, why)>> \in Plain
  <2>1. StatusChanged(from, to, actor, why) \in Events
    BY StatusChangedType
  <2>2. ~BeginsCanary(StatusChanged(from, to, actor, why))
    BY <1>2, EventFields DEF BeginsCanary
  <2> QED BY <2>1, <2>2, PlainEvents
<1> QED BY <1>1, <1>2

\* transition() to another status, with the notes around it.
LEMMA PlainMoves ==
    ASSUME TypeOK, TypeOK', NEW r \in Releases, status[r] # "absent",
           NEW to, to # "canary", NEW why \in Reasons, NEW actor \in Actors,
           NEW before \in Plain, NEW after \in Plain,
           Moves(r, to, why, actor, before, after)
    PROVE  \E new \in Plain : journal'[r] = journal[r] \o new
<1>1. status[r] \in ReleaseStatus /\ to \in ReleaseStatus
  BY DEF TypeOK, Moves, MayMove, Allowed, ReleaseStatus
<1>2. <<StatusChanged(status[r], to, actor, why)>> \in Plain
  BY <1>1, PlainNotes
<1>3. before \o <<StatusChanged(status[r], to, actor, why)>> \o after \in Plain
  BY <1>2, PlainJoined
<1> QED BY <1>3 DEF Moves

\* A step adds events to the journal, none of them the start of a canary but
\* when it starts one.
LEMMA RowAdds ==
    ASSUME TypeOK, TypeOK', NEW r \in Releases, RowStep(r)
    PROVE  \E new \in Seq(Events) : /\ journal'[r] = journal[r] \o new
                                    /\ \/ new \in Plain
                                       \/ /\ status[r] = "approved"
                                          /\ status'[r] = "canary"
<1> SUFFICES \/ \E new \in Plain : journal'[r] = journal[r] \o new
             \/ /\ status[r] = "approved" /\ status'[r] = "canary"
                /\ \E new \in Seq(Events) : journal'[r] = journal[r] \o new
  BY DEF Plain
<1>1. journal[r] \in Seq(Events)
  BY DEF TypeOK
<1>2. /\ NoReason \in Reasons
      /\ \A kind \in {"approval_received", "manual_rollback", "timeout",
                      "canary_started", "cancelled_by_operator"} :
             Reason(kind, {}) \in Reasons
      /\ {"ci-webhook", "policy-engine"} \subseteq Actors
      /\ Approvers \subseteq Actors
  BY PlainReasonType DEF NoReason, Actors
<1>3. reason'[r] \in Reasons
  BY DEF TypeOK
<1>4. \A type \in {"canary.observed", "canary.timeout"}, why \in Reasons :
          NotesOf(type, why) \subseteq Plain
  BY PlainEvents, PlainNotes DEF NotesOf
<1>5. CASE Kept(r)
  <2>1. journal'[r] = journal[r] \o <<>>
    BY <1>1, <1>5, ConcatEmptySeq DEF Kept
  <2> QED BY <2>1, PlainEvents
<1>6. CASE IsCreated(r)
  BY <1>2, <1>6, PlainNotes DEF IsCreated
<1>7. CASE GoesOn(r)
  BY <1>3, <1>7, PlainNotes DEF GoesOn
<1>8. ASSUME NEW w \in Webhooks, IsReported(r, w)
      PROVE  \E new \in Plain : journal'[r] = journal[r] \o new
  <2>1. Why(r) \in Reasons
    BY <1>3, <1>8 DEF IsReported
  <2>2. Evaluated(Why(r)) \in Plain
    BY <1>2, <2>1, PlainNotes, PlainJoined DEF Evaluated, Reported
  <2>3. CASE Ruling(r) = "evaluating"
    BY <1>8, <2>2, <2>3 DEF IsReported
  <2>4. CASE Ruling(r) # "evaluating"
    <3>1. Ruling(r) \in ReleaseStatus /\ Ruling(r) # "canary"
      BY EvaluateGatesType DEF Ruling, ReleaseStatus
    <3>2. <<StatusChanged("evaluating", Ruling(r), "policy-engine", Why(r))>>
              \in Plain
      BY <1>2, <2>1, <3>1, PlainNotes DEF ReleaseStatus
    <3>3. (Evaluated(Why(r)) \o
               <<StatusChanged("evaluating", Ruling(r), "policy-engine",
                               Why(r))>>) \in Plain
      BY <2>2, <3>2, PlainJoined
    <3> QED BY <1>8, <2>4, <3>3 DEF IsReported
  <2> QED BY <2>3, <2>4
<1>9. CASE IsApproved(r)
  BY <1>2, <1>9, PlainMoves, PlainEvents DEF IsApproved
<1>10. CASE IsCancelled(r)
  <2>1. status[r] # "absent"
    BY <1>10 DEF IsCancelled, Moves, MayMove, Allowed
  <2> QED BY <1>2, <1>10, <2>1, PlainMoves, PlainEvents DEF IsCancelled
<1>11. CASE IsDeployed(r)
  <2>1. PICK who \in Actors :
            Moves(r, "canary", Reason("canary_started", {}), who, <<>>, <<>>)
    BY <1>11 DEF IsDeployed
  <2>2. status[r] = "approved" /\ status'[r] = "canary"
    BY <2>1 DEF Moves, MayMove, Allowed
  <2>3. StatusChanged("approved", "canary", who, Reason("canary_started", {}))
            \in Events
    BY <1>2, StatusChangedType DEF ReleaseStatus
  <2>4. <<>> \o <<StatusChanged("approved", "canary", who,
                                Reason("canary_started", {}))>> \o <<>>
            \in Seq(Events)
    BY <2>3
  <2> QED BY <2>1, <2>2, <2>4 DEF Moves
<1>12. CASE IsPromoted(r)
  <2>1. PICK who \in Actors,
             before \in NotesOf("canary.observed",
                                Reason("canary_enough", {})) :
            Moves(r, "succeeded", Reason("canary_enough", {}), who, before,
                  <<>>)
    BY <1>12 DEF IsPromoted
  <2>2. Reason("canary_enough", {}) \in Reasons /\ status[r] # "absent"
    BY <1>3, <2>1 DEF Moves, MayMove, Allowed
  <2> QED BY <1>4, <2>1, <2>2, PlainMoves, PlainEvents
<1>13. CASE IsRolledBack(r)
  <2> PICK why \in Reasons :
          \E who \in Actors, before \in NotesOf("canary.observed", why),
             after \in NotesOf("canary.timeout", NoReason) :
                Moves(r, "rolled_back", why, who, before, after)
    BY <1>13 DEF IsRolledBack
  <2>1. PICK who \in Actors, before \in NotesOf("canary.observed", why),
             after \in NotesOf("canary.timeout", NoReason) :
            Moves(r, "rolled_back", why, who, before, after)
    OBVIOUS
  <2>2. status[r] # "absent"
    BY <2>1 DEF Moves, MayMove, Allowed
  <2> QED BY <1>2, <1>4, <2>1, <2>2, PlainMoves
<1> QED
  BY <1>5, <1>6, <1>7, <1>8, <1>9, <1>10, <1>11, <1>12, <1>13 DEF RowStep

-------------------------------------------------------------------------------
(* The theorems.                                                           *)

\* The inductive invariant about rows: no part of it speaks of two releases.
RowsInv ==
    /\ TypeOK
    /\ \A r \in Releases : RowInv(r) /\ JournalInv(r) /\ Agrees(r)
    /\ GatesGuardCanary /\ Admission /\ TrafficMatchesStatus
    /\ ReasonExplainsStatus

\* It holds of the empty ledger.
LEMMA RowsInit == LedgerInit => RowsInv
<1> SUFFICES ASSUME LedgerInit PROVE RowsInv
  OBVIOUS
<1>1. TypeOK
  BY InitType
<1>2. ASSUME NEW r \in Releases
      PROVE  /\ status[r] = "absent" /\ approvedBy[r] = Null
             /\ traffic[r] = 0 /\ reason[r] = NoReason /\ journal[r] = <<>>
             /\ results[r] = [g \in Gates |-> "missing"]
             /\ Accepted(r) = {}
  BY DEF LedgerInit, EmptyColumns, Accepted
<1>3. \A r \in Releases : RowInv(r) /\ JournalInv(r) /\ Agrees(r)
  BY <1>2, FS_EmptySet
  DEF RowInv, Blank, NotYetApproved, JournalInv, Exists, Agrees
<1>4. GatesGuardCanary /\ Admission /\ TrafficMatchesStatus
  BY <1>2 DEF GatesGuardCanary, Admission, TrafficMatchesStatus
<1>5. ReasonExplainsStatus
  BY <1>2 DEF ReasonExplainsStatus, Explanations
<1> QED BY <1>1, <1>3, <1>4, <1>5 DEF RowsInv

\* And every step keeps it.
LEMMA RowsStep ==
    ASSUME RowsInv, [LedgerNext]_ledgerVars
    PROVE  RowsInv' /\ \A r \in Releases : RowStep(r)
<1>1. TypeOK /\ TypeOK'
  BY TypeStep DEF RowsInv
<1>2. \A r \in Releases : RowStep(r)
  BY <1>1, EveryRowSteps
<1>3. \A r \in Releases : (RowInv(r) /\ JournalInv(r) /\ Agrees(r))'
  BY <1>1, <1>2, RowInvStep, JournalStep, AgreesStep DEF RowsInv
<1>4. (GatesGuardCanary /\ Admission /\ TrafficMatchesStatus)'
  BY <1>1, <1>2, GatesGuardStep, AdmissionStep, TrafficStep DEF RowsInv
<1>5. ReasonExplainsStatus'
  BY <1>1, <1>2, ReasonStep DEF RowsInv
<1> QED BY <1>1, <1>2, <1>3, <1>4, <1>5 DEF RowsInv

\* In every instance of the ledger.
LEMMA RowsHold == LedgerSpec => []RowsInv
BY RowsInit, RowsStep, PTL DEF LedgerSpec

\* GatesGuardCanary: whatever requests, notifications and passes of the
\* reconciler interleave, no release has a canary or is promoted with a
\* required gate missing or failed.
THEOREM GatesGuardHolds == LedgerSpec => []GatesGuardCanary
BY RowsHold, PTL DEF RowsInv

\* Admission: a release waits for approval or is approved only with all its
\* gates passed, and an approver's name is on it exactly when its environment
\* asks for one.
THEOREM AdmissionHolds == LedgerSpec => []Admission
BY RowsHold, PTL DEF RowsInv

\* TrafficMatchesStatus: every handler that changes the status leaves the share
\* of traffic that goes with it.
THEOREM TrafficHolds == LedgerSpec => []TrafficMatchesStatus
BY RowsHold, PTL DEF RowsInv

\* ReasonExplainsStatus: the reason a client reads beside a status is one the
\* runbook lists for it, and names exactly the gates that are missing or failed.
THEOREM ReasonHolds == LedgerSpec => []ReasonExplainsStatus
BY RowsHold, PTL DEF RowsInv

\* SettledStaysSettled: no step reopens a blocked, cancelled or rolled back
\* release, changes a reported result, or adds one after the evaluation.
THEOREM SettledHolds == LedgerSpec => SettledStaysSettled
<1>1. ASSUME RowsInv, [LedgerNext]_ledgerVars
      PROVE  [\A r \in Releases :
                 /\ status[r] \in {"blocked", "cancelled", "rolled_back"} =>
                        /\ status'[r] = status[r]
                        /\ reason'[r] = reason[r]
                        /\ traffic'[r] = traffic[r]
                 /\ \A g \in Gates : results[r][g] # "missing" =>
                        /\ results'[r][g] = results[r][g]
                        /\ details'[r][g] = details[r][g]
                 /\ status[r] # "evaluating" =>
                        results'[r] = results[r]]_ledgerVars
  BY <1>1, RowsStep, SettledStep DEF RowsInv
<1> QED
  BY <1>1, RowsHold, PTL DEF LedgerSpec, SettledStaysSettled

\* AuditTrail: the journal of a release replays to its status, for journals of
\* any length.
THEOREM AuditTrailHolds == LedgerSpec => []AuditTrail
<1>1. RowsInv => AuditTrail
  BY DEF RowsInv, AuditTrail, JournalInv, Says
<1> QED BY <1>1, RowsHold, PTL

\* JournalMatchesReason: the reason of a release is the one its journal gave
\* last.
THEOREM JournalMatchesReasonHolds == LedgerSpec => []JournalMatchesReason
<1>1. RowsInv => JournalMatchesReason
  <2> SUFFICES ASSUME RowsInv, NEW r \in Releases
               PROVE  LatestReason(journal[r], reason[r])
    BY DEF JournalMatchesReason
  <2>1. CASE Exists(r)
    BY <2>1 DEF RowsInv, JournalInv, Says
  <2>2. CASE ~Exists(r)
    <3>1. journal[r] = <<>> /\ reason[r] = NoReason
      BY <2>2 DEF RowsInv, RowInv, Blank, Exists
    <3>2. Reasoned(<<>>) = {}
      BY DEF Reasoned
    <3> QED BY <3>1, <3>2 DEF LatestReason
  <2> QED BY <2>1, <2>2
<1> QED BY <1>1, RowsHold, PTL

\* WebhooksCountOnce: each accepted notification is in the journal once, however
\* often it was delivered, and no two accepted for a gate disagree.
THEOREM WebhooksCountOnceHolds == LedgerSpec => []WebhooksCountOnce
<1>1. RowsInv => WebhooksCountOnce
  <2> SUFFICES ASSUME RowsInv, NEW r \in Releases
               PROVE  LET accepted == Cardinality(Accepted(r))
                      IN  /\ EventCount(journal[r], "gate.reported")
                                 = accepted
                          /\ EventCount(journal[r], "release.gates_evaluated")
                                 = accepted
                          /\ Agrees(r)
    BY DEF WebhooksCountOnce, Agrees
  <2>1. CASE Exists(r)
    BY <2>1 DEF RowsInv, JournalInv, Says
  <2>2. CASE ~Exists(r)
    <3>1. journal[r] = <<>> /\ Accepted(r) = {} /\ Agrees(r)
      BY <2>2 DEF RowsInv, RowInv, Blank, Exists
    <3>2. \A type : EventCount(<<>>, type) = 0
      <4>1. \A type : {i \in DOMAIN <<>> : <<>>[i].type = type} = {}
        OBVIOUS
      <4> QED BY <4>1, FS_EmptySet DEF EventCount
    <3> QED BY <3>1, <3>2, FS_EmptySet
  <2> QED BY <2>1, <2>2
<1> QED BY <1>1, RowsHold, PTL
===============================================================================
