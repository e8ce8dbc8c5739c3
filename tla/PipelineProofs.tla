---------------------------- MODULE PipelineProofs ----------------------------
(***************************************************************************)
(* What holds for CI and the operators in every instance of Pipeline, also *)
(* in a database that an older version has left.                           *)
(***************************************************************************)
EXTENDS Pipeline, LedgerProofs

-------------------------------------------------------------------------------
(* Pipeline is a ledger with fewer notifications.                          *)

\* The row an older version has left is well-formed.
LEMMA LegacyType == LegacyInit => TypeOK
<1> SUFFICES ASSUME LegacyInit PROVE TypeOK
  OBVIOUS
<1>1. 1 \in Releases
  BY LedgerAssumption DEF Releases
<1>2. PICK st \in {"awaiting_approval", "approved"}, e \in Envs, k \in Keys,
           a \in Artifacts, outcome \in [Gates -> GateStatus \cup {"missing"}] :
          /\ status = [r \in Releases |-> IF r = 1 THEN st ELSE "absent"]
          /\ envOf = [r \in Releases |-> IF r = 1 THEN e ELSE Null]
          /\ keyOf = [r \in Releases |-> IF r = 1 THEN k ELSE Null]
          /\ artifactOf = [r \in Releases |-> IF r = 1 THEN a ELSE Null]
          /\ results = [r \in Releases |-> IF r = 1 THEN outcome
                                           ELSE [g \in Gates |-> "missing"]]
          /\ active = [f \in Envs |-> IF f = e THEN 1 ELSE NoRelease]
  BY DEF LegacyInit
<1>3. /\ status \in [Releases -> ReleaseStatus \cup {"absent"}]
      /\ envOf \in [Releases -> Envs \cup {Null}]
      /\ keyOf \in [Releases -> Keys \cup {Null}]
      /\ artifactOf \in [Releases -> Artifacts \cup {Null}]
      /\ results \in [Releases -> [Gates -> GateStatus \cup {"missing"}]]
      /\ active \in [Envs -> Releases \cup {NoRelease}]
      /\ \A r \in Releases : Exists(r) => envOf[r] \in Envs
  BY <1>1, <1>2 DEF ReleaseStatus, Exists
<1>4. /\ reason \in [Releases -> Reasons]
      /\ journal \in [Releases -> Seq(Events)]
  BY EmptySeq, PlainReasonType DEF LegacyInit, NoReason
<1> QED BY <1>3, <1>4 DEF LegacyInit, EmptyColumns, TypeOK

\* A notification of CI is one that Ledger knows.
LEMMA NotificationType ==
    ASSUME TypeOK, NEW r \in Releases, Exists(r), NEW item \in Items(envOf[r]),
           NEW result \in GateStatus, NEW det \in Details
    PROVE  Notification(r, item, result, det) \in Webhooks
<1> PICK e \in Envs : e = envOf[r]
  BY DEF TypeOK
<1>1. item.name \in RequiredGates(Asked[e])
  BY DEF Items, RequiredGates, Normalized
<1>2. item.name \in Gates
  BY <1>1, PipelineAssumption, LedgerAssumption DEF Policies
<1>3. <<r, item.name>> \in EventIds
  BY PipelineAssumption
<1> QED BY <1>2, <1>3 DEF Notification, Webhooks

\* So each of its steps is a step of the ledger, and adds the receipt of a gate
\* that CI can report, or no receipt.
LEMMA PipelineIsLedger ==
    ASSUME TypeOK, [PipelineNext]_ledgerVars
    PROVE  /\ [LedgerNext]_ledgerVars
           /\ \A w \in receipts' \ receipts :
                  \E item \in Items(envOf[w.release]) :
                      AcceptsReport(item) /\ item.name = w.gate
<1>1. CASE UNCHANGED ledgerVars
  BY <1>1 DEF ledgerVars, gateTables
<1>2. CASE ClientNext \/ ReconcilerNext
  <2>1. LedgerNext
    BY <1>2 DEF LedgerNext
  <2>2. UNCHANGED receipts
    BY <1>2 DEF ClientNext, ReconcilerNext, Create, CreateCommitted, Approve,
                ApproveCommitted, Cancel, CancelCommitted, Deploy,
                DeployCommitted, Observe, ObserveCommitted, Rollback,
                RollbackCommitted, Reconcile, ReconcileCommitted, Expire,
                gateTables
  <2> QED BY <2>1, <2>2
<1>3. ASSUME NEW r \in Releases, Exists(r), NEW item \in Items(envOf[r]),
             AcceptsReport(item),
             NEW result \in GateStatus, NEW det \in Details,
             ReceiveWebhook(Notification(r, item, result, det))
      PROVE  /\ [LedgerNext]_ledgerVars
             /\ \A w \in receipts' \ receipts :
                    \E i \in Items(envOf[w.release]) :
                        AcceptsReport(i) /\ i.name = w.gate
  <2> PICK w \in Webhooks : w = Notification(r, item, result, det)
    BY <1>3, NotificationType
  <2>1. ReceiveWebhook(w)
    BY <1>3
  <2>2. LedgerNext
    BY <2>1 DEF LedgerNext
  <2>3. receipts' = receipts \cup {w}
    BY <2>1 DEF ReceiveWebhook, WebhookCommitted
  <2>4. w.release = r /\ w.gate = item.name
    BY DEF Notification
  <2> QED BY <1>3, <2>2, <2>3, <2>4
<1> QED BY <1>1, <1>2, <1>3 DEF PipelineNext, Notify

-------------------------------------------------------------------------------
(* The theorems.                                                           *)

\* Gate g of release r is one CI can report.
Reportable(r, g) ==
    \E item \in Items(envOf[r]) : AcceptsReport(item) /\ item.name = g

\* While a release is evaluated it has only results that CI has reported.
ReportsInv ==
    \A r \in Releases : status[r] = "evaluating" =>
        \A g \in Gates : results[r][g] # "missing" => Reportable(r, g)

PipelineInv ==
    /\ TypeOK /\ GatesGuardCanary /\ ReportsInv
    /\ \A r \in Releases : RowInv(r)

\* It holds of an empty database and of one left by an older version.
LEMMA PipelineInit == LedgerInit \/ LegacyInit => PipelineInv
<1>1. ASSUME LedgerInit PROVE PipelineInv
  <2>1. RowsInv
    BY <1>1, RowsInit
  <2>2. ReportsInv
    BY <1>1 DEF LedgerInit, ReportsInv
  <2> QED BY <2>1, <2>2 DEF PipelineInv, RowsInv
<1>2. ASSUME LegacyInit PROVE PipelineInv
  <2>1. \A r \in Releases :
            status[r] \in {"awaiting_approval", "approved", "absent"}
    BY <1>2 DEF LegacyInit
  <2>2. ASSUME NEW r \in Releases, status[r] = "absent"
        PROVE  results[r] = [g \in Gates |-> "missing"]
    BY <1>2, <2>2 DEF LegacyInit
  <2>3. GatesGuardCanary /\ ReportsInv
    BY <2>1 DEF GatesGuardCanary, ReportsInv
  <2>4. \A r \in Releases : RowInv(r)
    BY <1>2, <2>2 DEF RowInv, Blank, NotYetApproved, LegacyInit, EmptyColumns,
                      Accepted
  <2> QED BY <1>2, <2>3, <2>4, LegacyType DEF PipelineInv
<1> QED BY <1>1, <1>2

\* The results of a release that leaves its evaluation, or goes on with it, are
\* all of gates that CI can report.
LEMMA ReportsStep ==
    ASSUME PipelineInv, [PipelineNext]_ledgerVars, NEW r \in Releases,
           status[r] = "evaluating" \/ status'[r] = "evaluating",
           NEW g \in Gates, results'[r][g] # "missing"
    PROVE  Reportable(r, g)'
<1>1. TypeOK /\ RowStep(r)
  BY PipelineIsLedger, EveryRowSteps DEF PipelineInv
<1>2. status[r] = "evaluating" /\ results[r][g] # "missing" => Reportable(r, g)
  BY DEF PipelineInv, ReportsInv
<1>3. CASE IsCreated(r)
  BY <1>3 DEF IsCreated, GatesKept, PipelineInv, RowInv, Blank
<1>4. ASSUME NEW w \in Webhooks, IsReported(r, w) PROVE Reportable(r, g)'
  <2>1. /\ w \in receipts' \ receipts /\ w.release = r
        /\ envOf'[r] = envOf[r] /\ status[r] = "evaluating"
        /\ results'[r] = [results[r] EXCEPT ![w.gate] = w.status]
    BY <1>4 DEF IsReported, Accepted
  <2>2. Reportable(r, w.gate)
    BY <1>1, <2>1, PipelineIsLedger DEF Reportable
  <2>3. g # w.gate => results[r][g] # "missing"
    BY <1>1, <2>1 DEF TypeOK
  <2> QED BY <1>2, <2>1, <2>2, <2>3 DEF Reportable
<1>5. CASE \/ Kept(r) \/ GoesOn(r) \/ IsApproved(r) \/ IsCancelled(r)
           \/ IsDeployed(r) \/ IsPromoted(r) \/ IsRolledBack(r)
  <2>1. results'[r] = results[r] /\ envOf'[r] = envOf[r]
    BY <1>5 DEF Kept, GoesOn, IsApproved, IsCancelled, IsDeployed, IsPromoted,
                IsRolledBack, Moves, GatesKept
  <2>2. status[r] = "evaluating"
    BY <1>5 DEF Kept, GoesOn, IsApproved, IsCancelled, IsDeployed, IsPromoted,
                IsRolledBack, Moves
  <2> QED BY <1>2, <2>1, <2>2 DEF Reportable
<1> QED BY <1>1, <1>3, <1>4, <1>5 DEF RowStep

\* Every step keeps the invariant.
LEMMA PipelineStep ==
    ASSUME PipelineInv, [PipelineNext]_ledgerVars
    PROVE  PipelineInv'
<1>1. TypeOK /\ [LedgerNext]_ledgerVars
  BY PipelineIsLedger DEF PipelineInv
<1>2. TypeOK' /\ \A r \in Releases : RowStep(r)
  BY <1>1, TypeStep, EveryRowSteps
<1>3. GatesGuardCanary' /\ \A r \in Releases : RowInv(r)'
  BY <1>1, <1>2, GatesGuardStep, RowInvStep DEF PipelineInv
<1>4. ReportsInv'
  BY ReportsStep DEF ReportsInv
<1> QED BY <1>2, <1>3, <1>4 DEF PipelineInv

\* A release that is let through has all the gates of its application passed, so
\* CI could report every one.
LEMMA AdmittedIsReportable ==
    ASSUME PipelineInv, [PipelineNext]_ledgerVars, NEW r \in Releases,
           status[r] = "evaluating",
           status'[r] \notin {"evaluating", "blocked", "cancelled"}
    PROVE  CanBeReported(envOf[r])
<1>1. TypeOK /\ TypeOK' /\ RowStep(r)
  BY PipelineIsLedger, EveryRowSteps, PipelineStep DEF PipelineInv
<1> PICK e \in Envs : e = envOf[r]
  BY <1>1 DEF TypeOK, Exists
<1>2. PICK w \in Webhooks : IsReported(r, w)
  <2>1. ~Kept(r) /\ ~IsCreated(r) /\ ~GoesOn(r) /\ ~IsApproved(r)
    BY DEF Kept, IsCreated, GoesOn, IsApproved
  <2>2. ~IsCancelled(r) /\ ~IsDeployed(r) /\ ~IsPromoted(r) /\ ~IsRolledBack(r)
    BY DEF IsCancelled, IsDeployed, IsPromoted, IsRolledBack, Moves, MayMove,
           Allowed
  <2> QED BY <1>1, <2>1, <2>2 DEF RowStep
<1>3. /\ status'[r] = Ruling(r) /\ envOf'[r] = e
      /\ Policy[e].required_gates \in SUBSET Gates
      /\ Policy[e].requires_approval \in BOOLEAN
      /\ results'[r] \in [Gates -> GateStatus \cup {"missing"}]
  BY <1>1, <1>2, PolicyOfRelease DEF IsReported, TypeOK, Exists
<1>4. \A g \in Policy[e].required_gates : results'[r][g] = "passed"
  <2>1. Ruling(r) \in {"awaiting_approval", "approved"}
    BY <1>3, EvaluateGatesType DEF Ruling
  <2> QED BY <1>3, <2>1, GatesDecide DEF Ruling
<1> SUFFICES ASSUME NEW item \in Items(e) PROVE AcceptsReport(item)
  BY DEF CanBeReported
<1>5. AcceptsGates(Asked[e])
      /\ Policy[e].required_gates = RequiredGates(Asked[e])
  BY PipelineAssumption
<1>6. item.name \in Policy[e].required_gates
  BY <1>5 DEF Items, RequiredGates, Normalized
<1>7. Reportable(r, item.name)'
  BY <1>3, <1>4, <1>6, ReportsStep
<1>8. PICK other \in Items(e) : AcceptsReport(other) /\ other.name = item.name
  BY <1>3, <1>7 DEF Reportable
<1>9. other = item
  BY <1>5, <1>8 DEF Items, AcceptsGates, Normalized
<1> QED BY <1>8, <1>9

\* The invariant holds for CI, the operators and the reconciler.
LEMMA PipelineHolds == PipelineSpec => []PipelineInv
BY PipelineInit, PipelineStep, PTL DEF PipelineSpec

\* GatesGuardCanary, also from a database in which an older version has approved
\* a release without its gates: the check of deploy_release() is enough.
THEOREM LegacyIsGuarded == PipelineSpec => []GatesGuardCanary
BY PipelineHolds, PTL DEF PipelineInv

\* UnreportableIsNeverAdmitted: a release with a gate that CI cannot report
\* leaves its evaluation by a failed gate or by an operator, and only so.
THEOREM UnreportableNeverAdmitted ==
    PipelineSpec => UnreportableIsNeverAdmitted
<1>1. ASSUME PipelineInv, [PipelineNext]_ledgerVars
      PROVE  [\A r \in Releases :
                 /\ status[r] = "evaluating"
                 /\ status'[r] \notin {"evaluating", "blocked", "cancelled"}
                 => CanBeReported(envOf[r])]_ledgerVars
  BY <1>1, AdmittedIsReportable
<1> QED
  BY <1>1, PipelineHolds, PTL DEF PipelineSpec, UnreportableIsNeverAdmitted
===============================================================================
