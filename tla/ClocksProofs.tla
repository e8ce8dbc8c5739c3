----------------------------- MODULE ClocksProofs -----------------------------
(***************************************************************************)
(* The clocks, for every bound on their difference, every timeout and      *)
(* every number of releases.  The ledger's steps are taken as LedgerProofs *)
(* reduces them; here is added when they are taken and how they are        *)
(* stamped.                                                                *)
(***************************************************************************)
EXTENDS Clocks, LedgerProofs

-------------------------------------------------------------------------------
(* The inductive invariant, for one release.                               *)

\* Each event has its time and its stamp, which differ by Skew at most.
Stamped(r) ==
    /\ stamps[r] \in Seq(Int) /\ Len(stamps[r]) = Len(journal[r])
    /\ written[r] \in Seq(Int) /\ Len(written[r]) = Len(journal[r])
    /\ \A i \in 1..Len(journal[r]) :
           stamps[r][i] \in (written[r][i] - Skew)..(written[r][i] + Skew)

\* The events that record the start of the canary.
Beginnings(r) == {i \in 1..Len(journal[r]) : BeginsCanary(journal[r][i])}

\* There is none before the canary.
NotBegun(r) ==
    status[r] \in {"absent", "evaluating", "awaiting_approval", "approved"} =>
        Beginnings(r) = {} /\ r \notin expired

\* canary_started_at is the clock of the process that wrote that event.
StartedThen(r) ==
    /\ started[r] \in Int
    /\ \A i \in Beginnings(r) :
           started[r] \in (written[r][i] - Skew)..(written[r][i] + Skew)

\* A canary found overdue has run for the timeout.
HasRun(r) ==
    r \in expired =>
        \A i \in Beginnings(r) : now - written[r][i] > Timeout - 2 * Skew

ClocksInv ==
    /\ TypeOK
    /\ now \in Int
    /\ \A r \in Releases :
           Stamped(r) /\ NotBegun(r) /\ StartedThen(r) /\ HasRun(r)

-------------------------------------------------------------------------------
(* The steps of a release.                                                *)

\* A release that has yet to become a canary had yet to before the step.
LEMMA StillEarly ==
    ASSUME NEW r \in Releases, RowStep(r),
           status'[r] \in {"absent", "evaluating", "awaiting_approval",
                           "approved"}
    PROVE  status[r] \in {"absent", "evaluating", "awaiting_approval",
                          "approved"}
BY DEF RowStep, Kept, IsCreated, IsReported, IsApproved, IsCancelled,
       IsDeployed, GoesOn, IsPromoted, IsRolledBack, Moves, MayMove, Allowed

\* A canary rolled back with the reason "timeout" was found overdue: nothing
\* but the reconciler's batch gives that reason.
LEMMA TimeoutsAreDue ==
    ASSUME TypeOK, LedgerNext, NEW r \in Releases, status[r] = "canary",
           status'[r] = "rolled_back", reason'[r].kind = "timeout"
    PROVE  r \in expired
<1>1. ASSUME NEW s \in Releases, NEW to, to # "rolled_back",
             status' = [status EXCEPT ![s] = to]
      PROVE  FALSE
  BY <1>1 DEF TypeOK
<1>2. ASSUME NEW s \in Releases, NEW why, why.kind # "timeout",
             status' = [status EXCEPT ![s] = "rolled_back"],
             reason' = [reason EXCEPT ![s] = why]
      PROVE  FALSE
  BY <1>2 DEF TypeOK
<1>3. status' # status
  OBVIOUS
<1>4. ASSUME NEW s \in Releases, NEW e \in Envs, NEW k \in Keys,
             NEW a \in Artifacts, NEW who \in Admins, Create(s, e, k, a, who)
      PROVE  FALSE
  BY <1>1, <1>4 DEF Create, CreateCommitted
<1>5. ASSUME NEW s \in Releases, NEW who \in Approvers, Approve(s, who)
      PROVE  FALSE
  BY <1>1, <1>5 DEF Approve, ApproveCommitted, Transition
<1>6. ASSUME NEW s \in Releases, NEW who \in Admins, Cancel(s, who)
      PROVE  FALSE
  BY <1>1, <1>6 DEF Cancel, CancelCommitted, Transition
<1>7. ASSUME NEW s \in Releases, NEW p \in CanaryPercents, NEW who \in Admins,
             Deploy(s, p, who)
      PROVE  FALSE
  BY <1>1, <1>7 DEF Deploy, DeployCommitted, Transition
<1>8. ASSUME NEW s \in Releases, NEW o \in Observations,
             NEW who \in Observers, Observe(s, o, who)
      PROVE  FALSE
  <2>1. CanaryReason(o, Policy[envOf[s]]).kind # "timeout"
    BY DEF CanaryReason, Reason
  <2>2. \/ status' = [status EXCEPT ![s] = "succeeded"]
        \/ /\ status' = [status EXCEPT ![s] = "rolled_back"]
           /\ reason' = [reason EXCEPT ![s] = CanaryReason(o, Policy[envOf[s]])]
        \/ status' = status
    BY <1>8 DEF Observe, ObserveCommitted, Transition
  <2> QED BY <1>1, <1>2, <1>3, <2>1, <2>2
<1>9. ASSUME NEW s \in Releases, NEW who \in Admins, Rollback(s, who)
      PROVE  FALSE
  <2>1. Reason("manual_rollback", {}).kind # "timeout"
    BY DEF Reason
  <2> QED
    BY <1>2, <1>9, <2>1 DEF Rollback, RollbackCommitted, Transition
<1>10. ASSUME NEW w \in Webhooks, ReceiveWebhook(w)
       PROVE  FALSE
  <2>1. w.release \in Releases
    BY DEF Webhooks
  <2>2. \/ status' = status
        \/ \E to : /\ to # "rolled_back"
                   /\ status' = [status EXCEPT ![w.release] = to]
    BY <1>10, EvaluateGatesType
    DEF ReceiveWebhook, WebhookCommitted, GatesRecalculated, Transition
  <2> QED BY <1>1, <1>3, <2>1, <2>2
<1>11. ASSUME NEW batch \in SUBSET Due, Reconcile(batch)
       PROVE  r \in expired
  BY <1>11 DEF Reconcile, ReconcileCommitted, Owned, Due
<1>12. ASSUME NEW s \in Releases, Expire(s)
       PROVE  FALSE
  BY <1>3, <1>12 DEF Expire
<1> QED
  BY <1>4, <1>5, <1>6, <1>7, <1>8, <1>9, <1>10, <1>11, <1>12
  DEF LedgerNext, ClientNext, ReconcilerNext

-------------------------------------------------------------------------------
(* A transaction and its stamps.                                           *)

\* A column with the same value added n times.
LEMMA ValuesAdded ==
    ASSUME NEW column \in Seq(Int), NEW n \in Nat, NEW value \in Int,
           NEW longer, longer = column \o [i \in 1..n |-> value]
    PROVE  /\ longer \in Seq(Int) /\ Len(longer) = Len(column) + n
           /\ \A i \in 1..(Len(column) + n) :
                  longer[i] = IF i <= Len(column) THEN column[i] ELSE value
<1> DEFINE added == [i \in 1..n |-> value]
<1>1. added \in Seq(Int) /\ Len(added) = n
  <2>1. added \in [1..n -> Int]
    OBVIOUS
  <2> QED BY <2>1, SeqDef, LenProperties
<1>2. \A j \in 1..n : added[j] = value
  OBVIOUS
<1> HIDE DEF added
<1>3. /\ column \o added \in Seq(Int)
      /\ Len(column \o added) = Len(column) + n
      /\ \A i \in 1..(Len(column) + n) :
             (column \o added)[i] = IF i <= Len(column) THEN column[i]
                                    ELSE added[i - Len(column)]
  BY <1>1, ConcatProperties
<1>4. ASSUME NEW i \in 1..(Len(column) + n), ~(i <= Len(column))
      PROVE  added[i - Len(column)] = value
  <2>1. Len(column) \in Nat
    BY LenProperties
  <2>2. i - Len(column) \in 1..n
    BY <1>4, <2>1
  <2> QED BY <1>2, <2>2
<1> QED BY <1>3, <1>4 DEF added

\* Only the reconciler's clock makes a canary overdue.
LEMMA CommitKeepsExpired ==
    ASSUME \/ ClientNext
           \/ \E w \in Webhooks : ReceiveWebhook(w)
           \/ \E batch \in SUBSET Due : Reconcile(batch)
    PROVE  expired' = expired
BY DEF ClientNext, Create, CreateCommitted, Approve, ApproveCommitted, Cancel,
       CancelCommitted, Deploy, DeployCommitted, Observe, ObserveCommitted,
       Rollback, RollbackCommitted, ReceiveWebhook, WebhookCommitted,
       Reconcile, ReconcileCommitted

\* The events of r after a transaction: those there were, with the times and
\* stamps they had, and new ones with the time and the clock of this step.
LEMMA RowsStamped ==
    ASSUME ClocksAssumption, ClocksInv, TypeOK', NEW r \in Releases,
           RowStep(r), NEW reading \in Int, Stamp(reading)
    PROVE  LET old == Len(journal[r])
               all == Len(journal'[r])
           IN  /\ old \in Nat /\ all \in Nat /\ old <= all
               /\ stamps'[r] \in Seq(Int) /\ Len(stamps'[r]) = all
               /\ written'[r] \in Seq(Int) /\ Len(written'[r]) = all
               /\ \A i \in 1..old : /\ journal'[r][i] = journal[r][i]
                                    /\ stamps'[r][i] = stamps[r][i]
                                    /\ written'[r][i] = written[r][i]
               /\ \A i \in (old + 1)..all :
                      /\ stamps'[r][i] = reading /\ written'[r][i] = now
                      /\ r \notin Begun => ~BeginsCanary(journal'[r][i])
<1>1. PICK new \in Seq(Events) : /\ journal'[r] = journal[r] \o new
                                 /\ new \in Plain \/ r \in Begun
  BY RowAdds DEF ClocksInv, Begun
<1> DEFINE old == Len(journal[r])
           n == Len(new)
<1>2. journal[r] \in Seq(Events) /\ old \in Nat /\ n \in Nat
  BY LenProperties DEF ClocksInv, TypeOK
<1>3. /\ Len(journal'[r]) = old + n
      /\ \A i \in 1..(old + n) : journal'[r][i] = IF i <= old THEN journal[r][i]
                                                  ELSE new[i - old]
  BY <1>1, <1>2, ConcatProperties
<1>4. /\ stamps'[r] = stamps[r] \o [i \in 1..n |-> reading]
      /\ written'[r] = written[r] \o [i \in 1..n |-> now]
  <2>1. Len(journal'[r]) - Len(journal[r]) = n
    BY <1>2, <1>3
  <2> QED BY <2>1 DEF Stamp, Appended
<1>5. /\ stamps[r] \in Seq(Int) /\ Len(stamps[r]) = old
      /\ written[r] \in Seq(Int) /\ Len(written[r]) = old
      /\ now \in Int
  BY DEF ClocksInv, Stamped
<1> HIDE DEF n
<1>6. /\ stamps'[r] \in Seq(Int) /\ Len(stamps'[r]) = old + n
      /\ \A i \in 1..(old + n) :
             stamps'[r][i] = IF i <= old THEN stamps[r][i] ELSE reading
  <2>1. \A longer : longer = stamps[r] \o [i \in 1..n |-> reading] =>
            /\ longer \in Seq(Int) /\ Len(longer) = Len(stamps[r]) + n
            /\ \A i \in 1..(Len(stamps[r]) + n) :
                   longer[i] = IF i <= Len(stamps[r]) THEN stamps[r][i]
                               ELSE reading
    BY <1>2, <1>5, ValuesAdded
  <2> QED BY <1>4, <1>5, <2>1
<1>7. /\ written'[r] \in Seq(Int) /\ Len(written'[r]) = old + n
      /\ \A i \in 1..(old + n) :
             written'[r][i] = IF i <= old THEN written[r][i] ELSE now
  <2>1. \A longer : longer = written[r] \o [i \in 1..n |-> now] =>
            /\ longer \in Seq(Int) /\ Len(longer) = Len(written[r]) + n
            /\ \A i \in 1..(Len(written[r]) + n) :
                   longer[i] = IF i <= Len(written[r]) THEN written[r][i]
                               ELSE now
    BY <1>2, <1>5, ValuesAdded
  <2> QED BY <1>4, <1>5, <2>1
<1>8. ASSUME NEW i \in (old + 1)..(old + n), r \notin Begun
      PROVE  ~BeginsCanary(journal'[r][i])
  <2>1. i - old \in 1..n /\ journal'[r][i] = new[i - old]
    BY <1>2, <1>3
  <2> QED BY <1>1, <1>8, <2>1 DEF Plain, n
<1> DEFINE all == Len(journal'[r])
<1>9. all = old + n
  BY <1>3
<1> HIDE DEF old, all
<1>10. /\ all \in Nat /\ old <= all
       /\ \A i \in 1..old : i \in 1..all /\ i <= old
       /\ \A i \in (old + 1)..all : i \in 1..all /\ ~(i <= old)
  BY <1>2, <1>9
<1>11. /\ old \in Nat /\ all \in Nat /\ old <= all
       /\ stamps'[r] \in Seq(Int) /\ Len(stamps'[r]) = all
       /\ written'[r] \in Seq(Int) /\ Len(written'[r]) = all
       /\ \A i \in 1..old : /\ journal'[r][i] = journal[r][i]
                            /\ stamps'[r][i] = stamps[r][i]
                            /\ written'[r][i] = written[r][i]
       /\ \A i \in (old + 1)..all :
              /\ stamps'[r][i] = reading /\ written'[r][i] = now
              /\ r \notin Begun => ~BeginsCanary(journal'[r][i])
  BY <1>2, <1>3, <1>6, <1>7, <1>8, <1>9, <1>10
<1> QED BY <1>11 DEF old, all

\* A transaction keeps the invariant of every release.
LEMMA CommitStep ==
    ASSUME ClocksAssumption, ClocksInv, TypeOK', NEW r \in Releases,
           RowStep(r), expired' = expired, now' = now + 1,
           NEW reading \in Readings, Stamp(reading)
    PROVE  (Stamped(r) /\ NotBegun(r) /\ StartedThen(r) /\ HasRun(r))'
<1> DEFINE old == Len(journal[r])
           all == Len(journal'[r])
<1>1. /\ now \in Int /\ Skew \in Nat /\ Timeout \in Nat
      /\ reading \in Int /\ reading \in (now - Skew)..(now + Skew)
  BY DEF ClocksAssumption, ClocksInv, Readings
<1>2. /\ old \in Nat /\ all \in Nat /\ old <= all
      /\ stamps'[r] \in Seq(Int) /\ Len(stamps'[r]) = all
      /\ written'[r] \in Seq(Int) /\ Len(written'[r]) = all
      /\ \A i \in 1..old : /\ journal'[r][i] = journal[r][i]
                           /\ stamps'[r][i] = stamps[r][i]
                           /\ written'[r][i] = written[r][i]
      /\ \A i \in (old + 1)..all :
             /\ stamps'[r][i] = reading /\ written'[r][i] = now
             /\ r \notin Begun => ~BeginsCanary(journal'[r][i])
  BY <1>1, RowsStamped
<1>3. Stamped(r) /\ NotBegun(r) /\ StartedThen(r) /\ HasRun(r)
  BY DEF ClocksInv
<1>4. started'[r] = IF r \in Begun THEN reading ELSE started[r]
  BY DEF Stamp
<1>5. \A i \in 1..all : i \in 1..old \/ i \in (old + 1)..all
  BY <1>2
<1>6. written[r] \in Seq(Int) /\ written'[r] \in Seq(Int)
  BY <1>2, <1>3 DEF Stamped
<1>7. /\ \A i \in 1..old : written[r][i] \in Int
      /\ \A i \in 1..all : written'[r][i] \in Int
  BY <1>2, <1>3, <1>6, ElementOfSeq DEF Stamped
<1>8. r \in Begun => /\ Beginnings(r) = {} /\ r \notin expired
                     /\ status'[r] = "canary"
  BY <1>3 DEF NotBegun, Begun
<1>9. Beginnings(r)' = {i \in 1..all : BeginsCanary(journal'[r][i])}
  BY DEF Beginnings, BeginsCanary
<1>10. /\ r \in Begun => \A i \in Beginnings(r)' : i \in (old + 1)..all
       /\ r \notin Begun => /\ Beginnings(r)' = Beginnings(r)
                            /\ Beginnings(r) \subseteq 1..old
  <2>1. Beginnings(r) = {i \in 1..old : BeginsCanary(journal[r][i])}
    BY DEF Beginnings
  <2>2. \A i \in 1..old : i \in 1..all
    BY <1>2
  <2> HIDE DEF old, all
  <2> QED BY <1>2, <1>5, <1>8, <1>9, <2>1, <2>2
<1>11. Stamped(r)'
  <2>1. ASSUME NEW i \in 1..all
        PROVE  stamps'[r][i] \in
                   (written'[r][i] - Skew)..(written'[r][i] + Skew)
    <3>1. CASE i \in 1..old
      BY <1>2, <1>3, <3>1 DEF Stamped
    <3>2. CASE i \in (old + 1)..all
      BY <1>1, <1>2, <3>2
    <3> QED BY <1>5, <3>1, <3>2
  <2> QED BY <1>2, <2>1 DEF Stamped
<1>12. NotBegun(r)'
  <2>1. SUFFICES ASSUME status'[r] \in {"absent", "evaluating",
                                        "awaiting_approval", "approved"}
                 PROVE  Beginnings(r)' = {} /\ r \notin expired'
    BY DEF NotBegun
  <2>2. Beginnings(r) = {} /\ r \notin expired
    BY <1>3, <2>1, StillEarly DEF NotBegun
  <2> QED BY <1>8, <1>10, <2>1, <2>2
<1>13. StartedThen(r)'
  <2>1. started'[r] \in Int
    BY <1>1, <1>3, <1>4 DEF StartedThen
  <2>2. ASSUME NEW i \in Beginnings(r)'
        PROVE  started'[r] \in (written'[r][i] - Skew)..(written'[r][i] + Skew)
    <3>1. CASE r \in Begun
      BY <1>1, <1>2, <1>4, <1>10, <3>1
    <3>2. CASE r \notin Begun
      <4>1. i \in Beginnings(r) /\ written'[r][i] = written[r][i]
        BY <1>2, <1>10, <3>2
      <4> QED BY <1>3, <1>4, <3>2, <4>1 DEF StartedThen
    <3> QED BY <3>1, <3>2
  <2> QED BY <2>1, <2>2 DEF StartedThen
<1>14. HasRun(r)'
  <2>1. SUFFICES ASSUME r \in expired, NEW i \in Beginnings(r)'
                 PROVE  now' - written'[r][i] > Timeout - 2 * Skew
    BY DEF HasRun
  <2>2. /\ i \in Beginnings(r) /\ i \in 1..old
        /\ written'[r][i] = written[r][i]
    BY <1>2, <1>8, <1>10, <2>1
  <2>3. now - written[r][i] > Timeout - 2 * Skew
    BY <1>3, <2>1, <2>2 DEF HasRun
  <2> QED BY <1>1, <1>7, <2>2, <2>3
<1> QED BY <1>11, <1>12, <1>13, <1>14

-------------------------------------------------------------------------------
(* The other steps, and the theorems.                                      *)

\* Nothing is written yet.
LEMMA ClocksStart ==
    ASSUME ClocksInit
    PROVE  ClocksInv
<1>1. TypeOK
  BY InitType DEF ClocksInit
<1>2. ASSUME NEW r \in Releases
      PROVE  Stamped(r) /\ NotBegun(r) /\ StartedThen(r) /\ HasRun(r)
  <2>1. /\ journal[r] = <<>> /\ stamps[r] = <<>> /\ written[r] = <<>>
        /\ started[r] = 0 /\ expired = {}
    BY DEF ClocksInit, LedgerInit, EmptyColumns
  <2>2. <<>> \in Seq(Int) /\ Len(<<>>) = 0
    OBVIOUS
  <2>3. Beginnings(r) = {}
    BY <2>1, <2>2 DEF Beginnings
  <2> QED
    BY <2>1, <2>2, <2>3 DEF Stamped, NotBegun, StartedThen, HasRun
<1> QED BY <1>1, <1>2 DEF ClocksInv, ClocksInit

\* A canary found overdue was written at most Skew after the clock of its
\* start, and that clock is behind the reconciler's by the timeout.
LEMMA FindOverdueStep ==
    ASSUME ClocksAssumption, ClocksInv, NEW s \in Releases, FindOverdue(s),
           now' = now + 1, NEW r \in Releases
    PROVE  (Stamped(r) /\ NotBegun(r) /\ StartedThen(r) /\ HasRun(r))'
<1>1. /\ now \in Int /\ Skew \in Nat /\ Timeout \in Nat
      /\ Stamped(r) /\ NotBegun(r) /\ StartedThen(r) /\ HasRun(r)
  BY DEF ClocksAssumption, ClocksInv
<1>2. /\ status' = status /\ journal' = journal /\ stamps' = stamps
      /\ written' = written /\ started' = started
      /\ expired' = expired \cup {s} /\ status[s] = "canary"
  BY DEF FindOverdue, Expire
<1>3. Beginnings(r)' = Beginnings(r)
  BY <1>2 DEF Beginnings, BeginsCanary
<1>4. Stamped(r)' /\ NotBegun(r)' /\ StartedThen(r)'
  BY <1>1, <1>2, <1>3 DEF Stamped, NotBegun, StartedThen
<1>5. \A i \in Beginnings(r) : written[r][i] \in Int
  BY <1>1, ElementOfSeq DEF Beginnings, Stamped
<1>6. ASSUME r \in expired \cup {s}, NEW i \in Beginnings(r)
      PROVE  (now + 1) - written[r][i] > Timeout - 2 * Skew
  <2>1. CASE r \in expired
    BY <1>1, <1>5, <2>1 DEF HasRun
  <2>2. CASE r = s
    <3>1. PICK reading \in (now - Skew)..(now + Skew) :
              started[r] < reading - Timeout
      BY <2>2 DEF FindOverdue, Overdue, Readings
    <3>2. /\ started[r] \in Int /\ written[r][i] \in Int
          /\ started[r] >= written[r][i] - Skew
      BY <1>1, <1>5 DEF StartedThen
    <3> QED BY <1>1, <3>1, <3>2
  <2> QED BY <1>6, <2>1, <2>2
<1>7. HasRun(r)'
  BY <1>2, <1>3, <1>6 DEF HasRun
<1> QED BY <1>4, <1>7

\* Time passes.
LEMMA WaitStep ==
    ASSUME ClocksAssumption, ClocksInv, Wait, now' \in {now, now + 1},
           NEW r \in Releases
    PROVE  (Stamped(r) /\ NotBegun(r) /\ StartedThen(r) /\ HasRun(r))'
<1>1. /\ now \in Int /\ Skew \in Nat /\ Timeout \in Nat
      /\ Stamped(r) /\ NotBegun(r) /\ StartedThen(r) /\ HasRun(r)
  BY DEF ClocksAssumption, ClocksInv
<1>2. /\ status' = status /\ journal' = journal /\ stamps' = stamps
      /\ written' = written /\ started' = started /\ expired' = expired
  BY DEF Wait, ledgerVars
<1>3. Beginnings(r)' = Beginnings(r)
  BY <1>2 DEF Beginnings, BeginsCanary
<1>4. \A i \in Beginnings(r) : written[r][i] \in Int
  BY <1>1, ElementOfSeq DEF Beginnings, Stamped
<1>5. HasRun(r)'
  BY <1>1, <1>2, <1>3, <1>4 DEF HasRun
<1> QED
  BY <1>1, <1>2, <1>3, <1>5 DEF Stamped, NotBegun, StartedThen

\* Every step keeps the invariant.
LEMMA ClocksStep ==
    ASSUME ClocksAssumption, ClocksInv, [ClocksNext]_timedVars
    PROVE  ClocksInv'
<1>1. CASE UNCHANGED timedVars
  <2>1. Wait /\ now' = now
    BY <1>1 DEF timedVars, clockVars, Wait
  <2>2. TypeOK'
    BY <2>1, TypeStep DEF ClocksInv, Wait
  <2> QED BY <2>1, <2>2, WaitStep DEF ClocksInv
<1>2. CASE ClocksNext /\ Commit
  <2>1. LedgerNext /\ now' = now + 1
    BY <1>2 DEF ClocksNext, Commit, LedgerNext, ReconcilerNext
  <2>2. expired' = expired
    BY <1>2, CommitKeepsExpired DEF Commit
  <2>3. PICK reading \in Readings : Stamp(reading)
    BY <1>2 DEF Commit
  <2>4. TypeOK'
    BY <2>1, TypeStep DEF ClocksInv
  <2>5. \A r \in Releases : RowStep(r)
    BY <2>1, EveryRowSteps DEF ClocksInv
  <2>6. \A r \in Releases :
            (Stamped(r) /\ NotBegun(r) /\ StartedThen(r) /\ HasRun(r))'
    BY <2>1, <2>2, <2>3, <2>4, <2>5, CommitStep
  <2> QED BY <2>1, <2>4, <2>6 DEF ClocksInv
<1>3. ASSUME ClocksNext, NEW s \in Releases, FindOverdue(s)
      PROVE  ClocksInv'
  <2>1. LedgerNext /\ now' = now + 1
    BY <1>3 DEF ClocksNext, FindOverdue, LedgerNext, ReconcilerNext
  <2>2. TypeOK'
    BY <2>1, TypeStep DEF ClocksInv
  <2> QED BY <1>3, <2>1, <2>2, FindOverdueStep DEF ClocksInv
<1>4. CASE ClocksNext /\ Wait
  <2>1. now' = now + 1
    BY <1>4 DEF ClocksNext
  <2>2. TypeOK'
    BY <1>4, TypeStep DEF ClocksInv, Wait
  <2> QED BY <1>4, <2>1, <2>2, WaitStep DEF ClocksInv
<1> QED BY <1>1, <1>2, <1>3, <1>4 DEF ClocksNext

\* In every instance.
LEMMA ClocksHold == ClocksSpec => []ClocksInv
BY ClocksAssumption, ClocksStart, ClocksStep, PTL DEF ClocksSpec

\* ReadingReplays: ORDER BY created_at gives the changes of status in the order
\* they were made, but for changes written within twice the difference of the
\* clocks of the hosts.
THEOREM ReadingHolds == ClocksSpec => []ReadingReplays
<1>1. ASSUME ClocksInv PROVE ReadingReplays
  <2> SUFFICES ASSUME NEW r \in Releases, NEW i \in StatusChanges(journal[r]),
                      NEW j \in StatusChanges(journal[r]), MayPrecede(r, j, i)
               PROVE  written[r][j] - written[r][i] <= 2 * Skew
    BY DEF ReadingReplays
  <2>1. i \in 1..Len(journal[r]) /\ j \in 1..Len(journal[r])
    BY <1>1, LenProperties DEF StatusChanges, ClocksInv, TypeOK
  <2>2. Stamped(r) /\ Skew \in Nat
    BY <1>1, ClocksAssumption DEF ClocksInv, ClocksAssumption
  <2>3. /\ written[r][i] \in Int /\ written[r][j] \in Int
        /\ stamps[r][i] \in Int /\ stamps[r][j] \in Int
    BY <2>1, <2>2, ElementOfSeq DEF Stamped
  <2>4. /\ stamps[r][i] <= written[r][i] + Skew
        /\ stamps[r][j] >= written[r][j] - Skew
    BY <2>1, <2>2, <2>3 DEF Stamped
  <2>5. stamps[r][j] <= stamps[r][i]
    BY DEF MayPrecede
  <2> HIDE DEF MayPrecede
  <2> QED BY <2>2, <2>3, <2>4, <2>5
<1> QED BY <1>1, ClocksHold, PTL

\* NoEarlyTimeout: every canary the reconciler rolls back has run, in real
\* time, for the timeout, but for twice the difference of the clocks.
THEOREM TimeoutHolds == ClocksSpec => NoEarlyTimeout
<1> DEFINE InTime == [\A r \in Releases :
           /\ status[r] = "canary" /\ status'[r] = "rolled_back"
           /\ reason'[r].kind = "timeout"
           => \A i \in StatusChanges(journal[r]) :
                  journal[r][i].to = "canary" =>
                      now - written[r][i] > Timeout - 2 * Skew]_timedVars
<1>1. ASSUME ClocksInv, [ClocksNext]_timedVars PROVE InTime
  <2> SUFFICES ASSUME ClocksNext, NEW r \in Releases, status[r] = "canary",
                      status'[r] = "rolled_back", reason'[r].kind = "timeout",
                      NEW i \in StatusChanges(journal[r]),
                      journal[r][i].to = "canary"
               PROVE  now - written[r][i] > Timeout - 2 * Skew
    BY <1>1
  <2>1. CASE Wait
    BY <2>1 DEF Wait, ledgerVars
  <2>2. CASE ~Wait
    <3>1. LedgerNext
      BY <2>2 DEF ClocksNext, Commit, FindOverdue, LedgerNext, ReconcilerNext
    <3>2. r \in expired
      BY <1>1, <3>1, TimeoutsAreDue DEF ClocksInv
    <3>3. i \in Beginnings(r)
      BY <1>1, LenProperties
      DEF Beginnings, BeginsCanary, StatusChanges, ClocksInv, TypeOK
    <3> QED BY <1>1, <3>2, <3>3 DEF ClocksInv, HasRun
  <2> QED BY <2>1, <2>2
<1> QED BY <1>1, ClocksHold, PTL DEF ClocksSpec, NoEarlyTimeout

\* Whatever the clocks show, the tables are those of a ledger: the clocks only
\* decide when a canary is found overdue.
THEOREM ClocksKeepTheLedger == ClocksSpec => LedgerSpec
<1>1. ClocksInit => LedgerInit
  BY DEF ClocksInit
<1>2. [ClocksNext]_timedVars => [LedgerNext]_ledgerVars
  BY DEF ClocksNext, Commit, FindOverdue, Wait, LedgerNext, ReconcilerNext,
         timedVars
<1> QED BY <1>1, <1>2, PTL DEF ClocksSpec, LedgerSpec
===============================================================================
