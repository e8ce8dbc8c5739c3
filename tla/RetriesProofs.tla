----------------------------- MODULE RetriesProofs -----------------------------
(***************************************************************************)
(* Clients that repeat their calls, in every instance of Scripts, with any *)
(* number of clients, and any calls or one of the scripts among them.      *)
(***************************************************************************)
EXTENDS Scripts, LedgerProofs

-------------------------------------------------------------------------------
(* The inductive invariant.                                                *)

Replies == [code : {"none", "ok", "refused", "failed"},
            release : Releases \cup {NoRelease}, env : Envs \cup {Null},
            key : Keys \cup {Null}, artifact : Artifacts \cup {Null},
            status : ReleaseStatus \cup {"absent"},
            previous : Releases \cup {NoRelease}, traffic : 0..100,
            approvedBy : Approvers \cup {Null}, reason : Reasons, at : Nat]

CallsTyped ==
    /\ stage \in [Clients -> {"idle", "sent", "committed", "answered"}]
    /\ call \in [Clients -> ApiCalls \cup {NoCall}]
    /\ reply \in [Clients -> Replies]
    /\ \A c \in Clients : stage[c] # "idle" => call[c] \in ApiCalls
    /\ counted \in [created : Nat, accepted : Nat,
                    transitions : [ReleaseStatus -> Nat]]

\* What create_release and receive_gate_webhook look for is there once.
KeysApart ==
    \A r, s \in Releases :
        Exists(r) /\ Exists(s) /\ envOf[r] = envOf[s] /\ keyOf[r] = keyOf[s] =>
            r = s

ReceiptsApart ==
    /\ IsFiniteSet(receipts)
    /\ \A w, v \in receipts : w.event = v.event => w = v
    /\ \A w \in receipts : Exists(w.release)

\* The change of status that a call which has committed has left as its last
\* event, if any.
Effect(m) ==
    LET last == journal[m.release][m.at]
    IN  IF last.type = "release.status_changed" THEN last.to ELSE "none"

Undecided(q, r) == EvaluateCanary(q.observation, Policy[envOf[r]]) = "continue"

\* What release r shows for ever of a call that was carried out for it.
CarriedOut(q, r) ==
    \/ /\ q.kind = "create" /\ Exists(r)
       /\ envOf[r] = q.env /\ keyOf[r] = q.key /\ artifactOf[r] = q.artifact
    \/ q.kind = "webhook" /\ r = q.body.release /\ q.body \in receipts
    \/ q.kind = "cancel" /\ r = q.release /\ status[r] = "cancelled"
    \/ /\ q.kind = "approve" /\ r = q.release
       /\ status[r] \in {"approved", "canary", "succeeded", "rolled_back",
                         "cancelled"}
    \/ /\ q.kind = "deploy" /\ r = q.release
       /\ status[r] \in {"canary", "succeeded", "rolled_back"}
    \/ q.kind = "rollback" /\ r = q.release /\ status[r] = "rolled_back"
    \/ /\ q.kind = "observe" /\ r = q.release
       /\ status[r] \in {"succeeded", "rolled_back"} \cup
                        (IF Undecided(q, r) THEN {"canary"} ELSE {})

\* An observation that decided nothing changed no status.
NoEffect(q, m) ==
    q.kind = "observe" /\ Undecided(q, m.release) => Effect(m) = "none"

\* The calls that have committed: each is in the journal, and in the rows.
MadeInv ==
    \A m \in made :
        /\ m.release \in Releases
        /\ m.at \in 1..Len(journal[m.release])
        /\ Effect(m) \in ReleaseStatus \cup {"none"}
        /\ \E q \in ApiCalls : m.subject = Subject(q)
        /\ \A q \in ApiCalls : m.subject = Subject(q) =>
               CarriedOut(q, m.release) /\ NoEffect(q, m)

\* A repeated call that commits again has the effect it had.
SameEffect ==
    \A m, n \in made : m.subject = n.subject /\ m.release = n.release =>
        Effect(m) = Effect(n)

MadeFor(subject, r) == \E m \in made : m.subject = subject /\ m.release = r

\* Nothing else creates, accepts and cancels.
OnlyCalls ==
    /\ \A r \in Releases : Exists(r) =>
           MadeFor(<<"create", envOf[r], keyOf[r], artifactOf[r]>>, r)
    /\ \A w \in receipts : MadeFor(<<"webhook", w>>, w.release)
    /\ \A r \in Releases : status[r] = "cancelled" =>
           MadeFor(<<"cancel", r>>, r)

\* What a client has read, or is about to.
RepliesInv ==
    \A c \in Clients :
        /\ stage[c] = "committed" =>
               \E m \in Made(call[c]) : m.release = reply[c].release
        /\ stage[c] = "answered" /\ reply[c].code = "ok" =>
               /\ reply[c].release \in Releases
               /\ reply[c].at <= Len(journal[reply[c].release])
               /\ \E m \in Made(call[c]) : /\ m.release = reply[c].release
                                           /\ m.at <= reply[c].at
               /\ ReplaysTo(journal[reply[c].release], reply[c].at,
                            reply[c].status)

\* The calls that have committed and are not counted yet.
Uncounted(kind) ==
    {c \in Clients : stage[c] = "committed" /\ call[c].kind = kind}
UncountedMoves(st) ==
    {c \in Clients :
        /\ stage[c] = "committed" /\ call[c].kind # "create"
        /\ \E m \in Made(call[c]) : /\ m.release = reply[c].release
                                    /\ Effect(m) = st}

CountersInv ==
    /\ counted.created + Cardinality(Uncounted("create"))
           <= Cardinality({r \in Releases : Exists(r)})
    /\ counted.accepted + Cardinality(Uncounted("webhook"))
           <= Cardinality(receipts)
    /\ \A st \in ReleaseStatus :
           counted.transitions[st] + Cardinality(UncountedMoves(st))
               <= Cardinality(RequestedChanges(st))

RetriesInv ==
    /\ RowsInv /\ CallsTyped /\ KeysApart /\ ReceiptsApart
    /\ MadeInv /\ SameEffect /\ OnlyCalls /\ RepliesInv /\ CountersInv

-------------------------------------------------------------------------------
(* Calls and their subjects.                                               *)

\* The fields of a call, by its kind.
LEMMA CallParts ==
    ASSUME NEW q \in ApiCalls
    PROVE  /\ q.kind \in {"create", "webhook", "approve", "cancel", "deploy",
                          "observe", "rollback"}
           /\ q.kind = "create" =>
                  /\ q.env \in Envs /\ q.key \in Keys
                  /\ q.artifact \in Artifacts /\ q.who \in Admins
           /\ q.kind = "webhook" => q.body \in Webhooks
           /\ q.kind = "approve" => q.release \in Releases
                                    /\ q.who \in Approvers
           /\ q.kind \in {"cancel", "rollback"} =>
                  q.release \in Releases /\ q.who \in Admins
           /\ q.kind = "deploy" =>
                  /\ q.release \in Releases /\ q.percent \in CanaryPercents
                  /\ q.who \in Admins
           /\ q.kind = "observe" =>
                  /\ q.release \in Releases /\ q.observation \in Observations
                  /\ q.who \in Observers
BY DEF ApiCalls

\* Subject() by the kind of the call.
LEMMA SubjectParts ==
    ASSUME NEW q \in ApiCalls
    PROVE  /\ q.kind = "create" =>
                  Subject(q) = <<"create", q.env, q.key, q.artifact>>
           /\ q.kind = "webhook" => Subject(q) = <<"webhook", q.body>>
           /\ q.kind = "cancel" => Subject(q) = <<"cancel", q.release>>
           /\ q.kind \notin Repeatable => Subject(q) = <<"call", q>>
BY CallParts DEF Subject, Repeatable

\* Two calls with the same subject are for the same rows.
LEMMA SubjectsAgree ==
    ASSUME NEW q \in ApiCalls, NEW p \in ApiCalls, Subject(p) = Subject(q)
    PROVE  /\ p.kind = q.kind
           /\ q.kind = "create" => /\ p.env = q.env /\ p.key = q.key
                                   /\ p.artifact = q.artifact
           /\ q.kind = "webhook" => p.body = q.body
           /\ q.kind = "cancel" => p.release = q.release
           /\ q.kind \notin Repeatable => p = q
<1>1. \A x \in ApiCalls : Subject(x)[1] = IF x.kind \in Repeatable THEN x.kind
                                          ELSE "call"
  BY SubjectParts, CallParts DEF Repeatable
<1>2. CASE q.kind \in Repeatable
  <2>1. p.kind = q.kind
    BY <1>1, <1>2 DEF Repeatable
  <2> QED BY <1>2, <2>1, SubjectParts DEF Repeatable
<1>3. CASE q.kind \notin Repeatable
  <2>1. p.kind \notin Repeatable
    BY <1>1, <1>3 DEF Repeatable
  <2>2. <<"call", p>> = <<"call", q>>
    BY <1>3, <2>1, SubjectParts
  <2>3. p = q
    BY <2>2
  <2> QED BY <1>3, <2>3 DEF Repeatable
<1> QED BY <1>2, <1>3

\* So what was carried out for one was for the other, at any moment.
LEMMA CarriedOutAgree ==
    ASSUME NEW q \in ApiCalls, NEW p \in ApiCalls, Subject(p) = Subject(q),
           NEW r \in Releases
    PROVE  /\ CarriedOut(q, r) => CarriedOut(p, r)
           /\ CarriedOut(q, r)' => CarriedOut(p, r)'
           /\ \A m : NoEffect(q, m)' => NoEffect(p, m)'
<1>1. CASE q.kind \in Repeatable
  BY <1>1, SubjectsAgree DEF CarriedOut, NoEffect, Repeatable
<1>2. CASE q.kind \notin Repeatable
  BY <1>2, SubjectsAgree
<1> QED BY <1>1, <1>2

-------------------------------------------------------------------------------
(* What every step of the ledger leaves as it is.                          *)

\* Journals grow, rows keep their identity, receipts stay, and releases move
\* along the table of Domain.
Grows ==
    /\ \A r \in Releases :
           /\ Len(journal[r]) \in Nat /\ Len(journal'[r]) \in Nat
           /\ Len(journal[r]) <= Len(journal'[r])
           /\ \A i \in 1..Len(journal[r]) : journal'[r][i] = journal[r][i]
           /\ \/ status'[r] = status[r]
              \/ status[r] = "absent" /\ status'[r] = "evaluating"
              \/ MayMove(status[r], status'[r])
           /\ Exists(r) => /\ envOf'[r] = envOf[r] /\ keyOf'[r] = keyOf[r]
                           /\ artifactOf'[r] = artifactOf[r]
    /\ receipts \subseteq receipts'

\* Only a creation writes what is never changed.
LEMMA IdentityStays ==
    ASSUME TypeOK, [LedgerNext]_ledgerVars, NEW r \in Releases, Exists(r)
    PROVE  /\ envOf'[r] = envOf[r] /\ keyOf'[r] = keyOf[r]
           /\ artifactOf'[r] = artifactOf[r]
<1>1. ASSUME NEW s \in Releases, NEW e \in Envs, NEW k \in Keys,
             NEW a \in Artifacts, NEW who \in Admins, Create(s, e, k, a, who)
      PROVE  /\ envOf'[r] = envOf[r] /\ keyOf'[r] = keyOf[r]
             /\ artifactOf'[r] = artifactOf[r]
  BY <1>1 DEF Create, CreateCommitted, IsNext, TypeOK
<1>2. ASSUME UNCHANGED identity
      PROVE  /\ envOf'[r] = envOf[r] /\ keyOf'[r] = keyOf[r]
             /\ artifactOf'[r] = artifactOf[r]
  BY <1>2 DEF identity
<1> QED
  BY <1>1, <1>2
  DEF LedgerNext, ClientNext, ReconcilerNext, Approve, ApproveCommitted,
      Cancel, CancelCommitted, Deploy, DeployCommitted, Observe,
      ObserveCommitted, Rollback, RollbackCommitted, ReceiveWebhook,
      WebhookCommitted, Reconcile, ReconcileCommitted, Expire, ledgerVars

\* Only a notification writes a receipt.
LEMMA ReceiptsStay ==
    ASSUME [LedgerNext]_ledgerVars
    PROVE  \/ receipts' = receipts
           \/ \E w \in Webhooks : ReceiveWebhook(w)
BY DEF LedgerNext, ClientNext, ReconcilerNext, Approve, ApproveCommitted,
       Cancel, CancelCommitted, Deploy, DeployCommitted, Observe,
       ObserveCommitted, Rollback, RollbackCommitted, Create, CreateCommitted,
       Reconcile, ReconcileCommitted, Expire, ledgerVars, gateTables

\* No step takes an event out of a journal.
LEMMA JournalGrows ==
    ASSUME TypeOK, TypeOK', NEW r \in Releases, RowStep(r)
    PROVE  /\ Len(journal[r]) \in Nat /\ Len(journal'[r]) \in Nat
           /\ Len(journal[r]) <= Len(journal'[r])
           /\ \A i \in 1..Len(journal[r]) : journal'[r][i] = journal[r][i]
<1>1. PICK new \in Seq(Events) : journal'[r] = journal[r] \o new
  BY RowAdds
<1>2. journal[r] \in Seq(Events)
  BY DEF TypeOK
<1>3. Len(journal[r]) \in Nat /\ Len(new) \in Nat
  BY <1>2, LenProperties
<1> QED BY <1>1, <1>2, <1>3, ConcatProperties

\* No step of the ledger does otherwise.
LEMMA EveryStepGrows ==
    ASSUME TypeOK, [LedgerNext]_ledgerVars
    PROVE  Grows
<1>1. TypeOK'
  BY TypeStep
<1>2. ASSUME NEW r \in Releases
      PROVE  /\ Len(journal[r]) \in Nat /\ Len(journal'[r]) \in Nat
             /\ Len(journal[r]) <= Len(journal'[r])
             /\ \A i \in 1..Len(journal[r]) : journal'[r][i] = journal[r][i]
  BY <1>1, EveryRowSteps, JournalGrows
<1>3. ASSUME NEW r \in Releases
      PROVE  \/ status'[r] = status[r]
             \/ status[r] = "absent" /\ status'[r] = "evaluating"
             \/ MayMove(status[r], status'[r])
  <2>1. RowStep(r)
    BY EveryRowSteps
  <2>2. ASSUME NEW w \in Webhooks, IsReported(r, w)
        PROVE  \/ status'[r] = status[r]
               \/ MayMove(status[r], status'[r])
    BY <2>2, EvaluateGatesType DEF IsReported, Ruling
  <2> QED
    BY <2>1, <2>2
    DEF RowStep, Kept, IsCreated, IsApproved, IsCancelled, IsDeployed, GoesOn,
        IsPromoted, IsRolledBack, Moves
<1>4. receipts \subseteq receipts'
  BY ReceiptsStay DEF ReceiveWebhook, WebhookCommitted
<1> QED BY <1>2, <1>3, <1>4, IdentityStays DEF Grows

\* What a step that Grows leaves of the calls that were carried out.
LEMMA CarriedOutStays ==
    ASSUME TypeOK, Grows, NEW q \in ApiCalls, NEW r \in Releases,
           CarriedOut(q, r)
    PROVE  CarriedOut(q, r)'
<1>1. /\ \/ status'[r] = status[r]
         \/ status[r] = "absent" /\ status'[r] = "evaluating"
         \/ MayMove(status[r], status'[r])
      /\ Exists(r) => /\ envOf'[r] = envOf[r] /\ keyOf'[r] = keyOf[r]
                      /\ artifactOf'[r] = artifactOf[r]
      /\ receipts \subseteq receipts'
  BY DEF Grows
<1>2. CASE q.kind = "create"
  <2>1. Exists(r)'
    BY <1>1, <1>2 DEF CarriedOut, Exists, MayMove, Allowed
  <2> QED BY <1>1, <1>2, <2>1 DEF CarriedOut
<1>3. CASE q.kind = "webhook"
  BY <1>1, <1>3 DEF CarriedOut
<1>4. CASE q.kind \in {"cancel", "approve", "deploy", "rollback"}
  BY <1>1, <1>4 DEF CarriedOut, MayMove, Allowed
<1>5. CASE q.kind = "observe"
  <2>1. Exists(r)
    BY <1>5 DEF CarriedOut, Exists
  <2>2. Undecided(q, r)' = Undecided(q, r)
    BY <1>1, <2>1 DEF Undecided
  <2> QED BY <1>1, <1>5, <2>2 DEF CarriedOut, MayMove, Allowed
<1> QED BY <1>2, <1>3, <1>4, <1>5, CallParts

\* An event stays the one it was.
LEMMA EffectStays ==
    ASSUME Grows, NEW m, m.release \in Releases,
           m.at \in 1..Len(journal[m.release])
    PROVE  Effect(m)' = Effect(m)
BY DEF Effect, Grows

\* What the first n events say stays said.
LEMMA ReplaysStays ==
    ASSUME TypeOK, TypeOK', Grows, NEW r \in Releases, NEW n \in Nat,
           n <= Len(journal[r]), NEW st, ReplaysTo(journal[r], n, st)
    PROVE  ReplaysTo(journal'[r], n, st)
<1>1. /\ DOMAIN journal[r] = 1..Len(journal[r])
      /\ DOMAIN journal'[r] = 1..Len(journal'[r])
  BY DEF TypeOK
<1>2. /\ Len(journal[r]) \in Nat /\ Len(journal'[r]) \in Nat
      /\ Len(journal[r]) <= Len(journal'[r])
      /\ \A i \in 1..Len(journal[r]) : journal'[r][i] = journal[r][i]
  BY DEF Grows
<1>3. \A i : i \in StatusChanges(journal[r]) /\ i <= n
             <=> i \in StatusChanges(journal'[r]) /\ i <= n
  BY <1>1, <1>2 DEF StatusChanges
<1>4. \A i \in StatusChanges(journal[r]) : journal'[r][i] = journal[r][i]
  BY <1>1, <1>2 DEF StatusChanges
<1> QED BY <1>3, <1>4 DEF ReplaysTo

\* StatusAt() is what a reader of the journal would say.
LEMMA ReplaysToStatusAt ==
    ASSUME TypeOK, NEW r \in Releases, NEW n \in Nat, n <= Len(journal[r]),
           NEW st, ReplaysTo(journal[r], n, st)
    PROVE  StatusAt(r, n) = st
<1> DEFINE changes ==
        {i \in 1..n : journal[r][i].type = "release.status_changed"}
<1>1. DOMAIN journal[r] = 1..Len(journal[r]) /\ Len(journal[r]) \in Nat
  BY DEF TypeOK
<1>2. changes = {i \in StatusChanges(journal[r]) : i <= n}
  BY <1>1 DEF StatusChanges
<1>3. changes \subseteq Int
  OBVIOUS
<1> DEFINE top == CHOOSE i \in changes : \A j \in changes : j <= i
<1>4. StatusAt(r, n) = IF changes = {} THEN "evaluating" ELSE journal[r][top].to
  BY DEF StatusAt
<1>5. \/ changes = {} /\ st = "evaluating"
      \/ \E i \in changes : /\ \A j \in changes : j <= i
                             /\ st = journal[r][i].to
  BY <1>2 DEF ReplaysTo
<1> HIDE DEF changes
<1>6. ASSUME NEW i \in changes, \A j \in changes : j <= i
      PROVE  top = i
  <2>1. top \in changes /\ \A j \in changes : j <= top
    BY <1>6
  <2> HIDE DEF top
  <2> QED BY <1>3, <1>6, <2>1
<1> HIDE DEF top
<1>7. CASE changes = {}
  BY <1>4, <1>5, <1>7
<1>8. CASE changes # {}
  BY <1>4, <1>5, <1>6, <1>8
<1> QED BY <1>7, <1>8

\* The changes that requests made, as pairs of a release and a position in its
\* journal.
Requested(journals, st) ==
    UNION {{<<r, i>> : i \in {j \in DOMAIN journals[r] :
                                /\ journals[r][j].to = st
                                /\ journals[r][j].reason.kind # "timeout"}} :
               r \in Releases}

\* When a pair is one of them.
LEMMA RequestedAre ==
    ASSUME NEW journals \in [Releases -> Seq(Events)], NEW st, NEW r, NEW i
    PROVE  <<r, i>> \in Requested(journals, st) <=>
               /\ r \in Releases /\ i \in 1..Len(journals[r])
               /\ journals[r][i].to = st
               /\ journals[r][i].reason.kind # "timeout"
<1>1. \A s \in Releases : DOMAIN journals[s] = 1..Len(journals[s])
  OBVIOUS
<1> QED BY <1>1 DEF Requested

\* There are finitely many.
LEMMA RequestedFinite ==
    ASSUME NEW journals \in [Releases -> Seq(Events)], NEW st
    PROVE  /\ IsFiniteSet(Requested(journals, st))
           /\ Cardinality(Requested(journals, st)) \in Nat
<1> DEFINE Of(r) == {<<r, i>> : i \in {j \in DOMAIN journals[r] :
                         /\ journals[r][j].to = st
                         /\ journals[r][j].reason.kind # "timeout"}}
           parts == [r \in Releases |-> Of(r)]
           all == {Of(r) : r \in Releases}
<1>1. IsFiniteSet(Releases)
  BY LedgerAssumption, FS_Interval DEF Releases
<1>2. parts \in Surjection(Releases, all)
  <2> HIDE DEF Of
  <2> QED BY DEF Surjection
<1>3. IsFiniteSet(all)
  BY <1>1, <1>2, FS_Surjection
<1>4. ASSUME NEW r \in Releases PROVE IsFiniteSet(Of(r))
  <2>1. /\ DOMAIN journals[r] = 1..Len(journals[r])
        /\ Len(journals[r]) \in Int
    OBVIOUS
  <2>2. IsFiniteSet(1..Len(journals[r]))
    <3> HIDE DEF Of
    <3> QED BY <2>1, FS_Interval
  <2>3. IsFiniteSet({r} \X (1..Len(journals[r])))
    <3> HIDE DEF Of
    <3> QED BY <2>2, FS_Singleton, FS_Product
  <2>4. Of(r) \in SUBSET ({r} \X (1..Len(journals[r])))
    BY <2>1
  <2> QED BY <2>3, <2>4, FS_Subset
<1>5. Requested(journals, st) = UNION all
  BY DEF Requested
<1>6. \A T \in all : IsFiniteSet(T)
  BY <1>4
<1> HIDE DEF all
<1> QED BY <1>3, <1>5, <1>6, FS_UNION, FS_CardinalityType

\* A step only adds to them, and adds the last event of a journal that it has
\* made longer by a change.
LEMMA RequestedGrow ==
    ASSUME TypeOK, TypeOK', Grows, NEW st
    PROVE  /\ Cardinality(RequestedChanges(st)) \in Nat
           /\ Cardinality(RequestedChanges(st)') \in Nat
           /\ Cardinality(RequestedChanges(st))
                  <= Cardinality(RequestedChanges(st)')
           /\ \A r \in Releases :
                  /\ Len(journal'[r]) > Len(journal[r])
                  /\ journal'[r][Len(journal'[r])].to = st
                  /\ journal'[r][Len(journal'[r])].reason.kind # "timeout"
                  => Cardinality(RequestedChanges(st)) + 1
                         <= Cardinality(RequestedChanges(st)')
<1> DEFINE old == Requested(journal, st)
           all == Requested(journal', st)
<1>1. RequestedChanges(st) = old /\ RequestedChanges(st)' = all
  BY DEF RequestedChanges, Requested
<1>2. /\ journal \in [Releases -> Seq(Events)]
      /\ journal' \in [Releases -> Seq(Events)]
  BY DEF TypeOK
<1>3. /\ IsFiniteSet(old) /\ Cardinality(old) \in Nat
      /\ IsFiniteSet(all) /\ Cardinality(all) \in Nat
  BY <1>2, RequestedFinite
<1>4. old \subseteq all
  <2>1. ASSUME NEW x \in old PROVE x \in all
    <3>1. PICK r, i : x = <<r, i>>
      BY DEF Requested
    <3>2. /\ r \in Releases /\ i \in 1..Len(journal[r])
          /\ journal[r][i].to = st
          /\ journal[r][i].reason.kind # "timeout"
      BY <1>2, <3>1, RequestedAre
    <3>3. i \in 1..Len(journal'[r]) /\ journal'[r][i] = journal[r][i]
      BY <3>2 DEF Grows
    <3> QED BY <1>2, <3>1, <3>2, <3>3, RequestedAre
  <2> QED BY <2>1
<1>5. Cardinality(old) <= Cardinality(all)
  BY <1>3, <1>4, FS_Subset
<1>6. ASSUME NEW r \in Releases, Len(journal'[r]) > Len(journal[r]),
             journal'[r][Len(journal'[r])].to = st,
             journal'[r][Len(journal'[r])].reason.kind # "timeout"
      PROVE  Cardinality(old) + 1 <= Cardinality(all)
  <2> DEFINE last == <<r, Len(journal'[r])>>
  <2>1. /\ Len(journal[r]) \in Nat /\ Len(journal'[r]) \in Nat
        /\ Len(journal'[r]) \in 1..Len(journal'[r])
        /\ Len(journal'[r]) \notin 1..Len(journal[r])
    BY <1>6 DEF Grows
  <2>2. last \in all /\ last \notin old
    BY <1>2, <1>6, <2>1, RequestedAre
  <2> HIDE DEF old, all, last
  <2>3. old \cup {last} \in SUBSET all
    BY <1>4, <2>2
  <2>4. Cardinality(old \cup {last}) = Cardinality(old) + 1
    BY <1>3, <2>2, FS_AddElement
  <2> QED BY <1>3, <2>3, <2>4, FS_Subset
<1> HIDE DEF old, all
<1> QED BY <1>1, <1>3, <1>5, <1>6

-------------------------------------------------------------------------------
(* What a handler commits.                                                 *)

LastEvent(r) == journal[r][Len(journal[r])]

\* The handler of q has carried it out for release r: not again, but for an
\* observation that decides nothing; its event is the last one; and what
\* exists, is accepted or cancelled is so by the calls for it only.
Performed(q, r) ==
    /\ Len(journal'[r]) > Len(journal[r])
    /\ LastEvent(r)'.type = "release.status_changed" =>
           /\ LastEvent(r)'.to \in ReleaseStatus
           /\ LastEvent(r)'.reason.kind # "timeout"
           /\ ~(q.kind = "observe" /\ Undecided(q, r)')
    /\ q.kind = "create" => LastEvent(r)'.type # "release.status_changed"
    /\ CarriedOut(q, r)'
    /\ CarriedOut(q, r) => q.kind = "observe" /\ Undecided(q, r)
    /\ \A s \in Releases :
           /\ Exists(s)' <=> Exists(s) \/ (q.kind = "create" /\ s = r)
           /\ status'[s] = "cancelled" =>
                  status[s] = "cancelled" \/ (q.kind = "cancel" /\ s = r)
    /\ q.kind = "create" => ~Exists(r) /\ WithKey(q.env, q.key) = {}
    /\ receipts' = IF q.kind = "webhook" THEN receipts \cup {q.body}
                   ELSE receipts
    /\ q.kind = "webhook" => Exists(r) /\ ReceiptsOf(q.body.event) = {}

\* add_event() last.
LEMMA LastLogged ==
    ASSUME TypeOK, NEW r \in Releases, NEW before \in Seq(Events),
           NEW ev \in Events, Log(r, before \o <<ev>>)
    PROVE  Len(journal'[r]) > Len(journal[r]) /\ LastEvent(r)' = ev
<1>1. journal'[r] = journal[r] \o (before \o <<ev>>)
  BY LogRow
<1>2. journal[r] \in Seq(Events) /\ <<ev>> \in Seq(Events)
  BY DEF TypeOK
<1>3. journal'[r] = (journal[r] \o before) \o <<ev>>
  BY <1>1, <1>2, EventsAssociative
<1>4. /\ journal[r] \o before \in Seq(Events)
      /\ Len(journal[r] \o before) = Len(journal[r]) + Len(before)
      /\ Len(journal[r]) \in Nat /\ Len(before) \in Nat
  BY <1>2, ConcatProperties, LenProperties
<1> DEFINE old == journal[r] \o before
<1>5. Len(old \o <<ev>>) = Len(old) + 1 /\ (old \o <<ev>>)[Len(old) + 1] = ev
  BY <1>2, <1>4, ConcatProperties
<1> HIDE DEF old
<1>6. journal'[r] = old \o <<ev>>
  BY <1>3 DEF old
<1>7. Len(old) \in Nat /\ Len(old) >= Len(journal[r]) /\ Len(journal[r]) \in Nat
  BY <1>4 DEF old
<1> QED BY <1>5, <1>6, <1>7 DEF LastEvent

\* transition() last.
LEMMA LastMoved ==
    ASSUME TypeOK, NEW r \in Releases, NEW to, NEW actor \in Actors,
           NEW why \in Reasons, why.kind # "timeout",
           NEW before \in Seq(Events), MayMove(status[r], to),
           Transition(r, status[r], to, actor, why, before, <<>>)
    PROVE  /\ Len(journal'[r]) > Len(journal[r])
           /\ LastEvent(r)'.to = to /\ to \in ReleaseStatus
           /\ LastEvent(r)'.reason.kind # "timeout"
           /\ status' = [status EXCEPT ![r] = to]
           /\ \A s \in Releases : Exists(s)' <=> Exists(s)
           /\ Exists(r)
<1> DEFINE ev == StatusChanged(status[r], to, actor, why)
<1>1. status[r] \in ReleaseStatus /\ to \in ReleaseStatus
  BY DEF MayMove, Allowed, ReleaseStatus
<1>2. ev \in Events
  BY <1>1, StatusChangedType
<1>3. ev.to = to /\ ev.reason = why
  BY EventFields
<1>4. /\ Log(r, before \o <<ev>> \o <<>>)
      /\ status' = [status EXCEPT ![r] = to]
  BY DEF Transition
<1> HIDE DEF ev
<1>5. before \o <<ev>> \in Seq(Events)
  BY <1>2, ConcatProperties
<1>6. Log(r, before \o <<ev>>)
  BY <1>4, <1>5, ConcatEmptySeq
<1>7. Len(journal'[r]) > Len(journal[r]) /\ LastEvent(r)' = ev
  BY <1>2, <1>6, LastLogged
<1>8. "absent" \notin ReleaseStatus
  BY DEF ReleaseStatus
<1> QED BY <1>1, <1>3, <1>4, <1>7, <1>8 DEF TypeOK, Exists

\* create_release().
LEMMA CreatePerforms ==
    ASSUME TypeOK, NEW q \in ApiCalls, q.kind = "create", NEW r \in Releases,
           Create(r, q.env, q.key, q.artifact, q.who)
    PROVE  Performed(q, r)
<1> DEFINE ev == Note("release.created", q.who, NoReason)
<1>1. /\ q.env \in Envs /\ q.key \in Keys
      /\ q.artifact \in Artifacts /\ q.who \in Admins
  BY CallParts
<1>2. ev \in Events
  BY <1>1, NoteType, PlainReasonType DEF Actors, NoReason
<1>3. ev.type = "release.created"
  BY EventFields
<1>4. /\ status' = [status EXCEPT ![r] = "evaluating"]
      /\ envOf' = [envOf EXCEPT ![r] = q.env]
      /\ keyOf' = [keyOf EXCEPT ![r] = q.key]
      /\ artifactOf' = [artifactOf EXCEPT ![r] = q.artifact]
      /\ Log(r, <<ev>>) /\ receipts' = receipts
      /\ ~Exists(r) /\ WithKey(q.env, q.key) = {}
  BY DEF Create, CreateCommitted, IsNext, gateTables
<1> HIDE DEF ev
<1>5. <<>> \o <<ev>> = <<ev>> /\ <<>> \in Seq(Events)
  BY <1>2, ConcatEmptySeq
<1>6. Len(journal'[r]) > Len(journal[r]) /\ LastEvent(r)' = ev
  BY <1>2, <1>4, <1>5, LastLogged
<1>7. /\ status'[r] = "evaluating" /\ envOf'[r] = q.env /\ keyOf'[r] = q.key
      /\ artifactOf'[r] = q.artifact
      /\ \A s \in Releases \ {r} : status'[s] = status[s]
  BY <1>4 DEF TypeOK
<1>8. CarriedOut(q, r)' /\ ~CarriedOut(q, r)
  BY <1>4, <1>7 DEF CarriedOut, Exists
<1> QED BY <1>3, <1>4, <1>6, <1>7, <1>8 DEF Performed, Exists

\* What the handlers that call transition() once have in common.
LEMMA MovedPerforms ==
    ASSUME TypeOK, NEW q \in ApiCalls, NEW r \in Releases,
           q.kind \notin {"create", "webhook"}, NEW to, NEW actor \in Actors,
           NEW why \in Reasons, why.kind # "timeout",
           NEW before \in Seq(Events), MayMove(status[r], to),
           Transition(r, status[r], to, actor, why, before, <<>>),
           ~(q.kind = "observe" /\ Undecided(q, r)'),
           to = "cancelled" => q.kind = "cancel",
           receipts' = receipts, CarriedOut(q, r)', ~CarriedOut(q, r)
    PROVE  Performed(q, r)
<1>1. /\ Len(journal'[r]) > Len(journal[r])
      /\ LastEvent(r)'.to = to /\ to \in ReleaseStatus
      /\ LastEvent(r)'.reason.kind # "timeout"
      /\ status' = [status EXCEPT ![r] = to]
      /\ \A s \in Releases : Exists(s)' <=> Exists(s)
  BY LastMoved
<1>2. ASSUME NEW s \in Releases, status'[s] = "cancelled"
      PROVE  status[s] = "cancelled" \/ (q.kind = "cancel" /\ s = r)
  BY <1>1, <1>2 DEF TypeOK
<1> QED BY <1>1, <1>2 DEF Performed

\* The status a handler gives.
LEMMA MovedStatus ==
    ASSUME TypeOK, NEW r \in Releases, NEW from, NEW to, NEW actor, NEW why,
           NEW before, Transition(r, from, to, actor, why, before, <<>>)
    PROVE  status'[r] = to
BY DEF Transition, TypeOK

\* The reasons given by hand.
LEMMA PlainReasonKinds ==
    ASSUME NEW kind \in {"approval_received", "canary_started",
                         "manual_rollback", "cancelled_by_operator"}
    PROVE  /\ Reason(kind, {}) \in Reasons
           /\ Reason(kind, {}).kind # "timeout"
BY PlainReasonType DEF Reason

\* approve_release().
LEMMA ApprovePerforms ==
    ASSUME TypeOK, NEW q \in ApiCalls, q.kind = "approve", NEW r \in Releases,
           r = q.release, Approve(r, q.who)
    PROVE  Performed(q, r)
<1>1. q.who \in Actors
  BY CallParts DEF Actors
<1>2. /\ status[r] = "awaiting_approval" /\ receipts' = receipts
      /\ Transition(r, status[r], "approved", q.who,
                    Reason("approval_received", {}), <<>>, <<>>)
  BY DEF Approve, ApproveCommitted, gateTables
<1>3. status'[r] = "approved"
  BY <1>2, MovedStatus
<1>4. CarriedOut(q, r)' /\ ~CarriedOut(q, r)
  BY <1>2, <1>3 DEF CarriedOut
<1>5. MayMove(status[r], "approved")
  BY <1>2 DEF MayMove, Allowed
<1>6. <<>> \in Seq(Events)
  OBVIOUS
<1> QED BY <1>1, <1>2, <1>4, <1>5, <1>6, PlainReasonKinds, MovedPerforms

\* cancel_release().
LEMMA CancelPerforms ==
    ASSUME TypeOK, NEW q \in ApiCalls, q.kind = "cancel", NEW r \in Releases,
           r = q.release, Cancel(r, q.who)
    PROVE  Performed(q, r)
<1>1. q.who \in Actors
  BY CallParts DEF Actors
<1>2. /\ MayMove(status[r], "cancelled") /\ receipts' = receipts
      /\ Transition(r, status[r], "cancelled", q.who,
                    Reason("cancelled_by_operator", {}), <<>>, <<>>)
  BY DEF Cancel, CancelCommitted, MayCancel, gateTables
<1>3. status'[r] = "cancelled"
  BY <1>2, MovedStatus
<1>4. CarriedOut(q, r)' /\ ~CarriedOut(q, r)
  BY <1>2, <1>3 DEF CarriedOut, MayMove, Allowed
<1>5. <<>> \in Seq(Events)
  OBVIOUS
<1> QED BY <1>1, <1>2, <1>4, <1>5, PlainReasonKinds, MovedPerforms

\* deploy_release().
LEMMA DeployPerforms ==
    ASSUME TypeOK, NEW q \in ApiCalls, q.kind = "deploy", NEW r \in Releases,
           r = q.release, Deploy(r, q.percent, q.who)
    PROVE  Performed(q, r)
<1>1. q.who \in Actors
  BY CallParts DEF Actors
<1>2. MayMove(status[r], "canary") /\ receipts' = receipts
  BY DEF Deploy, DeployCommitted, MayDeploy, gateTables
<1>3. status[r] = "approved"
  BY <1>2 DEF MayMove, Allowed
<1>4. Transition(r, status[r], "canary", q.who,
                 Reason("canary_started", {}), <<>>, <<>>)
  BY <1>3 DEF Deploy, DeployCommitted
<1>5. status'[r] = "canary"
  BY <1>4, MovedStatus
<1>6. CarriedOut(q, r)' /\ ~CarriedOut(q, r)
  BY <1>3, <1>5 DEF CarriedOut
<1>7. <<>> \in Seq(Events)
  OBVIOUS
<1> QED BY <1>1, <1>2, <1>4, <1>6, <1>7, PlainReasonKinds, MovedPerforms

\* rollback_release().
LEMMA RollbackPerforms ==
    ASSUME TypeOK, NEW q \in ApiCalls, q.kind = "rollback",
           NEW r \in Releases, r = q.release, Rollback(r, q.who)
    PROVE  Performed(q, r)
<1>1. q.who \in Actors
  BY CallParts DEF Actors
<1>2. /\ MayMove(status[r], "rolled_back") /\ receipts' = receipts
      /\ Transition(r, status[r], "rolled_back", q.who,
                    Reason("manual_rollback", {}), <<>>, <<>>)
  BY DEF Rollback, RollbackCommitted, MayRollBack, gateTables
<1>3. status'[r] = "rolled_back"
  BY <1>2, MovedStatus
<1>4. CarriedOut(q, r)' /\ ~CarriedOut(q, r)
  BY <1>2, <1>3 DEF CarriedOut, MayMove, Allowed
<1>5. <<>> \in Seq(Events)
  OBVIOUS
<1> QED BY <1>1, <1>2, <1>4, <1>5, PlainReasonKinds, MovedPerforms

\* observe_canary().
LEMMA ObservePerforms ==
    ASSUME TypeOK, NEW q \in ApiCalls, q.kind = "observe", NEW r \in Releases,
           r = q.release, Observe(r, q.observation, q.who)
    PROVE  Performed(q, r)
<1> DEFINE o == q.observation
           why == CanaryReason(o, Policy[envOf[r]])
           decision == EvaluateCanary(o, Policy[envOf[r]])
           note == Note("canary.observed", q.who, why)
<1>1. q.who \in Actors /\ o \in Observations
  BY CallParts DEF Actors
<1>2. why \in Reasons /\ why.kind # "timeout"
  BY CanaryReasonType DEF CanaryReason, Reason
<1>3. note \in Events /\ note.type # "release.status_changed"
  BY <1>1, <1>2, NoteType, EventFields
<1>4. status[r] = "canary" /\ ObserveCommitted(r, envOf[r], o, q.who)
  BY DEF Observe
<1>5. receipts' = receipts /\ Undecided(q, r)' = Undecided(q, r)
  BY <1>4 DEF ObserveCommitted, gateTables, identity, Undecided
<1>6. Undecided(q, r) = (decision = "continue")
  BY DEF Undecided
<1>7. /\ \/ /\ decision = "promote"
            /\ Transition(r, "canary", "succeeded", q.who, why, <<note>>, <<>>)
         \/ /\ decision = "rollback"
            /\ Transition(r, "canary", "rolled_back", q.who, why, <<note>>,
                          <<>>)
         \/ /\ decision = "continue"
            /\ Log(r, <<note>>) /\ status' = status
  BY <1>4 DEF ObserveCommitted
<1> HIDE DEF why, decision, note, o
<1>8. CASE decision = "continue"
  <2>1. Log(r, <<note>>) /\ status' = status
    BY <1>7, <1>8
  <2>2. <<>> \o <<note>> = <<note>> /\ <<>> \in Seq(Events)
    BY <1>3, ConcatEmptySeq
  <2>3. Len(journal'[r]) > Len(journal[r]) /\ LastEvent(r)' = note
    BY <1>3, <2>1, <2>2, LastLogged
  <2>4. CarriedOut(q, r)'
    BY <1>4, <1>5, <1>6, <1>8, <2>1 DEF CarriedOut
  <2> QED
    BY <1>3, <1>5, <1>6, <1>8, <2>1, <2>3, <2>4 DEF Performed, Exists
<1>9. ASSUME NEW to \in {"succeeded", "rolled_back"}, decision # "continue",
             Transition(r, status[r], to, q.who, why, <<note>>, <<>>)
      PROVE  Performed(q, r)
  <2>1. status'[r] = to
    BY <1>9, MovedStatus
  <2>2. CarriedOut(q, r)' /\ ~CarriedOut(q, r)
    BY <1>4, <1>5, <1>6, <1>9, <2>1 DEF CarriedOut
  <2>3. MayMove(status[r], to) /\ to # "cancelled"
    BY <1>4 DEF MayMove, Allowed
  <2>4. <<note>> \in Seq(Events)
    BY <1>3
  <2> QED
    BY <1>1, <1>2, <1>5, <1>6, <1>9, <2>2, <2>3, <2>4, MovedPerforms
<1> QED BY <1>4, <1>7, <1>8, <1>9

\* receive_gate_webhook().
LEMMA WebhookPerforms ==
    ASSUME TypeOK, NEW q \in ApiCalls, q.kind = "webhook", NEW r \in Releases,
           r = q.body.release, ReceiveWebhook(q.body)
    PROVE  Performed(q, r)
<1> DEFINE w == q.body
           e == envOf[r]
           after == [results[r] EXCEPT ![w.gate] = w.status]
           required == Policy[e].required_gates
           approval == Policy[e].requires_approval
           target == EvaluateGates(required, after, approval)
           why == GateReason(required, after, approval)
           reported == Note("gate.reported", "ci-webhook", NoReason)
           evaluated == Note("release.gates_evaluated", "policy-engine", why)
           notes == <<reported>> \o <<evaluated>>
<1>1. /\ Exists(r) /\ ReceiptsOf(w.event) = {} /\ status[r] = "evaluating"
      /\ receipts' = receipts \cup {w}
      /\ GatesRecalculated(r, e, after, <<reported>>)
  BY DEF ReceiveWebhook, WebhookCommitted
<1>2. e \in Envs
  BY <1>1 DEF TypeOK
<1>3. required \in SUBSET Gates
  BY <1>2, LedgerAssumption DEF Policies
<1>4. why \in Reasons /\ why.kind # "timeout"
  BY <1>3, GateReasonType DEF GateReason, Reason
<1>5. reported \in Events /\ evaluated \in Events
  BY <1>4, NoteType, PlainReasonType DEF NoReason, Actors
<1>6. evaluated.type # "release.status_changed"
  BY EventFields
<1>7. /\ target \in {"evaluating", "blocked", "awaiting_approval", "approved"}
      /\ target # "evaluating" => MayMove("evaluating", target)
  BY EvaluateGatesType
<1>8. \/ /\ target # "evaluating"
         /\ Transition(r, "evaluating", target, "policy-engine", why, notes,
                       <<>>)
      \/ /\ target = "evaluating" /\ Log(r, notes) /\ status' = status
  BY <1>1 DEF GatesRecalculated
<1>9. ~CarriedOut(q, r) /\ CarriedOut(q, r)'
  BY <1>1 DEF CarriedOut, ReceiptsOf
<1> HIDE DEF why, target, reported, evaluated
<1>10. <<reported>> \in Seq(Events) /\ notes \in Seq(Events)
  BY <1>5, ConcatProperties
<1>11. CASE target = "evaluating"
  <2>1. Log(r, notes) /\ status' = status
    BY <1>8, <1>11
  <2>2. Len(journal'[r]) > Len(journal[r]) /\ LastEvent(r)' = evaluated
    BY <1>5, <1>10, <2>1, LastLogged
  <2> QED BY <1>1, <1>6, <1>9, <2>1, <2>2 DEF Performed, Exists
<1>12. CASE target # "evaluating"
  <2>1. Transition(r, status[r], target, "policy-engine", why, notes, <<>>)
    BY <1>1, <1>8, <1>12
  <2>2. MayMove(status[r], target) /\ "policy-engine" \in Actors
    BY <1>1, <1>7, <1>12 DEF Actors
  <2> HIDE DEF notes
  <2>3. /\ Len(journal'[r]) > Len(journal[r])
        /\ LastEvent(r)'.to = target /\ target \in ReleaseStatus
        /\ LastEvent(r)'.reason.kind # "timeout"
        /\ status' = [status EXCEPT ![r] = target]
        /\ \A s \in Releases : Exists(s)' <=> Exists(s)
    BY <1>4, <1>10, <2>1, <2>2, LastMoved
  <2>4. ASSUME NEW s \in Releases, status'[s] = "cancelled"
        PROVE  status[s] = "cancelled"
    BY <1>7, <2>3, <2>4 DEF TypeOK
  <2> QED BY <1>1, <1>9, <2>3, <2>4 DEF Performed
<1> QED BY <1>11, <1>12

\* Whatever the call is.
LEMMA PerformPerforms ==
    ASSUME TypeOK, NEW q \in ApiCalls, NEW r \in Releases, Perform(q, r)
    PROVE  LedgerNext /\ Performed(q, r)
<1>1. Performed(q, r)
  BY CreatePerforms, WebhookPerforms, ApprovePerforms, CancelPerforms,
     DeployPerforms, ObservePerforms, RollbackPerforms DEF Perform
<1>2. LedgerNext
  BY CallParts DEF Perform, LedgerNext, ClientNext
<1> QED BY <1>1, <1>2

\* The reconciler creates, accepts and cancels nothing.
LEMMA ReconcilerKeeps ==
    ASSUME TypeOK, ReconcilerNext \/ UNCHANGED ledgerVars
    PROVE  /\ [LedgerNext]_ledgerVars
           /\ receipts' = receipts
           /\ \A s \in Releases :
                  /\ Exists(s)' <=> Exists(s)
                  /\ status'[s] = "cancelled" => status[s] = "cancelled"
<1>1. CASE UNCHANGED ledgerVars
  BY <1>1 DEF ledgerVars, gateTables, Exists
<1>2. ASSUME NEW r \in Releases, Expire(r)
      PROVE  receipts' = receipts /\ status' = status
  BY <1>2 DEF Expire, gateTables
<1>3. ASSUME NEW batch \in SUBSET Due, Reconcile(batch)
      PROVE  /\ receipts' = receipts
             /\ \A s \in Releases :
                    status'[s] = IF s \in Owned(batch) THEN "rolled_back"
                                 ELSE status[s]
             /\ \A s \in Owned(batch) : status[s] = "canary"
  BY <1>3 DEF Reconcile, ReconcileCommitted, gateTables, Owned, Due
<1>4. CASE ReconcilerNext
  BY <1>2, <1>3, <1>4 DEF ReconcilerNext, LedgerNext, Exists
<1> QED BY <1>1, <1>4

-------------------------------------------------------------------------------
(* The calls that have committed.                                          *)

RowsAndCalls ==
    /\ RowsInv /\ KeysApart /\ ReceiptsApart /\ MadeInv /\ SameEffect
    /\ OnlyCalls

\* A call was carried out for a release that exists.
LEMMA CarriedOutExists ==
    ASSUME ReceiptsApart, NEW q \in ApiCalls, NEW r \in Releases,
           CarriedOut(q, r)
    PROVE  Exists(r)
BY DEF CarriedOut, ReceiptsApart, Exists

\* What MadeInv says of one call stays so.
LEMMA MadeStays ==
    ASSUME TypeOK, ReceiptsApart, MadeInv, Grows, NEW m \in made
    PROVE  /\ m.release \in Releases
           /\ m.at \in 1..Len(journal'[m.release])
           /\ Effect(m)' = Effect(m)
           /\ \A q \in ApiCalls : m.subject = Subject(q) =>
                  CarriedOut(q, m.release)' /\ NoEffect(q, m)'
<1>1. /\ m.release \in Releases
      /\ m.at \in 1..Len(journal[m.release])
      /\ \A q \in ApiCalls : m.subject = Subject(q) =>
             CarriedOut(q, m.release) /\ NoEffect(q, m)
  BY DEF MadeInv
<1>2. Effect(m)' = Effect(m)
  BY <1>1, EffectStays
<1>3. m.at \in 1..Len(journal'[m.release])
  BY <1>1 DEF Grows
<1>4. ASSUME NEW q \in ApiCalls, m.subject = Subject(q)
      PROVE  CarriedOut(q, m.release)' /\ NoEffect(q, m)'
  <2>1. CarriedOut(q, m.release) /\ NoEffect(q, m)
    BY <1>1, <1>4
  <2>2. envOf'[m.release] = envOf[m.release]
    BY <1>1, <2>1, CarriedOutExists DEF Grows
  <2>3. CarriedOut(q, m.release)'
    BY <1>1, <2>1, CarriedOutStays
  <2>4. NoEffect(q, m)'
    BY <1>2, <2>1, <2>2 DEF NoEffect, Undecided
  <2> QED BY <2>3, <2>4
<1> QED BY <1>1, <1>2, <1>3, <1>4

\* No step but a handler's commit has anything to do with them.
LEMMA OthersKeepCalls ==
    ASSUME RowsAndCalls, made' = made, ReconcilerNext \/ UNCHANGED ledgerVars
    PROVE  RowsAndCalls' /\ Grows
<1>1. /\ TypeOK /\ KeysApart /\ ReceiptsApart /\ MadeInv /\ SameEffect
      /\ OnlyCalls /\ RowsInv
  BY DEF RowsAndCalls, RowsInv
<1>2. /\ [LedgerNext]_ledgerVars
      /\ receipts' = receipts
      /\ \A s \in Releases :
             /\ Exists(s)' <=> Exists(s)
             /\ status'[s] = "cancelled" => status[s] = "cancelled"
  BY <1>1, ReconcilerKeeps
<1>3. Grows
  BY <1>1, <1>2, EveryStepGrows
<1>4. RowsInv'
  BY <1>1, <1>2, RowsStep
<1>5. \A s \in Releases : Exists(s) => /\ envOf'[s] = envOf[s]
                                       /\ keyOf'[s] = keyOf[s]
                                       /\ artifactOf'[s] = artifactOf[s]
  BY <1>3 DEF Grows
<1>6. KeysApart'
  BY <1>1, <1>2, <1>5 DEF KeysApart
<1>7. ReceiptsApart'
  <2>1. \A w \in receipts : w.release \in Releases
    BY <1>1 DEF TypeOK, Webhooks
  <2> QED BY <1>1, <1>2, <2>1 DEF ReceiptsApart
<1>8. \A m \in made : /\ m.release \in Releases
                      /\ m.at \in 1..Len(journal'[m.release])
                      /\ Effect(m)' = Effect(m)
                      /\ \A q \in ApiCalls : m.subject = Subject(q) =>
                             CarriedOut(q, m.release)' /\ NoEffect(q, m)'
  BY <1>1, <1>3, MadeStays
<1>9. MadeInv'
  BY <1>1, <1>8 DEF MadeInv
<1>10. SameEffect'
  BY <1>1, <1>8 DEF SameEffect
<1>11. OnlyCalls'
  <2>1. ASSUME NEW w \in receipts
        PROVE  MadeFor(<<"webhook", w>>, w.release)'
    <3>1. MadeFor(<<"webhook", w>>, w.release)
      BY <1>1, <2>1 DEF OnlyCalls
    <3> QED BY <3>1 DEF MadeFor
  <2>2. ASSUME NEW r \in Releases, Exists(r)'
        PROVE  MadeFor(<<"create", envOf[r], keyOf[r], artifactOf[r]>>, r)'
    <3>1. /\ MadeFor(<<"create", envOf[r], keyOf[r], artifactOf[r]>>, r)
          /\ envOf'[r] = envOf[r] /\ keyOf'[r] = keyOf[r]
          /\ artifactOf'[r] = artifactOf[r]
      BY <1>1, <1>2, <1>5, <2>2 DEF OnlyCalls
    <3> QED BY <3>1 DEF MadeFor
  <2>3. ASSUME NEW r \in Releases, status'[r] = "cancelled"
        PROVE  MadeFor(<<"cancel", r>>, r)'
    <3>1. MadeFor(<<"cancel", r>>, r)
      BY <1>1, <1>2, <2>3 DEF OnlyCalls
    <3> QED BY <3>1 DEF MadeFor
  <2> QED BY <1>2, <2>1, <2>2, <2>3 DEF OnlyCalls
<1> QED BY <1>3, <1>4, <1>6, <1>7, <1>9, <1>10, <1>11 DEF RowsAndCalls

\* The call that commits when q is carried out for r.
Committed(q, r) ==
    [subject |-> Subject(q), release |-> r, at |-> Len(journal[r])]

\* The call that commits is like those that did before.
LEMMA CommitIsMade ==
    ASSUME TypeOK, TypeOK', ReceiptsApart, MadeInv, Grows, NEW q \in ApiCalls,
           NEW r \in Releases, Performed(q, r), NEW m, m = Committed(q, r)'
    PROVE  /\ m.at \in 1..Len(journal'[r])
           /\ Effect(m)' \in ReleaseStatus \cup {"none"}
           /\ Effect(m)' = IF LastEvent(r)'.type = "release.status_changed"
                           THEN LastEvent(r)'.to ELSE "none"
           /\ \A p \in ApiCalls : m.subject = Subject(p) =>
                  CarriedOut(p, r)' /\ NoEffect(p, m)'
           /\ \A n \in made : n.subject = m.subject /\ n.release = r =>
                  Effect(n)' = Effect(m)'
<1>1. m.subject = Subject(q) /\ m.release = r /\ m.at = Len(journal'[r])
  BY DEF Committed
<1>2. /\ Len(journal'[r]) > Len(journal[r]) /\ Len(journal[r]) \in Nat
      /\ Len(journal'[r]) \in Nat
      /\ CarriedOut(q, r)'
  BY DEF Performed, Grows
<1>3. Effect(m)' = IF LastEvent(r)'.type = "release.status_changed"
                   THEN LastEvent(r)'.to ELSE "none"
  BY <1>1 DEF Effect, LastEvent
<1>4. Effect(m)' \in ReleaseStatus \cup {"none"}
  BY <1>3 DEF Performed
<1>5. NoEffect(q, m)'
  BY <1>1, <1>3 DEF NoEffect, Performed
<1>6. \A p \in ApiCalls : m.subject = Subject(p) =>
          CarriedOut(p, r)' /\ NoEffect(p, m)'
  BY <1>1, <1>2, <1>5, CarriedOutAgree
<1>7. ASSUME NEW n \in made, n.subject = m.subject, n.release = r
      PROVE  Effect(n)' = Effect(m)'
  <2>1. CarriedOut(q, r) /\ NoEffect(q, n)'
    BY <1>1, <1>7, MadeStays DEF MadeInv
  <2>2. q.kind = "observe" /\ Undecided(q, r)'
    <3>1. q.kind = "observe" /\ Undecided(q, r) /\ Exists(r)
      BY <2>1, CarriedOutExists DEF Performed
    <3>2. envOf'[r] = envOf[r]
      BY <3>1 DEF Grows
    <3> QED BY <3>1, <3>2 DEF Undecided
  <2>3. Effect(n)' = "none"
    BY <1>7, <2>1, <2>2 DEF NoEffect
  <2>4. LastEvent(r)'.type # "release.status_changed"
    BY <2>2 DEF Performed
  <2> QED BY <1>3, <2>3, <2>4
<1> QED BY <1>1, <1>2, <1>3, <1>4, <1>6, <1>7

\* The handlers keep what is known of the calls that have committed.
LEMMA DoKeepsCalls ==
    ASSUME RowsAndCalls, NEW q \in ApiCalls, NEW r \in Releases,
           Perform(q, r), made' = made \cup {Committed(q, r)'}
    PROVE  RowsAndCalls' /\ Grows /\ Performed(q, r)
<1>1. /\ TypeOK /\ KeysApart /\ ReceiptsApart /\ MadeInv /\ SameEffect
      /\ OnlyCalls /\ RowsInv
  BY DEF RowsAndCalls, RowsInv
<1>2. LedgerNext /\ Performed(q, r)
  BY <1>1, PerformPerforms
<1>3. Grows
  BY <1>1, <1>2, EveryStepGrows
<1>4. RowsInv' /\ TypeOK'
  BY <1>1, <1>2, RowsStep DEF RowsInv
<1>5. \A s \in Releases : Exists(s) => /\ envOf'[s] = envOf[s]
                                       /\ keyOf'[s] = keyOf[s]
                                       /\ artifactOf'[s] = artifactOf[s]
  BY <1>3 DEF Grows
<1>6. PICK m : m = Committed(q, r)'
  OBVIOUS
<1>7. /\ m.subject = Subject(q) /\ m.release = r /\ m \in made'
      /\ made' = made \cup {m}
  BY <1>6 DEF Committed
<1>8. /\ m.at \in 1..Len(journal'[r])
      /\ Effect(m)' \in ReleaseStatus \cup {"none"}
      /\ \A p \in ApiCalls : m.subject = Subject(p) =>
             CarriedOut(p, r)' /\ NoEffect(p, m)'
      /\ \A n \in made : n.subject = m.subject /\ n.release = r =>
             Effect(n)' = Effect(m)'
  BY <1>1, <1>2, <1>3, <1>4, <1>6, CommitIsMade
<1>9. \A n \in made : /\ n.release \in Releases
                      /\ n.at \in 1..Len(journal'[n.release])
                      /\ Effect(n)' = Effect(n)
                      /\ \A p \in ApiCalls : n.subject = Subject(p) =>
                             CarriedOut(p, n.release)' /\ NoEffect(p, n)'
  BY <1>1, <1>3, MadeStays
<1>10. \A s \in Releases :
           /\ Exists(s)' <=> Exists(s) \/ (q.kind = "create" /\ s = r)
           /\ status'[s] = "cancelled" =>
                  status[s] = "cancelled" \/ (q.kind = "cancel" /\ s = r)
  BY <1>2 DEF Performed
<1>11. q.kind = "create" => /\ envOf'[r] = q.env /\ keyOf'[r] = q.key
                            /\ artifactOf'[r] = q.artifact
                            /\ WithKey(q.env, q.key) = {} /\ ~Exists(r)
  BY <1>2 DEF Performed, CarriedOut
<1>12. /\ receipts' = IF q.kind = "webhook" THEN receipts \cup {q.body}
                      ELSE receipts
       /\ q.kind = "webhook" => /\ Exists(q.body.release)
                                /\ ReceiptsOf(q.body.event) = {}
                                /\ q.body.release = r
  BY <1>2 DEF Performed, CarriedOut
<1>13. KeysApart'
  <2> SUFFICES ASSUME NEW s \in Releases, NEW t \in Releases,
                      Exists(s)', Exists(t)', envOf'[s] = envOf'[t],
                      keyOf'[s] = keyOf'[t]
               PROVE  s = t
    BY DEF KeysApart
  <2>1. CASE Exists(s) /\ Exists(t)
    BY <1>1, <1>5, <2>1 DEF KeysApart
  <2>2. CASE ~Exists(s) /\ Exists(t)
    BY <1>5, <1>10, <1>11, <2>2 DEF WithKey
  <2>3. CASE Exists(s) /\ ~Exists(t)
    BY <1>5, <1>10, <1>11, <2>3 DEF WithKey
  <2>4. CASE ~Exists(s) /\ ~Exists(t)
    BY <1>10, <2>4
  <2> QED BY <2>1, <2>2, <2>3, <2>4
<1>14. ReceiptsApart'
  <2>1. \A w \in receipts : w.release \in Releases
    BY <1>1 DEF TypeOK, Webhooks
  <2>2. IsFiniteSet(receipts')
    BY <1>1, <1>12, FS_AddElement DEF ReceiptsApart
  <2>3. \A w, v \in receipts' : w.event = v.event => w = v
    BY <1>1, <1>12 DEF ReceiptsApart, ReceiptsOf
  <2>4. \A w \in receipts' : Exists(w.release)'
    BY <1>1, <1>10, <1>12, <2>1 DEF ReceiptsApart
  <2> QED BY <2>2, <2>3, <2>4 DEF ReceiptsApart
<1>15. MadeInv'
  <2>1. ASSUME NEW n \in made'
        PROVE  /\ n.release \in Releases
               /\ n.at \in 1..Len(journal'[n.release])
               /\ Effect(n)' \in ReleaseStatus \cup {"none"}
               /\ \E p \in ApiCalls : n.subject = Subject(p)
               /\ \A p \in ApiCalls : n.subject = Subject(p) =>
                      CarriedOut(p, n.release)' /\ NoEffect(p, n)'
    <3>1. CASE n = m
      BY <1>7, <1>8, <3>1
    <3>2. CASE n \in made
      BY <1>1, <1>9, <3>2 DEF MadeInv
    <3> QED BY <1>7, <3>1, <3>2
  <2> QED BY <2>1 DEF MadeInv
<1>16. SameEffect'
  <2>1. ASSUME NEW n \in made', NEW o \in made', n.subject = o.subject,
               n.release = o.release
        PROVE  Effect(n)' = Effect(o)'
    <3>1. CASE n = m \/ o = m
      BY <1>7, <1>8, <2>1, <3>1
    <3>2. CASE n \in made /\ o \in made
      BY <1>1, <1>9, <2>1, <3>2 DEF SameEffect
    <3> QED BY <1>7, <3>1, <3>2
  <2> QED BY <2>1 DEF SameEffect
<1>17. OnlyCalls'
  <2>1. ASSUME NEW w \in receipts'
        PROVE  MadeFor(<<"webhook", w>>, w.release)'
    <3>1. CASE w \in receipts
      <4>1. MadeFor(<<"webhook", w>>, w.release)
        BY <1>1, <3>1 DEF OnlyCalls
      <4> QED BY <1>7, <4>1 DEF MadeFor
    <3>2. CASE w \notin receipts
      <4>1. w = q.body /\ w.release = r /\ Subject(q) = <<"webhook", w>>
        BY <1>12, <2>1, <3>2, SubjectParts
      <4> QED BY <1>7, <4>1 DEF MadeFor
    <3> QED BY <3>1, <3>2
  <2>2. ASSUME NEW s \in Releases, Exists(s)'
        PROVE  MadeFor(<<"create", envOf[s], keyOf[s], artifactOf[s]>>, s)'
    <3>1. CASE Exists(s)
      <4>1. /\ MadeFor(<<"create", envOf[s], keyOf[s], artifactOf[s]>>, s)
            /\ envOf'[s] = envOf[s] /\ keyOf'[s] = keyOf[s]
            /\ artifactOf'[s] = artifactOf[s]
        BY <1>1, <1>5, <3>1 DEF OnlyCalls
      <4> QED BY <1>7, <4>1 DEF MadeFor
    <3>2. CASE ~Exists(s)
      <4>1. s = r /\ q.kind = "create"
        BY <1>10, <2>2, <3>2
      <4>2. Subject(q) = <<"create", envOf'[s], keyOf'[s], artifactOf'[s]>>
        BY <1>11, <4>1, SubjectParts
      <4> QED BY <1>7, <4>1, <4>2 DEF MadeFor
    <3> QED BY <3>1, <3>2
  <2>3. ASSUME NEW s \in Releases, status'[s] = "cancelled"
        PROVE  MadeFor(<<"cancel", s>>, s)'
    <3>1. CASE status[s] = "cancelled"
      <4>1. MadeFor(<<"cancel", s>>, s)
        BY <1>1, <3>1 DEF OnlyCalls
      <4> QED BY <1>7, <4>1 DEF MadeFor
    <3>2. CASE status[s] # "cancelled"
      <4>1. s = r /\ q.kind = "cancel"
        BY <1>10, <2>3, <3>2
      <4>2. Subject(q) = <<"cancel", s>>
        BY <1>2, <4>1, SubjectParts DEF Performed, CarriedOut
      <4> QED BY <1>7, <4>1, <4>2 DEF MadeFor
    <3> QED BY <3>1, <3>2
  <2> QED BY <2>1, <2>2, <2>3 DEF OnlyCalls
<1> QED
  BY <1>2, <1>3, <1>4, <1>13, <1>14, <1>15, <1>16, <1>17 DEF RowsAndCalls

-------------------------------------------------------------------------------
(* What is recognised.                                                     *)

\* The release that create_release finds under a key is the only one.
LEMMA KeyFound ==
    ASSUME KeysApart, NEW q \in ApiCalls, q.kind = "create",
           NEW r \in Releases, CarriedOut(q, r)
    PROVE  WithKey(q.env, q.key) = {r} /\ artifactOf[r] = q.artifact
BY DEF KeysApart, CarriedOut, WithKey

\* A call that was carried out is found to be done, for that release.
LEMMA DoneIsRecognised ==
    ASSUME KeysApart, ReceiptsApart, NEW q \in ApiCalls, q.kind \in Repeatable,
           NEW r \in Releases, CarriedOut(q, r)
    PROVE  Verdict(q) = "again" /\ Shown(q) = {r}
<1>1. CASE q.kind = "create"
  <2>1. WithKey(q.env, q.key) = {r} /\ artifactOf[r] = q.artifact
    BY <1>1, KeyFound
  <2>2. CreateVerdict(q) = "again"
    BY <2>1 DEF CreateVerdict
  <2> QED BY <1>1, <2>1, <2>2 DEF Verdict, Shown
<1>2. CASE q.kind = "webhook"
  <2>1. q.body \in receipts /\ r = q.body.release /\ Exists(r)
    BY <1>2, CarriedOutExists DEF CarriedOut
  <2>2. ReceiptsOf(q.body.event) = {q.body}
    BY <2>1 DEF ReceiptsOf, ReceiptsApart
  <2>3. WebhookVerdict(q.body) = "again"
    BY <2>1, <2>2 DEF WebhookVerdict
  <2> QED BY <1>2, <2>1, <2>3 DEF Verdict, Shown
<1>3. CASE q.kind = "cancel"
  <2>1. r = q.release /\ status[r] = "cancelled"
    BY <1>3 DEF CarriedOut
  <2>2. ~MayCancel(r, status[r], active[envOf[r]])
    BY <2>1 DEF MayCancel, MayMove, Allowed
  <2>3. CancelVerdict(r) = "again"
    BY <2>1, <2>2 DEF CancelVerdict
  <2> QED BY <1>3, <2>1, <2>3 DEF Verdict, Shown
<1> QED BY <1>1, <1>2, <1>3 DEF Repeatable

\* What is found to be done was carried out by a call that committed.
LEMMA AgainIsDone ==
    ASSUME RowsAndCalls, NEW q \in ApiCalls, Verdict(q) = "again",
           NEW r \in Shown(q)
    PROVE  r \in Releases /\ Exists(r) /\ MadeFor(Subject(q), r)
<1>1. TypeOK /\ KeysApart /\ ReceiptsApart /\ OnlyCalls
  BY DEF RowsAndCalls, RowsInv
<1>2. q.kind \in Repeatable
  <2>1. \A accepted \in BOOLEAN : DoOrRefuse(accepted) # "again"
    BY DEF DoOrRefuse
  <2>2. CASE q.kind = "observe"
    BY <2>2 DEF Verdict, ObserveVerdict
  <2>3. CASE q.kind \in {"approve", "deploy", "rollback"}
    BY <2>1, <2>3 DEF Verdict, DoOrRefuse
  <2> QED BY <2>2, <2>3, CallParts DEF Repeatable
<1>3. CASE q.kind = "create"
  <2>1. CreateVerdict(q) = "again" /\ r \in WithKey(q.env, q.key)
    BY <1>3 DEF Verdict, Shown
  <2>2. \E s \in WithKey(q.env, q.key) : artifactOf[s] = q.artifact
    BY <2>1 DEF CreateVerdict, DoOrRefuse
  <2>3. /\ r \in Releases /\ Exists(r) /\ envOf[r] = q.env
        /\ keyOf[r] = q.key /\ artifactOf[r] = q.artifact
    BY <1>1, <2>1, <2>2 DEF WithKey, KeysApart
  <2>4. Subject(q) = <<"create", envOf[r], keyOf[r], artifactOf[r]>>
    BY <1>3, <2>3, SubjectParts
  <2> QED BY <1>1, <2>3, <2>4 DEF OnlyCalls
<1>4. CASE q.kind = "webhook"
  <2>1. WebhookVerdict(q.body) = "again" /\ r = q.body.release
    BY <1>4 DEF Verdict, Shown
  <2>2. q.body \in receipts /\ Exists(r)
    BY <2>1 DEF WebhookVerdict, DoOrRefuse, ReceiptsOf
  <2>3. Subject(q) = <<"webhook", q.body>> /\ q.body \in Webhooks
    BY <1>4, SubjectParts, CallParts
  <2> QED BY <1>1, <2>1, <2>2, <2>3 DEF OnlyCalls, Webhooks
<1>5. CASE q.kind = "cancel"
  <2>1. CancelVerdict(r) = "again" /\ r = q.release /\ r \in Releases
    BY <1>5, CallParts DEF Verdict, Shown
  <2>2. status[r] = "cancelled"
    BY <2>1 DEF CancelVerdict
  <2>3. Subject(q) = <<"cancel", r>>
    BY <1>5, <2>1, SubjectParts
  <2> QED BY <1>1, <2>1, <2>2, <2>3 DEF OnlyCalls, Exists
<1> QED BY <1>2, <1>3, <1>4, <1>5 DEF Repeatable

-------------------------------------------------------------------------------
(* What the clients read.                                                  *)

\* What RepliesInv says of client c.
ReplyHolds(c) ==
    /\ stage[c] = "committed" =>
           \E m \in Made(call[c]) : m.release = reply[c].release
    /\ stage[c] = "answered" /\ reply[c].code = "ok" =>
           /\ reply[c].release \in Releases
           /\ reply[c].at <= Len(journal[reply[c].release])
           /\ \E m \in Made(call[c]) : /\ m.release = reply[c].release
                                       /\ m.at <= reply[c].at
           /\ ReplaysTo(journal[reply[c].release], reply[c].at,
                        reply[c].status)

\* It stays so while others commit.
LEMMA ReplyStays ==
    ASSUME TypeOK, TypeOK', Grows, made \subseteq made', CallsTyped,
           NEW c \in Clients, ReplyHolds(c), call'[c] = call[c],
           stage'[c] = stage[c], reply'[c] = reply[c]
    PROVE  ReplyHolds(c)'
<1>1. Made(call[c]) \subseteq Made(call[c])'
  BY DEF Made
<1>2. CASE stage[c] = "answered" /\ reply[c].code = "ok"
  <2>1. PICK r, n : r = reply[c].release /\ n = reply[c].at
    OBVIOUS
  <2>2. /\ r \in Releases /\ n \in Nat /\ n <= Len(journal[r])
        /\ ReplaysTo(journal[r], n, reply[c].status)
    BY <1>2, <2>1 DEF ReplyHolds, CallsTyped, Replies
  <2>3. ReplaysTo(journal'[r], n, reply[c].status)
    BY <2>2, ReplaysStays
  <2>4. n <= Len(journal'[r])
    BY <2>2 DEF Grows
  <2>5. \E m \in Made(call[c])' : m.release = r /\ m.at <= n
    BY <1>1, <1>2, <2>1 DEF ReplyHolds
  <2> QED BY <1>2, <2>1, <2>2, <2>3, <2>4, <2>5 DEF ReplyHolds, Made
<1>3. CASE ~(stage[c] = "answered" /\ reply[c].code = "ok")
  BY <1>1, <1>3 DEF ReplyHolds, Made
<1> QED BY <1>2, <1>3

\* The row of a release that a call was carried out for, as it is read now.
LEMMA RowIsRead ==
    ASSUME RowsAndCalls, NEW subject, NEW r \in Releases, Exists(r),
           MadeFor(subject, r)
    PROVE  /\ ReadRow(r) \in Replies
           /\ ReadRow(r).code = "ok" /\ ReadRow(r).release = r
           /\ ReadRow(r).at = Len(journal[r])
           /\ ReplaysTo(journal[r], ReadRow(r).at, ReadRow(r).status)
           /\ \E m \in made : /\ m.subject = subject /\ m.release = r
                              /\ m.at <= ReadRow(r).at
<1>1. /\ TypeOK /\ JournalInv(r) /\ MadeInv
  BY DEF RowsAndCalls, RowsInv
<1>2. Len(journal[r]) \in Nat
  BY <1>1 DEF TypeOK
<1>3. ReadRow(r) \in Replies
  BY <1>1, <1>2 DEF ReadRow, Replies, TypeOK
<1>4. ReplaysTo(journal[r], Len(journal[r]), status[r])
  BY <1>1 DEF JournalInv, Says, Trail
<1>5. \E m \in made : /\ m.subject = subject /\ m.release = r
                      /\ m.at <= Len(journal[r])
  BY <1>1, <1>2 DEF MadeFor, MadeInv
<1> QED BY <1>3, <1>4, <1>5 DEF ReadRow

-------------------------------------------------------------------------------
(* The steps of a client and of the handlers that serve it.                *)

\* What a client may do, whichever of the calls it sends.
StepOf(c) ==
    \/ \E q \in ApiCalls : Call(c, q)
    \/ Do(c)
    \/ AnswerAgain(c)
    \/ Refuse(c)
    \/ Refresh(c)
    \/ Resend(c)
    \/ Finish(c)

\* The call that a handler counts is one that has committed.
LEMMA RefreshCounts ==
    ASSUME RowsAndCalls, CallsTyped, RepliesInv, NEW c \in Clients, Refresh(c)
    PROVE  \E m \in Made(call[c]) :
               /\ m.release = reply[c].release /\ m.release \in Releases
               /\ Exists(m.release)
               /\ Effect(m) \in ReleaseStatus \cup {"none"}
               /\ call[c] \in ApiCalls /\ m \in made
               /\ m.subject = Subject(call[c])
               /\ counted' = Increments(c, Effect(m))
               /\ Answer(c, ReadRow(m.release))
<1> DEFINE r == reply[c].release
           top == CHOOSE m \in Made(call[c]) : m.release = r
           last == journal[r][top.at]
<1>1. stage[c] = "committed" /\ Answer(c, ReadRow(r))
  BY DEF Refresh
<1>2. counted' = Increments(c, IF last.type = "release.status_changed"
                               THEN last.to ELSE "none")
  BY DEF Refresh
<1>3. call[c] \in ApiCalls
  BY <1>1 DEF CallsTyped
<1>4. \E m \in Made(call[c]) : m.release = r
  BY <1>1 DEF RepliesInv
<1>5. top \in Made(call[c]) /\ top.release = r
  BY <1>4
<1> HIDE DEF top
<1>6. counted' = Increments(c, Effect(top))
  BY <1>2, <1>5 DEF Effect
<1> HIDE DEF last
<1>7. top \in made /\ top.subject = Subject(call[c])
  BY <1>5 DEF Made
<1>8. /\ top.release \in Releases
      /\ Effect(top) \in ReleaseStatus \cup {"none"}
      /\ CarriedOut(call[c], top.release)
  BY <1>3, <1>7 DEF RowsAndCalls, MadeInv
<1>9. Exists(top.release)
  BY <1>3, <1>8, CarriedOutExists DEF RowsAndCalls
<1> QED BY <1>1, <1>3, <1>5, <1>6, <1>7, <1>8, <1>9

\* What the counters count.
LEMMA IncrementsAre ==
    ASSUME CallsTyped, NEW c \in Clients,
           NEW target \in ReleaseStatus \cup {"none"},
           counted' = Increments(c, target)
    PROVE  /\ counted' \in [created : Nat, accepted : Nat,
                            transitions : [ReleaseStatus -> Nat]]
           /\ counted.created \in Nat /\ counted.accepted \in Nat
           /\ counted'.created = IF call[c].kind = "create"
                                 THEN counted.created + 1 ELSE counted.created
           /\ counted'.accepted =
                  IF call[c].kind = "webhook" THEN counted.accepted + 1
                  ELSE counted.accepted
           /\ \A st \in ReleaseStatus :
                  /\ counted.transitions[st] \in Nat
                  /\ counted'.transitions[st] =
                         IF call[c].kind # "create" /\ target = st
                         THEN counted.transitions[st] + 1
                         ELSE counted.transitions[st]
<1>1. counted \in [created : Nat, accepted : Nat,
                   transitions : [ReleaseStatus -> Nat]]
  BY DEF CallsTyped
<1>2. "none" \notin ReleaseStatus
  BY DEF ReleaseStatus
<1>3. /\ counted'.created = IF call[c].kind = "create"
                            THEN counted.created + 1 ELSE counted.created
      /\ counted'.accepted =
             IF call[c].kind = "webhook" THEN counted.accepted + 1
             ELSE counted.accepted
      /\ counted'.transitions =
             IF call[c].kind # "create" /\ target # "none"
             THEN [counted.transitions EXCEPT ![target] =
                       counted.transitions[target] + 1]
             ELSE counted.transitions
  BY <1>1 DEF Increments
<1>4. counted' = [created |-> counted'.created,
                  accepted |-> counted'.accepted,
                  transitions |-> counted'.transitions]
  BY DEF Increments
<1>5. /\ counted.created \in Nat /\ counted.accepted \in Nat
      /\ counted.transitions \in [ReleaseStatus -> Nat]
  BY <1>1
<1>6. \A st \in ReleaseStatus :
          /\ counted.transitions[st] \in Nat
          /\ counted'.transitions[st] =
                 IF call[c].kind # "create" /\ target = st
                 THEN counted.transitions[st] + 1
                 ELSE counted.transitions[st]
  BY <1>2, <1>3, <1>5
<1>7. counted'.transitions \in [ReleaseStatus -> Nat]
  BY <1>2, <1>3, <1>5
<1>8. counted'.created \in Nat /\ counted'.accepted \in Nat
  BY <1>3, <1>5
<1> QED BY <1>3, <1>4, <1>5, <1>6, <1>7, <1>8

\* The columns of the model's clients keep their types.
LEMMA TypedStep ==
    ASSUME RowsAndCalls, CallsTyped, RepliesInv, NEW c \in Clients, StepOf(c)
    PROVE  CallsTyped'
<1>1. TypeOK
  BY DEF RowsAndCalls, RowsInv
<1>2. \A r \in Releases : ReadRow(r) \in Replies
  BY <1>1 DEF ReadRow, Replies, TypeOK
<1>3. /\ NoReply \in Replies
      /\ \A code \in {"refused", "failed"} :
             [NoReply EXCEPT !.code = code] \in Replies
  BY PlainReasonType DEF NoReply, Replies, NoReason
<1>4. ASSUME NEW answer \in Replies, Answer(c, answer),
             counted' \in [created : Nat, accepted : Nat,
                           transitions : [ReleaseStatus -> Nat]],
             stage[c] # "idle"
      PROVE  CallsTyped'
  BY <1>4 DEF Answer, CallsTyped
<1>5. ASSUME NEW q \in ApiCalls, Call(c, q)
      PROVE  CallsTyped'
  BY <1>5 DEF Call, CallsTyped
<1>6. CASE Do(c)
  <2>1. PICK r \in Releases : reply' = [reply EXCEPT ![c] = ReadRow(r)]
    BY <1>6 DEF Do
  <2>2. reply' \in [Clients -> Replies]
    BY <1>2, <2>1 DEF CallsTyped
  <2> QED BY <1>6, <2>2 DEF Do, CallsTyped
<1>7. CASE AnswerAgain(c)
  <2>1. /\ stage[c] = "sent" /\ counted' = counted
        /\ Verdict(call[c]) = "again"
    BY <1>7 DEF AnswerAgain
  <2>2. PICK r \in Shown(call[c]) : Answer(c, ReadRow(r))
    BY <1>7 DEF AnswerAgain
  <2>3. call[c] \in ApiCalls
    BY <2>1 DEF CallsTyped
  <2>4. r \in Releases
    BY <2>1, <2>2, <2>3, AgainIsDone
  <2> QED BY <1>2, <1>4, <2>1, <2>2, <2>4 DEF CallsTyped
<1>8. CASE Refuse(c)
  BY <1>3, <1>4, <1>8 DEF Refuse, CallsTyped
<1>9. CASE Refresh(c)
  <2>1. PICK m \in Made(call[c]) :
            /\ m.release \in Releases
            /\ Effect(m) \in ReleaseStatus \cup {"none"}
            /\ counted' = Increments(c, Effect(m))
            /\ Answer(c, ReadRow(m.release))
    BY <1>9, RefreshCounts
  <2>2. counted' \in [created : Nat, accepted : Nat,
                      transitions : [ReleaseStatus -> Nat]]
    BY <2>1, IncrementsAre
  <2>3. stage[c] # "idle"
    BY <1>9 DEF Refresh
  <2> QED BY <1>2, <1>4, <2>1, <2>2, <2>3
<1>10. CASE Resend(c)
  BY <1>3, <1>10 DEF Resend, CallsTyped
<1>11. CASE Finish(c)
  BY <1>3, <1>11 DEF Finish, CallsTyped
<1> QED BY <1>5, <1>6, <1>7, <1>8, <1>9, <1>10, <1>11 DEF StepOf

\* The handler carries out the call q of c for release r.
Does(c, q, r) ==
    /\ q = call[c] /\ Performed(q, r)
    /\ stage[c] = "sent" /\ stage'[c] = "committed"
    /\ reply' = [reply EXCEPT ![c] = ReadRow(r)]
    /\ made' = made \cup {Committed(q, r)'}
    /\ call' = call /\ counted' = counted

\* The steps that commit nothing, and those that do.
LEMMA StepsKeepCalls ==
    ASSUME RowsAndCalls, CallsTyped, NEW c \in Clients, StepOf(c)
    PROVE  /\ RowsAndCalls' /\ Grows /\ made \subseteq made'
           /\ \/ made' = made /\ UNCHANGED ledgerVars /\ ~Do(c)
              \/ /\ Do(c)
                 /\ \E q \in ApiCalls, r \in Releases : Does(c, q, r)
<1>1. CASE Do(c)
  <2>1. PICK q \in ApiCalls : q = call[c]
    BY <1>1 DEF Do, CallsTyped
  <2>2. PICK r \in Releases :
            /\ Perform(q, r)
            /\ reply' = [reply EXCEPT ![c] = ReadRow(r)]
            /\ made' = made \cup {Committed(q, r)'}
    BY <1>1, <2>1 DEF Do, Committed
  <2>3. RowsAndCalls' /\ Grows /\ Performed(q, r)
    BY <2>2, DoKeepsCalls
  <2>4. /\ stage[c] = "sent" /\ stage' = [stage EXCEPT ![c] = "committed"]
        /\ call' = call /\ counted' = counted
    BY <1>1 DEF Do
  <2>5. stage'[c] = "committed"
    BY <2>4 DEF CallsTyped
  <2>6. Does(c, q, r)
    BY <2>1, <2>2, <2>3, <2>4, <2>5 DEF Does
  <2>7. made \subseteq made'
    BY <2>2
  <2> QED BY <1>1, <2>3, <2>6, <2>7
<1>2. CASE ~Do(c)
  <2>1. made' = made /\ UNCHANGED ledgerVars
    <3>1. CASE AnswerAgain(c) \/ Refuse(c)
      BY <3>1 DEF AnswerAgain, Refuse, Answer
    <3>2. CASE Refresh(c)
      <4>1. Answer(c, ReadRow(reply[c].release))
        BY <3>2 DEF Refresh
      <4> QED BY <4>1 DEF Answer
    <3>3. CASE (\E q \in ApiCalls : Call(c, q)) \/ Resend(c) \/ Finish(c)
      BY <3>3 DEF Call, Resend, Finish
    <3> QED BY <1>2, <3>1, <3>2, <3>3 DEF StepOf
  <2>2. RowsAndCalls' /\ Grows
    BY <2>1, OthersKeepCalls
  <2> QED BY <1>2, <2>1, <2>2
<1> QED BY <1>1, <1>2

\* A step of one client is none of the others.
LEMMA OthersWait ==
    ASSUME CallsTyped, NEW c \in Clients, StepOf(c), NEW d \in Clients, d # c
    PROVE  call'[d] = call[d] /\ stage'[d] = stage[d] /\ reply'[d] = reply[d]
<1>1. ASSUME NEW answer, Answer(c, answer)
      PROVE  call'[d] = call[d] /\ stage'[d] = stage[d] /\ reply'[d] = reply[d]
  BY <1>1 DEF Answer, CallsTyped
<1>2. CASE AnswerAgain(c) \/ Refuse(c) \/ Refresh(c)
  BY <1>1, <1>2 DEF AnswerAgain, Refuse, Refresh
<1>3. CASE Do(c)
  BY <1>3 DEF Do, CallsTyped
<1>4. CASE (\E q \in ApiCalls : Call(c, q)) \/ Resend(c) \/ Finish(c)
  BY <1>4 DEF Call, Resend, Finish, CallsTyped
<1> QED BY <1>2, <1>3, <1>4 DEF StepOf

\* An answer that shows a release reads it after the call was carried out.
LEMMA AnswerHolds ==
    ASSUME RowsAndCalls, CallsTyped, made' = made, UNCHANGED ledgerVars,
           NEW c \in Clients, NEW r \in Releases, Exists(r),
           MadeFor(Subject(call[c]), r), Answer(c, ReadRow(r))
    PROVE  ReplyHolds(c)'
<1>1. PICK row : row = ReadRow(r)
  OBVIOUS
<1>2. /\ row.release = r
      /\ row.at = Len(journal[r])
      /\ ReplaysTo(journal[r], row.at, row.status)
      /\ \E m \in made : /\ m.subject = Subject(call[c]) /\ m.release = r
                         /\ m.at <= row.at
  BY <1>1, RowIsRead
<1>3. stage'[c] = "answered" /\ reply'[c] = row /\ call'[c] = call[c]
  BY <1>1 DEF Answer, CallsTyped
<1>4. Made(call[c])' = {m \in made : m.subject = Subject(call[c])}
  BY <1>3 DEF Made
<1>5. \E m \in Made(call[c])' : m.release = r /\ m.at <= row.at
  BY <1>2, <1>4
<1>6. journal' = journal
  BY DEF ledgerVars
<1>7. Len(journal[r]) \in Nat
  BY DEF RowsAndCalls, RowsInv, TypeOK
<1> QED BY <1>2, <1>3, <1>5, <1>6, <1>7 DEF ReplyHolds

\* What the clients have read stays true, and new answers are true.
LEMMA RepliesStep ==
    ASSUME RowsAndCalls, CallsTyped, RepliesInv, NEW c \in Clients, StepOf(c)
    PROVE  RepliesInv'
<1>1. RowsAndCalls' /\ Grows /\ made \subseteq made'
  BY StepsKeepCalls
<1>2. TypeOK /\ TypeOK'
  BY <1>1 DEF RowsAndCalls, RowsInv
<1>3. ASSUME NEW d \in Clients, d # c
      PROVE  ReplyHolds(d)'
  <2>1. ReplyHolds(d)
    BY DEF RepliesInv, ReplyHolds
  <2>2. call'[d] = call[d] /\ stage'[d] = stage[d] /\ reply'[d] = reply[d]
    BY <1>3, OthersWait
  <2> QED BY <1>1, <1>2, <2>1, <2>2, ReplyStays
<1>4. ASSUME Do(c) PROVE ReplyHolds(c)'
  <2>1. PICK q \in ApiCalls, r \in Releases : Does(c, q, r)
    BY <1>4, StepsKeepCalls
  <2>2. reply'[c].release = r
    BY <2>1 DEF Does, CallsTyped, ReadRow
  <2>3. PICK m : m = Committed(q, r)'
    OBVIOUS
  <2>4. m \in made' /\ m.subject = Subject(q) /\ m.release = r
    BY <2>1, <2>3 DEF Does, Committed
  <2>5. call'[c] = q /\ stage'[c] = "committed"
    BY <2>1 DEF Does
  <2> QED BY <2>2, <2>4, <2>5 DEF ReplyHolds, Made
<1>5. ASSUME AnswerAgain(c) PROVE ReplyHolds(c)'
  <2>1. call[c] \in ApiCalls /\ Verdict(call[c]) = "again"
    BY <1>5 DEF AnswerAgain, CallsTyped
  <2>2. PICK r \in Shown(call[c]) : Answer(c, ReadRow(r))
    BY <1>5 DEF AnswerAgain
  <2>3. r \in Releases /\ Exists(r) /\ MadeFor(Subject(call[c]), r)
    BY <2>1, <2>2, AgainIsDone
  <2>4. made' = made /\ UNCHANGED ledgerVars
    BY <2>2 DEF Answer
  <2> QED BY <2>2, <2>3, <2>4, AnswerHolds
<1>6. ASSUME Refresh(c) PROVE ReplyHolds(c)'
  <2>1. PICK m \in Made(call[c]) :
            /\ m.release \in Releases /\ Exists(m.release) /\ m \in made
            /\ m.subject = Subject(call[c])
            /\ Answer(c, ReadRow(m.release))
    BY <1>6, RefreshCounts
  <2>2. MadeFor(Subject(call[c]), m.release)
    BY <2>1 DEF MadeFor
  <2>3. made' = made /\ UNCHANGED ledgerVars
    BY <2>1 DEF Answer
  <2> QED BY <2>1, <2>2, <2>3, AnswerHolds
<1>7. ASSUME Refuse(c) PROVE ReplyHolds(c)'
  <2>1. stage'[c] = "answered" /\ reply'[c].code \in {"refused", "failed"}
    BY <1>7 DEF Refuse, Answer, CallsTyped, NoReply
  <2> QED BY <2>1 DEF ReplyHolds
<1>8. ASSUME (\E q \in ApiCalls : Call(c, q)) \/ Resend(c) \/ Finish(c)
      PROVE  ReplyHolds(c)'
  <2>1. stage'[c] \in {"sent", "idle"}
    BY <1>8 DEF Call, Resend, Finish, CallsTyped
  <2> QED BY <2>1 DEF ReplyHolds
<1>9. ReplyHolds(c)'
  BY <1>4, <1>5, <1>6, <1>7, <1>8 DEF StepOf
<1>10. \A d \in Clients : ReplyHolds(d)'
  BY <1>3, <1>9
<1> QED BY <1>10 DEF RepliesInv, ReplyHolds

\* The reconciler makes no answer untrue.
LEMMA RepliesStay ==
    ASSUME RowsAndCalls, CallsTyped, RepliesInv, UNCHANGED clientVars,
           ReconcilerNext \/ UNCHANGED ledgerVars
    PROVE  RepliesInv'
<1>1. UNCHANGED <<call, stage, reply, made>>
  BY DEF clientVars
<1>2. RowsAndCalls' /\ Grows
  BY <1>1, OthersKeepCalls
<1>3. TypeOK /\ TypeOK'
  BY <1>2 DEF RowsAndCalls, RowsInv
<1>4. ASSUME NEW d \in Clients PROVE ReplyHolds(d)'
  <2>1. ReplyHolds(d)
    BY DEF RepliesInv, ReplyHolds
  <2> QED BY <1>1, <1>2, <1>3, <2>1, ReplyStays
<1> QED BY <1>4 DEF RepliesInv, ReplyHolds

-------------------------------------------------------------------------------
(* What the handlers have counted, and have yet to count.                  *)

\* Sets of clients, one more or one less.
LEMMA ClientCounts ==
    ASSUME NEW S \in SUBSET Clients, NEW T \in SUBSET Clients, NEW c \in Clients
    PROVE  /\ Cardinality(S) \in Nat /\ Cardinality(T) \in Nat
           /\ S \subseteq T => Cardinality(S) <= Cardinality(T)
           /\ S \subseteq T \cup {c} => Cardinality(S) <= Cardinality(T) + 1
           /\ S \subseteq T \ {c} /\ c \in T =>
                  Cardinality(S) + 1 <= Cardinality(T)
<1>1. IsFiniteSet(S) /\ IsFiniteSet(T)
  BY RetriesAssumption, FS_Subset
<1>2. Cardinality(S) \in Nat /\ Cardinality(T) \in Nat
  BY <1>1, FS_CardinalityType
<1>3. S \subseteq T => Cardinality(S) <= Cardinality(T)
  BY <1>1, FS_Subset
<1>4. ASSUME S \subseteq T \cup {c}
      PROVE  Cardinality(S) <= Cardinality(T) + 1
  <2>1. /\ IsFiniteSet(T \cup {c})
        /\ Cardinality(T \cup {c}) \in {Cardinality(T), Cardinality(T) + 1}
    BY <1>1, FS_AddElement
  <2>2. Cardinality(S) <= Cardinality(T \cup {c})
    BY <1>4, <2>1, FS_Subset
  <2> QED BY <1>2, <2>1, <2>2
<1>5. ASSUME S \subseteq T \ {c}, c \in T
      PROVE  Cardinality(S) + 1 <= Cardinality(T)
  <2>1. IsFiniteSet(T \ {c}) /\ Cardinality(T \ {c}) = Cardinality(T) - 1
    BY <1>1, <1>5, FS_RemoveElement
  <2>2. Cardinality(S) <= Cardinality(T \ {c})
    BY <1>5, <2>1, FS_Subset
  <2> QED BY <1>2, <2>1, <2>2
<1> QED BY <1>2, <1>3, <1>4, <1>5

\* A step other than a commit leaves no call uncounted that was not before,
\* and not the one it is about.
LEMMA FewerUncounted ==
    ASSUME RowsAndCalls, CallsTyped, NEW c \in Clients, StepOf(c), ~Do(c)
    PROVE  /\ \A kind : Uncounted(kind)' \subseteq Uncounted(kind) \ {c}
           /\ \A st : UncountedMoves(st)' \subseteq UncountedMoves(st) \ {c}
<1>1. stage'[c] # "committed"
  <2>1. CASE AnswerAgain(c) \/ Refuse(c)
    BY <2>1 DEF AnswerAgain, Refuse, Answer, CallsTyped
  <2>2. CASE Refresh(c)
    <3>1. Answer(c, ReadRow(reply[c].release))
      BY <2>2 DEF Refresh
    <3> QED BY <3>1 DEF Answer, CallsTyped
  <2>3. CASE (\E q \in ApiCalls : Call(c, q)) \/ Resend(c) \/ Finish(c)
    BY <2>3 DEF Call, Resend, Finish, CallsTyped
  <2> QED BY <2>1, <2>2, <2>3 DEF StepOf
<1>2. \A d \in Clients : d # c =>
          call'[d] = call[d] /\ stage'[d] = stage[d] /\ reply'[d] = reply[d]
  BY OthersWait
<1>3. made' = made /\ journal' = journal
  <2>1. made' = made /\ UNCHANGED ledgerVars
    BY StepsKeepCalls
  <2> QED BY <2>1 DEF ledgerVars
<1>4. \A kind : Uncounted(kind)' \subseteq Uncounted(kind) \ {c}
  BY <1>1, <1>2 DEF Uncounted
<1>5. ASSUME NEW st, NEW d \in UncountedMoves(st)'
      PROVE  d \in UncountedMoves(st) \ {c}
  <2>1. /\ d \in Clients /\ stage'[d] = "committed"
        /\ call'[d].kind # "create"
    BY DEF UncountedMoves
  <2>2. d # c
    BY <1>1, <2>1
  <2>3. call'[d] = call[d] /\ stage'[d] = stage[d] /\ reply'[d] = reply[d]
    BY <1>2, <2>1, <2>2
  <2>4. \E m \in Made(call[d]) : m.release = reply[d].release /\ Effect(m) = st
    BY <1>3, <2>3 DEF UncountedMoves, Made, Effect
  <2> QED BY <2>1, <2>2, <2>3, <2>4 DEF UncountedMoves
<1> QED BY <1>4, <1>5

\* A commit adds its own call, if it is of the kind and has the effect.
LEMMA OneMoreUncounted ==
    ASSUME RowsAndCalls, RowsAndCalls', Grows, CallsTyped, RepliesInv,
           NEW c \in Clients, StepOf(c), NEW q \in ApiCalls,
           NEW r \in Releases, Does(c, q, r), NEW m, m = Committed(q, r)'
    PROVE  /\ \A kind : Uncounted(kind)' \subseteq
                  Uncounted(kind) \cup (IF q.kind = kind THEN {c} ELSE {})
           /\ \A st : UncountedMoves(st)' \subseteq
                  UncountedMoves(st) \cup
                  (IF q.kind # "create" /\ Effect(m)' = st THEN {c} ELSE {})
<1>1. \A d \in Clients : d # c =>
          call'[d] = call[d] /\ stage'[d] = stage[d] /\ reply'[d] = reply[d]
  BY OthersWait
<1>2. \A kind : Uncounted(kind)' \subseteq
          Uncounted(kind) \cup (IF q.kind = kind THEN {c} ELSE {})
  BY <1>1 DEF Uncounted, Does
<1>3. /\ m.subject = Subject(q) /\ m.release = r /\ m \in made'
      /\ made' = made \cup {m}
  BY DEF Committed, Does
<1>4. \A n, o \in made' : n.subject = o.subject /\ n.release = o.release =>
          Effect(n)' = Effect(o)'
  BY DEF RowsAndCalls, SameEffect
<1>5. /\ TypeOK /\ ReceiptsApart /\ MadeInv
  BY DEF RowsAndCalls, RowsInv
<1>6. \A n \in made : Effect(n)' = Effect(n)
  BY <1>5, MadeStays
<1>7. ASSUME NEW st, NEW d \in UncountedMoves(st)', d # c
      PROVE  d \in UncountedMoves(st)
  <2>1. /\ d \in Clients /\ stage'[d] = "committed"
        /\ call'[d].kind # "create"
    BY DEF UncountedMoves
  <2>2. call'[d] = call[d] /\ stage'[d] = stage[d] /\ reply'[d] = reply[d]
    BY <1>1, <1>7, <2>1
  <2>3. PICK n \in made' : /\ n.subject = Subject(call[d])
                           /\ n.release = reply[d].release
                           /\ Effect(n)' = st
    BY <2>2 DEF UncountedMoves, Made
  <2>4. PICK o \in made : /\ o.subject = Subject(call[d])
                          /\ o.release = reply[d].release
    BY <2>1, <2>2 DEF RepliesInv, Made
  <2>5. Effect(o) = st
    BY <1>3, <1>4, <1>6, <2>3, <2>4
  <2> QED BY <2>1, <2>2, <2>4, <2>5 DEF UncountedMoves, Made
<1>8. ASSUME NEW st, c \in UncountedMoves(st)'
      PROVE  q.kind # "create" /\ Effect(m)' = st
  <2>1. reply'[c].release = r /\ call'[c] = q
    BY DEF CallsTyped, ReadRow, Does
  <2>2. PICK n \in made' : /\ n.subject = Subject(q) /\ n.release = r
                           /\ Effect(n)' = st
    BY <1>8, <2>1 DEF UncountedMoves, Made
  <2>3. q.kind # "create"
    BY <1>8, <2>1 DEF UncountedMoves
  <2> QED BY <1>3, <1>4, <2>2, <2>3
<1> QED BY <1>2, <1>7, <1>8

\* The releases that exist.
Existing == {r \in Releases : Exists(r)}

\* They are finitely many.
LEMMA ExistingFinite ==
    IsFiniteSet(Existing) /\ Cardinality(Existing) \in Nat
<1>1. IsFiniteSet(Releases)
  BY LedgerAssumption, FS_Interval DEF Releases
<1>2. Existing \in SUBSET Releases
  BY DEF Existing
<1> QED BY <1>1, <1>2, FS_Subset, FS_CardinalityType

\* As long as nothing is committed, what is counted was uncounted before.
LEMMA CountingStep ==
    ASSUME RowsAndCalls, CallsTyped, RepliesInv, CountersInv,
           NEW c \in Clients, StepOf(c), ~Do(c)
    PROVE  CountersInv'
<1>1. /\ \A kind : Uncounted(kind)' \subseteq Uncounted(kind) \ {c}
      /\ \A st : UncountedMoves(st)' \subseteq UncountedMoves(st) \ {c}
  BY FewerUncounted
<1>2. UNCHANGED ledgerVars
  BY StepsKeepCalls
<1>3. /\ Existing' = Existing /\ receipts' = receipts
      /\ \A st : RequestedChanges(st)' = RequestedChanges(st)
  BY <1>2
  DEF ledgerVars, gateTables, Existing, Exists, RequestedChanges
<1>4. /\ counted.created \in Nat /\ counted.accepted \in Nat
      /\ \A st \in ReleaseStatus : counted.transitions[st] \in Nat
  BY DEF CallsTyped
<1>5. /\ counted.created + Cardinality(Uncounted("create"))
             <= Cardinality(Existing)
      /\ counted.accepted + Cardinality(Uncounted("webhook"))
             <= Cardinality(receipts)
      /\ \A st \in ReleaseStatus :
             counted.transitions[st] + Cardinality(UncountedMoves(st))
                 <= Cardinality(RequestedChanges(st))
  BY DEF CountersInv, Existing
<1>6. /\ \A kind : /\ Uncounted(kind) \in SUBSET Clients
                   /\ Uncounted(kind)' \in SUBSET Clients
      /\ \A st : /\ UncountedMoves(st) \in SUBSET Clients
                 /\ UncountedMoves(st)' \in SUBSET Clients
  BY DEF Uncounted, UncountedMoves
<1>7. /\ Cardinality(Existing) \in Nat /\ Cardinality(receipts) \in Nat
      /\ \A st \in ReleaseStatus : Cardinality(RequestedChanges(st)) \in Nat
  <2>1. Cardinality(receipts) \in Nat
    BY FS_CardinalityType DEF RowsAndCalls, ReceiptsApart
  <2>2. journal \in [Releases -> Seq(Events)]
    BY DEF RowsAndCalls, RowsInv, TypeOK
  <2>3. \A st : RequestedChanges(st) = Requested(journal, st)
    BY DEF RequestedChanges, Requested
  <2> QED BY <2>1, <2>2, <2>3, ExistingFinite, RequestedFinite
<1>8. /\ counted'.created + Cardinality(Uncounted("create")')
             <= counted.created + Cardinality(Uncounted("create"))
      /\ counted'.accepted + Cardinality(Uncounted("webhook")')
             <= counted.accepted + Cardinality(Uncounted("webhook"))
      /\ \A st \in ReleaseStatus :
             counted'.transitions[st] + Cardinality(UncountedMoves(st)')
                 <= counted.transitions[st] + Cardinality(UncountedMoves(st))
  <2>1. ASSUME NEW S \in SUBSET Clients, NEW T \in SUBSET Clients,
               S \subseteq T \ {c}, NEW n \in Nat, NEW k,
               k = n \/ (k = n + 1 /\ c \in T)
        PROVE  k + Cardinality(S) <= n + Cardinality(T)
    BY <2>1, ClientCounts
  <2>2. CASE Refresh(c)
    <3>1. PICK m \in Made(call[c]) :
              /\ m.release = reply[c].release
              /\ Effect(m) \in ReleaseStatus \cup {"none"}
              /\ counted' = Increments(c, Effect(m))
      BY <2>2, RefreshCounts
    <3>2. PICK target \in ReleaseStatus \cup {"none"} : target = Effect(m)
      BY <3>1
    <3>3. /\ counted'.created = IF call[c].kind = "create"
                                THEN counted.created + 1 ELSE counted.created
          /\ counted'.accepted =
                 IF call[c].kind = "webhook" THEN counted.accepted + 1
                 ELSE counted.accepted
          /\ \A st \in ReleaseStatus :
                 counted'.transitions[st] =
                     IF call[c].kind # "create" /\ target = st
                     THEN counted.transitions[st] + 1
                     ELSE counted.transitions[st]
      BY <3>1, <3>2, IncrementsAre
    <3>4. stage[c] = "committed"
      BY <2>2 DEF Refresh
    <3>5. /\ \A kind : call[c].kind = kind => c \in Uncounted(kind)
          /\ call[c].kind # "create" => c \in UncountedMoves(target)
      BY <3>1, <3>2, <3>4 DEF Uncounted, UncountedMoves
    <3>6. counted'.created + Cardinality(Uncounted("create")')
              <= counted.created + Cardinality(Uncounted("create"))
      BY <1>1, <1>4, <1>6, <2>1, <3>3, <3>5
    <3>7. counted'.accepted + Cardinality(Uncounted("webhook")')
              <= counted.accepted + Cardinality(Uncounted("webhook"))
      BY <1>1, <1>4, <1>6, <2>1, <3>3, <3>5
    <3>8. ASSUME NEW st \in ReleaseStatus
          PROVE  counted'.transitions[st] + Cardinality(UncountedMoves(st)')
                 <= counted.transitions[st] + Cardinality(UncountedMoves(st))
      <4>1. \/ counted'.transitions[st] = counted.transitions[st]
            \/ /\ counted'.transitions[st] = counted.transitions[st] + 1
               /\ c \in UncountedMoves(st)
        BY <3>3, <3>5
      <4> QED BY <1>1, <1>4, <1>6, <2>1, <4>1
    <3> QED BY <3>6, <3>7, <3>8
  <2>3. CASE ~Refresh(c)
    <3>1. counted' = counted
      BY <2>3
      DEF StepOf, Call, AnswerAgain, Refuse, Answer, Resend, Finish
    <3>2. \A st \in ReleaseStatus :
              counted'.transitions[st] + Cardinality(UncountedMoves(st)')
              <= counted.transitions[st] + Cardinality(UncountedMoves(st))
      BY <1>1, <1>4, <1>6, <2>1, <3>1
    <3>3. counted'.created + Cardinality(Uncounted("create")')
              <= counted.created + Cardinality(Uncounted("create"))
      BY <1>1, <1>4, <1>6, <2>1, <3>1
    <3>4. counted'.accepted + Cardinality(Uncounted("webhook")')
              <= counted.accepted + Cardinality(Uncounted("webhook"))
      BY <1>1, <1>4, <1>6, <2>1, <3>1
    <3> QED BY <3>2, <3>3, <3>4
  <2> QED BY <2>2, <2>3
<1>9. /\ counted'.created + Cardinality(Uncounted("create")')
             <= Cardinality(Existing')
      /\ counted'.accepted + Cardinality(Uncounted("webhook")')
             <= Cardinality(receipts')
      /\ \A st \in ReleaseStatus :
             counted'.transitions[st] + Cardinality(UncountedMoves(st)')
                 <= Cardinality(RequestedChanges(st)')
  <2>1. /\ counted'.created \in Nat /\ counted'.accepted \in Nat
        /\ \A st \in ReleaseStatus : counted'.transitions[st] \in Nat
    BY TypedStep DEF CallsTyped
  <2>2. \A S \in SUBSET Clients : Cardinality(S) \in Nat
    BY ClientCounts
  <2>3. ASSUME NEW st \in ReleaseStatus
        PROVE  counted'.transitions[st] + Cardinality(UncountedMoves(st)')
               <= Cardinality(RequestedChanges(st)')
    BY <1>3, <1>4, <1>5, <1>6, <1>7, <1>8, <2>1, <2>2
  <2>4. counted'.created + Cardinality(Uncounted("create")')
            <= Cardinality(Existing')
    BY <1>3, <1>4, <1>5, <1>6, <1>7, <1>8, <2>1, <2>2
  <2>5. counted'.accepted + Cardinality(Uncounted("webhook")')
            <= Cardinality(receipts')
    BY <1>3, <1>4, <1>5, <1>6, <1>7, <1>8, <2>1, <2>2
  <2> QED BY <2>3, <2>4, <2>5
<1> QED BY <1>9 DEF CountersInv, Existing

\* One more for one more.
LEMMA OneMore ==
    ASSUME NEW S \in SUBSET Clients, NEW T \in SUBSET Clients,
           NEW c \in Clients, NEW more \in BOOLEAN,
           S \subseteq T \cup (IF more THEN {c} ELSE {}),
           NEW n \in Nat, NEW low \in Nat, NEW high \in Nat,
           n + Cardinality(T) <= low, low <= high,
           more => low + 1 <= high
    PROVE  n + Cardinality(S) <= high
<1>1. /\ Cardinality(S) \in Nat /\ Cardinality(T) \in Nat
      /\ S \subseteq T => Cardinality(S) <= Cardinality(T)
      /\ S \subseteq T \cup {c} => Cardinality(S) <= Cardinality(T) + 1
  BY ClientCounts
<1>2. CASE more
  BY <1>1, <1>2
<1>3. CASE ~more
  BY <1>1, <1>3
<1> QED BY <1>2, <1>3

\* A commit is in the tables before it is counted.
LEMMA CommitIsThere ==
    ASSUME RowsAndCalls, RowsAndCalls', Grows, CallsTyped, RepliesInv,
           CountersInv, NEW c \in Clients, StepOf(c), NEW q \in ApiCalls,
           NEW r \in Releases, Does(c, q, r)
    PROVE  CountersInv'
<1>1. PICK m : m = Committed(q, r)'
  OBVIOUS
<1>2. /\ TypeOK /\ TypeOK' /\ ReceiptsApart /\ ReceiptsApart' /\ MadeInv
  BY DEF RowsAndCalls, RowsInv
<1> Performed(q, r) /\ counted' = counted
  BY DEF Does
<1>3. Effect(m)' = IF LastEvent(r)'.type = "release.status_changed"
                   THEN LastEvent(r)'.to ELSE "none"
  BY <1>1, <1>2, CommitIsMade
<1>4. /\ \A kind : Uncounted(kind)' \subseteq
             Uncounted(kind) \cup (IF q.kind = kind THEN {c} ELSE {})
      /\ \A st : UncountedMoves(st)' \subseteq
             UncountedMoves(st) \cup
             (IF q.kind # "create" /\ Effect(m)' = st THEN {c} ELSE {})
  BY <1>1, OneMoreUncounted
<1>5. /\ \A kind : /\ Uncounted(kind) \in SUBSET Clients
                   /\ Uncounted(kind)' \in SUBSET Clients
      /\ \A st : /\ UncountedMoves(st) \in SUBSET Clients
                 /\ UncountedMoves(st)' \in SUBSET Clients
  BY DEF Uncounted, UncountedMoves
<1>6. /\ counted.created \in Nat /\ counted.accepted \in Nat
      /\ \A st \in ReleaseStatus : counted.transitions[st] \in Nat
  BY DEF CallsTyped
<1>7. /\ counted.created + Cardinality(Uncounted("create"))
             <= Cardinality(Existing)
      /\ counted.accepted + Cardinality(Uncounted("webhook"))
             <= Cardinality(receipts)
      /\ \A st \in ReleaseStatus :
             counted.transitions[st] + Cardinality(UncountedMoves(st))
                 <= Cardinality(RequestedChanges(st))
  BY DEF CountersInv, Existing
<1>8. counted.created + Cardinality(Uncounted("create")')
          <= Cardinality(Existing')
  <2>1. /\ q.kind = "create" => r \notin Existing
        /\ Existing' = Existing \cup (IF q.kind = "create" THEN {r} ELSE {})
    BY DEF Performed, Existing
  <2>2. /\ IsFiniteSet(Existing) /\ Cardinality(Existing) \in Nat
    BY ExistingFinite
  <2> DEFINE old == Existing
  <2> HIDE DEF old
  <2>3. /\ IsFiniteSet(old \cup {r})
        /\ r \notin old => Cardinality(old \cup {r}) = Cardinality(old) + 1
    BY <2>2, FS_AddElement DEF old
  <2>4. /\ Cardinality(Existing') \in Nat
        /\ Cardinality(Existing) <= Cardinality(Existing')
        /\ q.kind = "create" =>
               Cardinality(Existing) + 1 <= Cardinality(Existing')
    <3>1. CASE q.kind = "create"
      BY <2>1, <2>2, <2>3, <3>1 DEF old
    <3>2. CASE q.kind # "create"
      BY <2>1, <2>2, <3>2
    <3> QED BY <3>1, <3>2
  <2> DEFINE more == q.kind = "create"
  <2>5. /\ more \in BOOLEAN
        /\ Uncounted("create") \in SUBSET Clients
        /\ Uncounted("create")' \in SUBSET Clients
        /\ Uncounted("create")' \subseteq
               Uncounted("create") \cup (IF more THEN {c} ELSE {})
    BY <1>4, <1>5
  <2>6. more => Cardinality(Existing) + 1 <= Cardinality(Existing')
    BY <2>4
  <2> HIDE DEF more
  <2> QED BY <1>6, <1>7, <2>2, <2>4, <2>5, <2>6, OneMore
<1>9. counted.accepted + Cardinality(Uncounted("webhook")')
          <= Cardinality(receipts')
  <2>1. /\ q.kind = "webhook" => q.body \notin receipts
        /\ receipts' = IF q.kind = "webhook" THEN receipts \cup {q.body}
                       ELSE receipts
    BY DEF Performed, ReceiptsOf
  <2>2. IsFiniteSet(receipts) /\ Cardinality(receipts) \in Nat
    BY <1>2, FS_CardinalityType DEF ReceiptsApart
  <2>3. q.kind = "webhook" =>
            Cardinality(receipts') = Cardinality(receipts) + 1
    BY <2>1, <2>2, FS_AddElement
  <2>4. /\ Cardinality(receipts') \in Nat
        /\ Cardinality(receipts) <= Cardinality(receipts')
        /\ q.kind = "webhook" =>
               Cardinality(receipts) + 1 <= Cardinality(receipts')
    BY <2>1, <2>2, <2>3
  <2> DEFINE more == q.kind = "webhook"
  <2>5. /\ more \in BOOLEAN
        /\ Uncounted("webhook") \in SUBSET Clients
        /\ Uncounted("webhook")' \in SUBSET Clients
        /\ Uncounted("webhook")' \subseteq
               Uncounted("webhook") \cup (IF more THEN {c} ELSE {})
    BY <1>4, <1>5
  <2>6. more => Cardinality(receipts) + 1 <= Cardinality(receipts')
    BY <2>4
  <2> HIDE DEF more
  <2> QED BY <1>6, <1>7, <2>2, <2>4, <2>5, <2>6, OneMore
<1>10. ASSUME NEW st \in ReleaseStatus
       PROVE  counted.transitions[st] + Cardinality(UncountedMoves(st)')
              <= Cardinality(RequestedChanges(st)')
  <2>1. /\ Cardinality(RequestedChanges(st)) \in Nat
        /\ Cardinality(RequestedChanges(st)') \in Nat
        /\ Cardinality(RequestedChanges(st))
               <= Cardinality(RequestedChanges(st)')
        /\ /\ Len(journal'[r]) > Len(journal[r])
           /\ journal'[r][Len(journal'[r])].to = st
           /\ journal'[r][Len(journal'[r])].reason.kind # "timeout"
           => Cardinality(RequestedChanges(st)) + 1
                  <= Cardinality(RequestedChanges(st)')
    BY <1>2, RequestedGrow
  <2> DEFINE more == q.kind # "create" /\ Effect(m)' = st
  <2>2. ASSUME more
        PROVE  Cardinality(RequestedChanges(st)) + 1
                   <= Cardinality(RequestedChanges(st)')
    <3>1. /\ LastEvent(r)'.type = "release.status_changed"
          /\ LastEvent(r)'.to = st
      <4>1. st # "none"
        BY DEF ReleaseStatus
      <4> QED BY <1>3, <2>2, <4>1
    <3>2. /\ Len(journal'[r]) > Len(journal[r])
          /\ LastEvent(r)'.reason.kind # "timeout"
      BY <3>1 DEF Performed
    <3> QED BY <2>1, <3>1, <3>2 DEF LastEvent
  <2>3. more \in BOOLEAN
    OBVIOUS
  <2>4. UncountedMoves(st)' \subseteq
            UncountedMoves(st) \cup (IF more THEN {c} ELSE {})
    BY <1>4
  <2> HIDE DEF more
  <2> QED BY <1>5, <1>6, <1>7, <2>1, <2>2, <2>3, <2>4, OneMore
<1> QED BY <1>8, <1>9, <1>10 DEF CountersInv, Existing

\* The reconciler counts nothing here, and only lengthens the journals.
LEMMA CountersStay ==
    ASSUME RowsAndCalls, CallsTyped, CountersInv, UNCHANGED clientVars,
           ReconcilerNext \/ UNCHANGED ledgerVars
    PROVE  CountersInv'
<1>1. UNCHANGED <<call, stage, reply, made, counted>>
  BY DEF clientVars
<1>2. RowsAndCalls' /\ Grows
  BY <1>1, OthersKeepCalls
<1>3. TypeOK /\ TypeOK' /\ MadeInv
  BY <1>2 DEF RowsAndCalls, RowsInv
<1>4. Existing' = Existing /\ receipts' = receipts
  BY <1>3, ReconcilerKeeps DEF Existing
<1>5. \A m \in made : Effect(m)' = Effect(m)
  BY <1>2, <1>3, EffectStays DEF MadeInv
<1>6. /\ \A kind : Uncounted(kind)' = Uncounted(kind)
      /\ \A st : UncountedMoves(st)' = UncountedMoves(st)
  BY <1>1, <1>5 DEF Uncounted, UncountedMoves, Made
<1>7. ASSUME NEW st \in ReleaseStatus
      PROVE  counted'.transitions[st] + Cardinality(UncountedMoves(st)')
             <= Cardinality(RequestedChanges(st)')
  <2>1. /\ Cardinality(RequestedChanges(st)) \in Nat
        /\ Cardinality(RequestedChanges(st)') \in Nat
        /\ Cardinality(RequestedChanges(st))
               <= Cardinality(RequestedChanges(st)')
    BY <1>2, <1>3, RequestedGrow
  <2>2. counted.transitions[st] + Cardinality(UncountedMoves(st))
            <= Cardinality(RequestedChanges(st))
    BY DEF CountersInv
  <2>3. counted.transitions[st] \in Nat
    BY DEF CallsTyped
  <2>4. Cardinality(UncountedMoves(st)) \in Nat
    BY RetriesAssumption, FS_Subset, FS_CardinalityType DEF UncountedMoves
  <2> QED BY <1>1, <1>6, <2>1, <2>2, <2>3, <2>4
<1> QED BY <1>1, <1>4, <1>6, <1>7 DEF CountersInv, Existing

-------------------------------------------------------------------------------
(* The invariant holds at the start and in every step.                     *)

\* The changes that requests made are finitely many at any time.
LEMMA RequestedCounted ==
    ASSUME TypeOK, NEW st
    PROVE  Cardinality(RequestedChanges(st)) \in Nat
<1>1. journal \in [Releases -> Seq(Events)]
  BY DEF TypeOK
<1>2. RequestedChanges(st) = Requested(journal, st)
  BY DEF Requested, RequestedChanges
<1> QED BY <1>1, <1>2, RequestedFinite

\* Nothing was created, called or counted.
LEMMA RetriesBegin == RetriesInit => RetriesInv
<1> SUFFICES ASSUME RetriesInit PROVE RetriesInv
  OBVIOUS
<1>1. LedgerInit /\ RowsInv
  BY RowsInit DEF RetriesInit
<1>2. /\ \A r \in Releases : ~Exists(r) /\ status[r] = "absent"
                             /\ journal[r] = <<>>
      /\ receipts = {} /\ made = {}
      /\ \A c \in Clients : stage[c] = "idle"
  BY <1>1 DEF LedgerInit, EmptyColumns, Exists, RetriesInit
<1>3. CallsTyped
  <2>1. NoReply \in Replies
    BY PlainReasonType DEF NoReply, Replies, NoReason
  <2> QED BY <1>2, <2>1 DEF CallsTyped, RetriesInit
<1>4. KeysApart /\ MadeInv /\ SameEffect /\ OnlyCalls /\ RepliesInv
  BY <1>2 DEF KeysApart, MadeInv, SameEffect, OnlyCalls, RepliesInv
<1>5. ReceiptsApart
  BY <1>2, FS_EmptySet DEF ReceiptsApart
<1>6. CountersInv
  <2>1. \A kind, st : Uncounted(kind) = {} /\ UncountedMoves(st) = {}
    BY <1>2 DEF Uncounted, UncountedMoves
  <2>2. {r \in Releases : Exists(r)} = {}
    BY <1>2
  <2>3. /\ counted.created = 0 /\ counted.accepted = 0
        /\ \A st \in ReleaseStatus : counted.transitions[st] = 0
    BY DEF RetriesInit
  <2>4. Cardinality({}) = 0
    BY FS_EmptySet
  <2>5. \A st : Cardinality(RequestedChanges(st)) \in Nat
    BY <1>1, RequestedCounted DEF RowsInv
  <2>6. /\ Cardinality(Uncounted("create")) = 0
        /\ Cardinality(Uncounted("webhook")) = 0
        /\ \A st : Cardinality(UncountedMoves(st)) = 0
    BY <2>1, <2>4
  <2>7. /\ Cardinality({r \in Releases : Exists(r)}) = 0
        /\ Cardinality(receipts) = 0
    BY <1>2, <2>2, <2>4
  <2>8. \A st : 0 <= Cardinality(RequestedChanges(st))
    <3> DEFINE size(st) == Cardinality(RequestedChanges(st))
    <3>1. \A st : size(st) \in Nat
      BY <2>5
    <3> HIDE DEF size
    <3>2. \A st : 0 <= size(st)
      BY <3>1
    <3> QED BY <3>2 DEF size
  <2>9. ASSUME NEW st \in ReleaseStatus
        PROVE  counted.transitions[st] + Cardinality(UncountedMoves(st))
                   <= Cardinality(RequestedChanges(st))
    BY <2>3, <2>6, <2>8
  <2>10. /\ counted.created + Cardinality(Uncounted("create"))
                <= Cardinality({r \in Releases : Exists(r)})
         /\ counted.accepted + Cardinality(Uncounted("webhook"))
                <= Cardinality(receipts)
    BY <2>3, <2>6, <2>7
  <2> QED BY <2>9, <2>10 DEF CountersInv
<1> QED BY <1>1, <1>3, <1>4, <1>5, <1>6 DEF RetriesInv

\* A client or a handler makes a step.
LEMMA RetriesStep ==
    ASSUME RetriesInv, NEW c \in Clients, StepOf(c)
    PROVE  RetriesInv'
<1>1. /\ RowsAndCalls /\ CallsTyped /\ RepliesInv /\ CountersInv
  BY DEF RetriesInv, RowsAndCalls
<1>2. /\ RowsAndCalls' /\ Grows
      /\ \/ ~Do(c)
         \/ \E q \in ApiCalls, r \in Releases : Does(c, q, r)
  BY <1>1, StepsKeepCalls
<1>3. CallsTyped'
  BY <1>1, TypedStep
<1>4. RepliesInv'
  BY <1>1, RepliesStep
<1>5. CountersInv'
  <2>1. CASE ~Do(c)
    BY <1>1, <2>1, CountingStep
  <2>2. CASE \E q \in ApiCalls, r \in Releases : Does(c, q, r)
    BY <1>1, <1>2, <2>2, CommitIsThere
  <2> QED BY <1>2, <2>1, <2>2
<1> QED BY <1>2, <1>3, <1>4, <1>5 DEF RetriesInv, RowsAndCalls

\* The reconciler does, or something else that is no call.
LEMMA RetriesStay ==
    ASSUME RetriesInv, UNCHANGED clientVars,
           ReconcilerNext \/ UNCHANGED ledgerVars
    PROVE  RetriesInv'
<1>1. /\ RowsAndCalls /\ CallsTyped /\ RepliesInv /\ CountersInv
  BY DEF RetriesInv, RowsAndCalls
<1>2. RowsAndCalls' /\ CallsTyped'
  <2>1. made' = made
    BY DEF clientVars
  <2>2. RowsAndCalls'
    BY <1>1, <2>1, OthersKeepCalls
  <2>3. CallsTyped'
    BY <1>1 DEF CallsTyped, clientVars
  <2> QED BY <2>2, <2>3
<1>3. RepliesInv'
  BY <1>1, RepliesStay
<1>4. CountersInv'
  BY <1>1, CountersStay
<1> QED BY <1>2, <1>3, <1>4 DEF RetriesInv, RowsAndCalls

-------------------------------------------------------------------------------
(* What a client may rely on.                                              *)

\* The answers it gets.
LEMMA OkIsDone == RetriesInv => OkMeansDone
<1> SUFFICES ASSUME RetriesInv, NEW c \in Clients,
                    stage[c] = "answered" /\ reply[c].code = "ok"
             PROVE  /\ \E m \in Made(call[c]) :
                           /\ m.release = reply[c].release
                           /\ m.at <= reply[c].at
                    /\ reply[c].status =
                           StatusAt(reply[c].release, reply[c].at)
  BY DEF OkMeansDone
<1>1. PICK r, n, st : r = reply[c].release /\ n = reply[c].at
                      /\ st = reply[c].status
  OBVIOUS
<1>2. TypeOK /\ ReplyHolds(c) /\ n \in Nat
  BY <1>1 DEF RetriesInv, RowsInv, RepliesInv, ReplyHolds, CallsTyped, Replies
<1>3. /\ r \in Releases /\ n <= Len(journal[r])
      /\ \E m \in Made(call[c]) : m.release = r /\ m.at <= n
      /\ ReplaysTo(journal[r], n, st)
  BY <1>1, <1>2 DEF ReplyHolds
<1>4. StatusAt(r, n) = st
  BY <1>2, <1>3, ReplaysToStatusAt
<1> QED BY <1>1, <1>3, <1>4

\* The calls it repeats.
LEMMA RepeatsAreRecognised == RetriesInv => RetriesAreRecognised
<1> SUFFICES ASSUME RetriesInv, NEW q \in Calls, q.kind \in Repeatable,
                    Made(q) # {}
             PROVE  /\ Verdict(q) = "again"
                    /\ Shown(q) = {m.release : m \in Made(q)}
  BY DEF RetriesAreRecognised
<1>1. q \in ApiCalls
  BY RetriesAssumption
<1>2. KeysApart /\ ReceiptsApart
  BY DEF RetriesInv
<1>3. ASSUME NEW m \in Made(q)
      PROVE  Verdict(q) = "again" /\ Shown(q) = {m.release}
  <2>1. m.release \in Releases /\ CarriedOut(q, m.release)
    BY <1>1, <1>3 DEF RetriesInv, MadeInv, Made
  <2> QED BY <1>1, <1>2, <2>1, DoneIsRecognised
<1>4. PICK m \in Made(q) : TRUE
  OBVIOUS
<1>5. Verdict(q) = "again" /\ Shown(q) = {m.release}
  BY <1>3, <1>4
<1>6. \A n \in Made(q) : n.release = m.release
  BY <1>3, <1>4
<1>7. {n.release : n \in Made(q)} = {m.release}
  BY <1>4, <1>6
<1> QED BY <1>5, <1>7

\* The counters it reads.
LEMMA CountersHold == RetriesInv => CountersNeverOvercount
<1> SUFFICES ASSUME RetriesInv PROVE CountersNeverOvercount
  OBVIOUS
<1>1. /\ \A kind : Cardinality(Uncounted(kind)) \in Nat
      /\ \A st : Cardinality(UncountedMoves(st)) \in Nat
  <2>1. ASSUME NEW S, S \in SUBSET Clients PROVE Cardinality(S) \in Nat
    BY <2>1, RetriesAssumption, FS_Subset, FS_CardinalityType
  <2>2. /\ \A kind : Uncounted(kind) \in SUBSET Clients
        /\ \A st : UncountedMoves(st) \in SUBSET Clients
    BY DEF Uncounted, UncountedMoves
  <2> QED BY <2>1, <2>2
<1>2. /\ counted.created \in Nat /\ counted.accepted \in Nat
      /\ \A st \in ReleaseStatus : counted.transitions[st] \in Nat
  BY DEF RetriesInv, CallsTyped
<1>3. /\ Cardinality(receipts) \in Nat /\ Cardinality(Existing) \in Nat
      /\ \A st : Cardinality(RequestedChanges(st)) \in Nat
  <2>1. Cardinality(receipts) \in Nat
    BY FS_CardinalityType DEF RetriesInv, ReceiptsApart
  <2>2. \A st : Cardinality(RequestedChanges(st)) \in Nat
    BY RequestedCounted DEF RetriesInv, RowsInv
  <2> QED BY <2>1, <2>2, ExistingFinite
<1>4. counted.created <= Cardinality({r \in Releases : Exists(r)})
  <2>1. counted.created + Cardinality(Uncounted("create"))
            <= Cardinality(Existing)
    BY DEF RetriesInv, CountersInv, Existing
  <2>2. counted.created <= Cardinality(Existing)
    BY <1>1, <1>2, <1>3, <2>1
  <2> QED BY <2>2 DEF Existing
<1>5. counted.accepted <= Cardinality(receipts)
  <2>1. counted.accepted + Cardinality(Uncounted("webhook"))
            <= Cardinality(receipts)
    BY DEF RetriesInv, CountersInv
  <2> QED BY <1>1, <1>2, <1>3, <2>1
<1>6. ASSUME NEW st \in ReleaseStatus
      PROVE  counted.transitions[st] <= Cardinality(RequestedChanges(st))
  <2>1. counted.transitions[st] + Cardinality(UncountedMoves(st))
            <= Cardinality(RequestedChanges(st))
    BY DEF RetriesInv, CountersInv
  <2> QED BY <1>1, <1>2, <1>3, <2>1
<1> QED BY <1>4, <1>5, <1>6 DEF CountersNeverOvercount

-------------------------------------------------------------------------------
(* The scripts are lists of calls that the routes accept.                  *)

IsList(s) == \E S : s \in Seq(S) /\ Len(s) # 0

\* A list has its steps at 1, 2, ... up to its length.
LEMMA ListSteps ==
    ASSUME NEW s, IsList(s)
    PROVE  Len(s) \in Nat \ {0} /\ DOMAIN s = 1..Len(s)
<1>1. PICK S : s \in Seq(S) /\ Len(s) # 0
  BY DEF IsList
<1> QED BY <1>1, LenProperties

\* One script after the other.
LEMMA ListsJoin ==
    ASSUME NEW s, NEW t, IsList(s), IsList(t)
    PROVE  IsList(s \o t)
<1>1. PICK S : s \in Seq(S) /\ Len(s) # 0
  BY DEF IsList
<1>2. PICK T : t \in Seq(T) /\ Len(t) # 0
  BY DEF IsList
<1>3. s \in Seq(S \cup T) /\ t \in Seq(S \cup T)
  BY <1>1, <1>2, SeqMonotonic
<1>4. s \o t \in Seq(S \cup T) /\ Len(s \o t) = Len(s) + Len(t)
  BY <1>3, ConcatProperties
<1>5. Len(s) \in Nat /\ Len(t) \in Nat
  BY <1>1, <1>2, LenProperties
<1> QED BY <1>1, <1>4, <1>5 DEF IsList

\* Any sequence that is not empty is one.
LEMMA SequencesAreLists ==
    ASSUME NEW S, NEW s \in Seq(S), Len(s) # 0
    PROVE  IsList(s)
BY DEF IsList

\* Lists written step by step.
LEMMA ListOfOne ==
    ASSUME NEW a
    PROVE  IsList(<<a>>)
<1>1. <<a>> \in Seq({a}) /\ Len(<<a>>) # 0
  OBVIOUS
<1> QED BY <1>1, SequencesAreLists, Zenon

\* Three steps.
LEMMA ListOfThree ==
    ASSUME NEW a, NEW b, NEW c
    PROVE  IsList(<<a, b, c>>)
<1>1. <<a, b, c>> \in Seq({a, b, c}) /\ Len(<<a, b, c>>) # 0
  OBVIOUS
<1> QED BY <1>1, SequencesAreLists, Zenon

\* Five steps.
LEMMA ListOfFive ==
    ASSUME NEW a, NEW b, NEW c, NEW d, NEW e
    PROVE  IsList(<<a, b, c, d, e>>)
<1>1. <<a, b, c, d, e>> \in Seq({a, b, c, d, e}) /\ Len(<<a, b, c, d, e>>) # 0
  OBVIOUS
<1> QED BY <1>1, SequencesAreLists, Zenon

\* Seven steps.
LEMMA ListOfSeven ==
    ASSUME NEW a, NEW b, NEW c, NEW d, NEW e, NEW f, NEW g
    PROVE  IsList(<<a, b, c, d, e, f, g>>)
<1>1. /\ <<a, b, c, d, e, f, g>> \in Seq({a, b, c, d, e, f, g})
      /\ Len(<<a, b, c, d, e, f, g>>) # 0
  OBVIOUS
<1> QED BY <1>1, SequencesAreLists, Zenon

\* Eight steps.
LEMMA ListOfEight ==
    ASSUME NEW a, NEW b, NEW c, NEW d, NEW e, NEW f, NEW g, NEW h
    PROVE  IsList(<<a, b, c, d, e, f, g, h>>)
<1>1. /\ <<a, b, c, d, e, f, g, h>> \in Seq({a, b, c, d, e, f, g, h})
      /\ Len(<<a, b, c, d, e, f, g, h>>) # 0
  OBVIOUS
<1> QED BY <1>1, SequencesAreLists, Zenon

\* The scripts are, and their parts.
LEMMA ScriptsAreLists ==
    /\ IsList(SmokePromoted) /\ IsList(SmokeRolledBack)
    /\ IsList(SmokeCancelled) /\ IsList(Smoke)
    /\ IsList(PromotedThenRolledBack) /\ IsList(FailedGateTerminal)
    /\ IsList(CancelBeforeCanary) /\ IsList(BadMetrics)
    /\ IsList(MissingMetrics) /\ IsList(OperatorScenarios)
    /\ \A r : IsList(CanaryOf(r))
<1>1. IsList(SmokePromoted)
  <2>1. PICK last :
            last = HasEvents(Shows(ObserveOf(1, 500, 2, 240), "succeeded"), 8)
    BY SMT
  <2>2. SmokePromoted =
            <<Succeeds(CreateOf(SmokeEnv, 1)),
              Passes(1, "tests"), Passes(1, "security"),
              Shows(GateOf(1, "signature", "passed"), "awaiting_approval"),
              Succeeds(ApproveOf(1)), Shows(DeployOf(1), "canary"), last>>
    BY <2>1, SMT DEF SmokePromoted
  <2> QED BY <2>2, ListOfSeven, Zenon
<1>2. IsList(SmokeRolledBack)
  <2>1. IsList(PassSmokeGates(2))
    BY ListOfThree, Zenon DEF PassSmokeGates
  <2>2. IsList(<<Succeeds(CreateOf(SmokeEnv, 2))>>)
    BY ListOfOne
  <2>3. PICK last :
            last = Follows(Shows(ObserveOf(2, 500, 120, 240), "rolled_back"), 1)
    BY SMT
  <2>4. IsList(<<Succeeds(ApproveOf(2)), Succeeds(DeployOf(2)), last>>)
    BY ListOfThree, Zenon
  <2> QED BY <2>1, <2>2, <2>3, <2>4, ListsJoin DEF SmokeRolledBack
<1>3. IsList(SmokeCancelled)
  BY ListOfFive, Zenon DEF SmokeCancelled
<1>4. IsList(PromotedThenRolledBack)
  BY ListOfEight, Zenon DEF PromotedThenRolledBack
<1>5. IsList(FailedGateTerminal) /\ IsList(CancelBeforeCanary)
  BY ListOfThree, Zenon DEF FailedGateTerminal, CancelBeforeCanary
<1>6. \A r : IsList(CanaryOf(r))
  BY ListOfFive, Zenon DEF CanaryOf
<1>7. IsList(BadMetrics) /\ IsList(MissingMetrics)
  BY <1>6, ListOfOne, ListsJoin DEF BadMetrics, MissingMetrics
<1>8. IsList(Smoke)
  BY <1>1, <1>2, <1>3, ListsJoin DEF Smoke
<1>9. IsList(OperatorScenarios)
  BY <1>4, <1>5, <1>7, ListsJoin DEF OperatorScenarios
<1> QED BY <1>1, <1>2, <1>3, <1>4, <1>5, <1>6, <1>7, <1>8, <1>9

\* The script that is run, and the step it is at.
ScriptsTyped ==
    /\ script \in Scripts
    /\ script # "none" => pos \in 1..Len(Steps)

\* A script sends a call that the routes accept.
LEMMA StepCalls ==
    ASSUME ScriptsTyped, script # "none"
    PROVE  /\ Len(Steps) \in Nat
           /\ Steps[pos].call.kind # "await" => Steps[pos].call \in ApiCalls
<1>1. script \in {"smoke", "operator"}
  BY ScriptsAssumption DEF ScriptsTyped
<1>2. PICK steps : /\ steps = Steps /\ IsList(steps)
                   /\ CallsOf(steps) \subseteq ApiCalls
  <2>1. CASE script = "smoke"
    <3>1. Steps = Smoke
      BY <2>1 DEF Steps
    <3> QED BY <2>1, <3>1, ScriptsAreLists, ScriptCallsAssumption
            DEF ScriptsTyped
  <2>2. CASE script = "operator"
    <3>1. Steps = OperatorScenarios
      BY <2>2 DEF Steps
    <3> QED BY <2>2, <3>1, ScriptsAreLists, ScriptCallsAssumption
            DEF ScriptsTyped
  <2> QED BY <1>1, <2>1, <2>2
<1>3. Len(steps) \in Nat \ {0} /\ pos \in DOMAIN steps
  BY <1>2, ListSteps DEF ScriptsTyped
<1>4. steps[pos].call.kind # "await" => steps[pos].call \in CallsOf(steps)
  BY <1>3 DEF CallsOf
<1> QED BY <1>2, <1>3, <1>4

-------------------------------------------------------------------------------
(* Every instance of Scripts.                                              *)

\* The script starts at its first step.
LEMMA ScriptsBegin == ScriptsInit => ScriptsTyped
<1> SUFFICES ASSUME ScriptsInit PROVE ScriptsTyped
  OBVIOUS
<1>1. script \in Scripts /\ pos = 1
  BY DEF ScriptsInit
<1>2. CASE script = "smoke"
  <2>1. Steps = Smoke
    BY <1>2 DEF Steps
  <2>2. Len(Smoke) \in Nat \ {0}
    BY ScriptsAreLists, ListSteps
  <2> QED BY <1>1, <2>1, <2>2 DEF ScriptsTyped
<1>3. CASE script = "operator"
  <2>1. Steps = OperatorScenarios
    BY <1>3 DEF Steps
  <2>2. Len(OperatorScenarios) \in Nat \ {0}
    BY ScriptsAreLists, ListSteps
  <2> QED BY <1>1, <2>1, <2>2 DEF ScriptsTyped
<1>4. CASE script = "none"
  BY <1>1, <1>4 DEF ScriptsTyped
<1> QED BY <1>1, <1>2, <1>3, <1>4, ScriptsAssumption

\* It goes on to the next, as long as there is one.
LEMMA StepEndsTyped ==
    ASSUME ScriptsTyped, Running, NEW ok \in BOOLEAN, NEW answer,
           StepEnds(ok, answer)
    PROVE  ScriptsTyped'
<1>1. Len(Steps) \in Nat /\ pos \in 1..Len(Steps)
  BY StepCalls DEF Running, ScriptsTyped
<1>2. script' = script /\ Steps' = Steps
  BY DEF StepEnds, Steps
<1>3. pos' \in 1..Len(Steps)
  BY <1>1 DEF StepEnds
<1> QED BY <1>2, <1>3 DEF ScriptsTyped

\* A step of a script, of the API or of the reconciler is one of module
\* Retries, or changes nothing of it.
LEMMA ScriptsStep ==
    ASSUME ScriptsTyped, [ScriptsNext]_allVars
    PROVE  /\ ScriptsTyped'
           /\ \/ \E c \in Clients : StepOf(c)
              \/ /\ UNCHANGED clientVars
                 /\ ReconcilerNext \/ UNCHANGED ledgerVars
<1>1. UNCHANGED scriptVars => ScriptsTyped'
  BY DEF scriptVars, ScriptsTyped, Steps
<1>2. Runner \in Clients
  BY ScriptsAssumption
<1>3. CASE Send(Runner)
  <2>1. Steps[pos].call \in ApiCalls
    BY <1>3, StepCalls DEF Send, Running
  <2>2. StepOf(Runner)
    BY <1>3, <2>1 DEF Send, StepOf
  <2> QED BY <1>1, <1>2, <1>3, <2>2 DEF Send
<1>4. CASE Check(Runner)
  <2>1. StepOf(Runner)
    BY <1>4 DEF Check, StepOf
  <2>2. Meets(Steps[pos], reply[Runner]) \in BOOLEAN
    BY DEF Meets
  <2>3. ScriptsTyped'
    BY <1>4, <2>2, StepEndsTyped DEF Check
  <2> QED BY <1>2, <2>1, <2>3
<1>5. CASE SeeRollback
  <2> DEFINE r == About(Steps[pos].call)
             seesIt == Meets(Steps[pos], ReadRow(r)) /\ TimedOut(r)
  <2>1. seesIt \in BOOLEAN
    BY DEF Meets
  <2>2. Running /\ UNCHANGED retryVars /\ StepEnds(seesIt, ReadRow(r))
    BY <1>5 DEF SeeRollback, Awaiting
  <2> HIDE DEF seesIt
  <2>3. ScriptsTyped'
    BY <2>1, <2>2, StepEndsTyped
  <2> QED BY <2>2, <2>3 DEF retryVars
<1>10. CASE GiveUp
  <2>1. UNCHANGED <<retryVars, script, pos>>
    BY <1>10 DEF GiveUp
  <2>2. ScriptsTyped'
    BY <2>1 DEF ScriptsTyped, Steps
  <2> QED BY <2>1, <2>2 DEF retryVars
<1>6. CASE Serve(Runner)
  <2>1. StepOf(Runner)
    BY <1>6 DEF Serve, StepOf
  <2> QED BY <1>1, <1>2, <1>6, <2>1 DEF Serve
<1>7. CASE OtherClients
  <2>1. \E c \in Clients : StepOf(c)
    BY <1>7, RetriesAssumption DEF OtherClients, ClientStep, StepOf
  <2> QED BY <1>1, <1>7, <2>1 DEF OtherClients
<1>8. CASE ReconcilerNext /\ UNCHANGED <<clientVars, scriptVars>>
  BY <1>1, <1>8
<1>9. CASE UNCHANGED allVars
  BY <1>1, <1>9 DEF allVars, retryVars
<1> QED BY <1>3, <1>4, <1>5, <1>6, <1>7, <1>8, <1>9, <1>10
        DEF ScriptsNext, ScriptStep

\* The invariant, whoever calls.
LEMMA RetriesHold == ScriptsSpec => [](RetriesInv /\ ScriptsTyped)
<1>1. ScriptsInit => RetriesInv /\ ScriptsTyped
  BY RetriesBegin, ScriptsBegin DEF ScriptsInit
<1>2. RetriesInv /\ ScriptsTyped /\ [ScriptsNext]_allVars
          => (RetriesInv /\ ScriptsTyped)'
  <2> SUFFICES ASSUME RetriesInv, ScriptsTyped, [ScriptsNext]_allVars
               PROVE  RetriesInv' /\ ScriptsTyped'
    OBVIOUS
  <2>1. CASE \E c \in Clients : StepOf(c)
    BY <2>1, ScriptsStep, RetriesStep
  <2>2. CASE UNCHANGED clientVars /\ (ReconcilerNext \/ UNCHANGED ledgerVars)
    BY <2>2, ScriptsStep, RetriesStay
  <2> QED BY <2>1, <2>2, ScriptsStep
<1> QED BY <1>1, <1>2, PTL DEF ScriptsSpec

\* OkMeansDone: whatever is lost, repeated or overtaken by the calls of others
\* and by the reconciler, an answer of success is for a call that has
\* committed, and shows the release as its journal had it then or later.
THEOREM OkHolds == ScriptsSpec => []OkMeansDone
BY RetriesHold, OkIsDone, PTL

\* CountersNeverOvercount: no counter exceeds what the tables show, however
\* often calls are repeated and counted late.
THEOREM CountersNeverOvercountHolds == ScriptsSpec => []CountersNeverOvercount
BY RetriesHold, CountersHold, PTL

\* RetriesAreRecognised: once a creation, a notification or a cancellation has
\* committed, the same call is always found to be done, for the same release.
THEOREM RecognitionHolds == ScriptsSpec => []RetriesAreRecognised
BY RetriesHold, RepeatsAreRecognised, PTL
===============================================================================
