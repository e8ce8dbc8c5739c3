----------------------------- MODULE Transactions -----------------------------
(***************************************************************************)
(* The handlers of ReleaseGuard as the statements they send to PostgreSQL. *)
(* Every API request and every pass of the reconciler is one READ          *)
(* COMMITTED transaction that takes row locks with SELECT ... FOR UPDATE,  *)
(* checks what it read, and commits what module Ledger says it commits;    *)
(* between two statements any other transaction may run, fail or commit.   *)
(* A transaction keeps the values it read (the session does not expire     *)
(* them), so a row it failed to lock could be stale when it writes.        *)
(***************************************************************************)
EXTENDS LedgerProperties

CONSTANTS
    Workers,      \* requests the API replicas serve at the same time
    Reconcilers,  \* processes running reconciler.run()
    Requests      \* what clients and CI send

\* What the handlers take: the row in the path, the body (schemas.py), and the
\* name of a client with the role the route asks for.
CreateRequests == [kind : {"create"}, env : Envs, key : Keys,
                   artifact : Artifacts, who : Admins]
WebhookRequests == {[kind |-> "webhook", release |-> w.release, body |-> w] :
                        w \in Webhooks}
ApproveRequests == [kind : {"approve"}, release : Releases, who : Approvers]
CancelRequests == [kind : {"cancel"}, release : Releases, who : Admins]
DeployRequests == [kind : {"deploy"}, release : Releases,
                   percent : CanaryPercents, who : Admins]
ObserveRequests == [kind : {"observe"}, release : Releases,
                    observation : Observations, who : Observers]
RollbackRequests == [kind : {"rollback"}, release : Releases, who : Admins]

AllRequests == CreateRequests \cup WebhookRequests \cup ApproveRequests
               \cup CancelRequests \cup DeployRequests \cup ObserveRequests
               \cup RollbackRequests

ASSUME TransactionsAssumption ==
    /\ Workers \cap Reconcilers = {}
    /\ Requests \subseteq AllRequests

VARIABLES
    pc,       \* the next statement of each transaction, "idle" without one
    request,  \* the request a worker serves
    seen,     \* the values a worker has read and still uses
    held,     \* the locks each transaction holds
    todo,     \* rows the reconciler has selected and not reached yet
    owned     \* rows of its batch the reconciler rolls back

processVars == <<pc, request, seen, held, todo, owned>>
batchVars == <<todo, owned>>
txVars == <<ledgerVars, processVars>>

Processes == Workers \cup Reconcilers

NoRequest == [kind |-> "none"]

NothingSeen == [status |-> "absent", active |-> NoRelease,
                current |-> NoRelease, outcome |-> <<>>]

-------------------------------------------------------------------------------
(* Locks of PostgreSQL: FOR UPDATE on a row of `releases` or               *)
(* `environments`, the FOR KEY SHARE a foreign key takes on the row it     *)
(* refers to, and the advisory lock on an event_id.  All are held to the   *)
(* end of the transaction.                                                 *)

Conflict(l, m) ==
    \/ l = m /\ l[1] # "release key share"
    \/ l[1] = "release" /\ m = <<"release key share", l[2]>>
    \/ m[1] = "release" /\ l = <<"release key share", m[2]>>

Available(p, locks) ==
    \A q \in Processes \ {p} : \A l \in locks, m \in held[q] : ~Conflict(l, m)

Acquire(p, locks) ==
    /\ Available(p, locks)
    /\ held' = [held EXCEPT ![p] = @ \cup locks]

\* What the statements of the handlers lock.

\* Mutant: two deliveries of one event_id no longer take turns.
NoEventLock(id) == {}

EventLock(id) == {<<"event", id>>}

ReleaseLock(r) == {<<"release", r>>}

\* Mutant: the row of the environment is read without FOR UPDATE.
NoEnvironmentLock(e) == {}

EnvironmentLock(e) == {<<"environment", e>>}

\* Mutant: a NULL previous_release_id is checked like any other.
InsertLockOfNull(prev) == {<<"release key share", prev>>}

\* The foreign key previous_release_id makes the INSERT of a release share the
\* key of the release it will go back to.
InsertLock(prev) ==
    IF prev = NoRelease THEN {} ELSE {<<"release key share", prev>>}

\* Mutant: the reconciler selects its rows without FOR UPDATE.
NoBatchLock(batch) == {}

BatchLock(batch) == {<<"release", r>> : r \in batch}

\* The environment of the request a worker serves.
EnvOf(p) ==
    IF request[p].kind = "create" THEN request[p].env
    ELSE envOf[request[p].release]

\* The lock the next statement of p takes; none when it only reads.
Wanted(p) ==
    CASE pc[p] = "event" -> EventLock(request[p].body.event)
      [] pc[p] = "release" /\ Exists(request[p].release) ->
             ReleaseLock(request[p].release)
      [] pc[p] = "environment" -> EnvironmentLock(EnvOf(p))
      [] pc[p] = "insert" -> InsertLock(seen[p].current)
      [] pc[p] = "batch" /\ todo[p] # <<>> ->
             EnvironmentLock(envOf[Head(todo[p])])
      [] OTHER -> {}

WaitsFor(p, q) ==
    /\ p # q
    /\ \E l \in Wanted(p), m \in held[q] : Conflict(l, m)

-------------------------------------------------------------------------------
(* Steps common to the handlers.                                           *)

Goto(w, step) == pc' = [pc EXCEPT ![w] = step]

\* The session is closed: the transaction and its locks are gone.
Close(w) ==
    /\ Goto(w, "idle")
    /\ request' = [request EXCEPT ![w] = NoRequest]
    /\ seen' = [seen EXCEPT ![w] = NothingSeen]
    /\ held' = [held EXCEPT ![w] = {}]
    /\ UNCHANGED batchVars

\* Mutant: the session of a refused request is not closed.
AnswerWithoutClose(w) ==
    /\ Goto(w, "idle")
    /\ request' = [request EXCEPT ![w] = NoRequest]
    /\ UNCHANGED <<ledgerVars, seen, held, batchVars>>

\* A request ends without a commit: with an error, or because its work was
\* already done.
Answer(w) == Close(w) /\ UNCHANGED ledgerVars

FirstStep(kind) ==
    CASE kind = "create" -> "environment"
      [] kind = "webhook" -> "event"
      [] OTHER -> "release"

Send(w, req) ==
    /\ pc[w] = "idle"
    /\ Goto(w, FirstStep(req.kind))
    /\ request' = [request EXCEPT ![w] = req]
    /\ UNCHANGED <<ledgerVars, seen, held, batchVars>>

\* receive_gate_webhook(): deliveries of one event_id take turns.
LockEvent(w) ==
    /\ pc[w] = "event"
    /\ Acquire(w, EventLock(request[w].body.event))
    /\ Goto(w, "release")
    /\ UNCHANGED <<ledgerVars, request, seen, batchVars>>

\* Where a handler goes with the release it has locked; "close" is an error,
\* or the answer of a repeated cancel.
AfterRelease(kind, st) ==
    CASE kind = "webhook" -> "receipt"
      [] kind = "approve" ->
             IF st = "awaiting_approval" THEN "gates" ELSE "close"
      [] kind = "cancel" -> IF st = "cancelled" THEN "close" ELSE "environment"
      [] kind = "observe" -> IF st = "canary" THEN "environment" ELSE "close"
      [] kind \in {"deploy", "rollback"} -> "environment"

\* lock_release(): waits for the row and reads its latest version.
LockRelease(w) ==
    LET r == request[w].release
        next == AfterRelease(request[w].kind, status[r])
    IN  /\ pc[w] = "release"
        /\ \/ /\ ~Exists(r) \/ (next = "close" /\ Available(w, ReleaseLock(r)))
              /\ Answer(w)
           \/ /\ Exists(r) /\ next # "close"
              /\ Acquire(w, ReleaseLock(r))
              /\ seen' = [seen EXCEPT ![w].status = status[r]]
              /\ Goto(w, next)
              /\ UNCHANGED <<ledgerVars, request, batchVars>>

\* The event_id was used before (a repeat, or another body), or the release no
\* longer takes results.
ReadReceipt(w) ==
    /\ pc[w] = "receipt"
    /\ \/ /\ ReceiptsOf(request[w].body.event) = {}
          /\ seen[w].status = "evaluating"
          /\ Goto(w, "environment")
          /\ UNCHANGED <<ledgerVars, request, seen, held, batchVars>>
       \/ /\ \/ ReceiptsOf(request[w].body.event) # {}
             \/ seen[w].status # "evaluating"
          /\ Answer(w)

\* Where a handler goes with the environment row it has locked.
AfterEnvironment(w, e) ==
    LET req == request[w]
        st == seen[w].status
    IN  CASE req.kind = "create" -> "find"
          [] req.kind = "webhook" ->
                 IF req.body.gate \in Policy[e].required_gates
                 THEN "gates" ELSE "close"
          [] req.kind = "cancel" ->
                 IF MayCancel(req.release, st, active[e])
                 THEN "commit" ELSE "close"
          [] req.kind = "deploy" ->
                 IF OwnsEnvironment(req.release, active[e])
                 THEN "gates" ELSE "close"
          [] req.kind = "observe" ->
                 IF /\ OwnsEnvironment(req.release, active[e])
                    /\ Storable(req.observation)
                 THEN "commit" ELSE "close"
          [] req.kind = "rollback" ->
                 IF MayRollBack(req.release, st, active[e], current[e])
                 THEN "commit" ELSE "close"

\* lock_environment().
LockEnvironment(w) ==
    LET e == EnvOf(w)
        next == AfterEnvironment(w, e)
    IN  /\ pc[w] = "environment"
        /\ \/ /\ next = "close"
              /\ Available(w, EnvironmentLock(e))
              /\ Answer(w)
           \/ /\ next # "close"
              /\ Acquire(w, EnvironmentLock(e))
              /\ seen' = [seen EXCEPT ![w].active = active[e],
                                      ![w].current = current[e]]
              /\ Goto(w, next)
              /\ UNCHANGED <<ledgerVars, request, batchVars>>

\* create_release(): a release with the same key answers the request, or shows
\* that the key was used for something else; an active one refuses it.
FindExisting(w) ==
    LET free == /\ WithKey(request[w].env, request[w].key) = {}
                /\ seen[w].active = NoRelease
    IN  /\ pc[w] = "find"
        /\ \/ /\ free
              /\ Goto(w, "insert")
              /\ UNCHANGED <<ledgerVars, request, seen, held, batchVars>>
           \/ ~free /\ Answer(w)

\* The flush of create_release().
Insert(w) ==
    /\ pc[w] = "insert"
    /\ Acquire(w, InsertLock(seen[w].current))
    /\ Goto(w, "commit")
    /\ UNCHANGED <<ledgerVars, request, seen, batchVars>>

\* The results a webhook, an approval or a deploy decides on.
ReadGates(w) ==
    LET req == request[w]
        r == req.release
        outcome == IF req.kind = "webhook"
                   THEN [results[r] EXCEPT ![req.body.gate] = req.body.status]
                   ELSE results[r]
        admitted ==
            CASE req.kind = "webhook" ->
                     SameResult(req.body, results[r][req.body.gate],
                                details[r][req.body.gate])
              [] req.kind = "approve" -> PassedGates(envOf[r], outcome)
              [] req.kind = "deploy" ->
                     MayDeploy(r, envOf[r], seen[w].status, seen[w].active,
                               outcome)
    IN  /\ pc[w] = "gates"
        /\ \/ /\ admitted
              /\ seen' = [seen EXCEPT ![w].outcome = outcome]
              /\ Goto(w, "commit")
              /\ UNCHANGED <<ledgerVars, request, held, batchVars>>
           \/ ~admitted /\ Answer(w)

\* What the handler commits on release r, from the values it has read.
Effect(w, r) ==
    LET req == request[w]
    IN  \/ /\ req.kind = "create"
           /\ CreateCommitted(r, req.env, req.key, req.artifact,
                              seen[w].current, req.who)
        \/ /\ req.kind = "webhook"
           /\ WebhookCommitted(req.body, envOf[r], seen[w].outcome)
        \/ req.kind = "approve" /\ ApproveCommitted(r, req.who)
        \/ /\ req.kind = "cancel"
           /\ CancelCommitted(r, envOf[r], seen[w].status, req.who)
        \/ req.kind = "deploy" /\ DeployCommitted(r, req.percent, req.who)
        \/ /\ req.kind = "observe" /\ WithinBound(r, req.observation)
           /\ ObserveCommitted(r, envOf[r], req.observation, req.who)
        \/ /\ req.kind = "rollback"
           /\ RollbackCommitted(r, envOf[r], seen[w].status, req.who)

Commit(w) ==
    /\ pc[w] = "commit"
    /\ \E r \in Releases :
           /\ IF request[w].kind = "create" THEN IsNext(r)
              ELSE r = request[w].release
           /\ Effect(w, r)
    /\ Close(w)

-------------------------------------------------------------------------------
(* reconcile_batch().                                                      *)

Orders(S) == {order \in [1..Cardinality(S) -> S] :
                  \A i, j \in DOMAIN order : order[i] = order[j] => i = j}

\* The rows a query of p with SKIP LOCKED does not skip.
Selectable(p) == {r \in Due : Available(p, ReleaseLock(r))}

\* FOR UPDATE SKIP LOCKED LIMIT 25: the expired canaries nobody has locked, as
\* many as the limit allows.  The query has no ORDER BY.
SelectBatch(p) ==
    LET free == Selectable(p)
    IN  /\ pc[p] = "idle"
        /\ free # {}
        /\ \E batch \in SUBSET free :
               /\ \/ Cardinality(batch) = BatchLimit
                  \/ Cardinality(batch) < BatchLimit /\ batch = free
               /\ batch # {}
               /\ \E order \in Orders(batch) :
                      todo' = [todo EXCEPT ![p] = order]
               /\ held' = [held EXCEPT ![p] = BatchLock(batch)]
        /\ Goto(p, "batch")
        /\ UNCHANGED <<ledgerVars, request, seen, owned>>

LockNextEnvironment(p) ==
    /\ pc[p] = "batch"
    /\ todo[p] # <<>>
    /\ LET r == Head(todo[p])
       IN  /\ Acquire(p, EnvironmentLock(envOf[r]))
           /\ owned' = IF OwnsEnvironment(r, active[envOf[r]])
                       THEN [owned EXCEPT ![p] = @ \cup {r}] ELSE owned
    /\ todo' = [todo EXCEPT ![p] = Tail(@)]
    /\ UNCHANGED <<ledgerVars, pc, request, seen>>

\* Mutant: a pass leaves its releases to the next one of its process.
EndBatchKeepsReleases(p) ==
    /\ held' = [held EXCEPT ![p] = {}]
    /\ todo' = [todo EXCEPT ![p] = <<>>]
    /\ Goto(p, "idle")
    /\ UNCHANGED <<request, seen, owned>>

EndBatch(p) ==
    /\ held' = [held EXCEPT ![p] = {}]
    /\ todo' = [todo EXCEPT ![p] = <<>>]
    /\ owned' = [owned EXCEPT ![p] = {}]
    /\ Goto(p, "idle")
    /\ UNCHANGED <<request, seen>>

CommitBatch(p) ==
    /\ pc[p] = "batch"
    /\ todo[p] = <<>>
    /\ ReconcileCommitted(owned[p])
    /\ EndBatch(p)

-------------------------------------------------------------------------------
(* Failures.                                                               *)

Abort(p) ==
    \/ p \in Workers /\ Answer(p)
    \/ p \in Reconcilers /\ EndBatch(p) /\ UNCHANGED ledgerVars

\* The process, its connection or its client is lost before the commit.
Crash(p) == pc[p] # "idle" /\ Abort(p)

\* The transactions of S wait for one another: none of them can go on.
WaitCycle(S) ==
    /\ S # {}
    /\ \A p \in S : /\ \E q \in S : WaitsFor(p, q)
                    /\ \E q \in S : WaitsFor(q, p)

\* PostgreSQL ends a transaction of the cycle after deadlock_timeout.
DeadlockVictim(p) ==
    /\ \E S \in SUBSET Processes : p \in S /\ WaitCycle(S)
    /\ Abort(p)

-------------------------------------------------------------------------------
TxInit ==
    /\ LedgerInit
    /\ pc = [p \in Processes |-> "idle"]
    /\ request = [p \in Processes |-> NoRequest]
    /\ seen = [p \in Processes |-> NothingSeen]
    /\ held = [p \in Processes |-> {}]
    /\ todo = [p \in Processes |-> <<>>]
    /\ owned = [p \in Processes |-> {}]

Serve(w) ==
    \/ LockEvent(w) \/ LockRelease(w) \/ ReadReceipt(w) \/ LockEnvironment(w)
    \/ FindExisting(w) \/ Insert(w) \/ ReadGates(w) \/ Commit(w)

Sweep(p) == SelectBatch(p) \/ LockNextEnvironment(p) \/ CommitBatch(p)

TxNext ==
    \/ \E w \in Workers, req \in Requests : Send(w, req)
    \/ \E w \in Workers : Serve(w)
    \/ \E p \in Reconcilers : Sweep(p)
    \/ \E p \in Processes : Crash(p) \/ DeadlockVictim(p)
    \/ \E r \in Releases : Expire(r) /\ UNCHANGED processVars

TxSpec == TxInit /\ [][TxNext]_txVars

-------------------------------------------------------------------------------
(* Properties.                                                             *)

\* Every transaction holds locks only of the kinds its process takes, and is
\* at a statement of its handler.
TxTypeOK ==
    /\ pc \in [Processes -> {"idle", "event", "release", "receipt",
                             "environment", "find", "insert", "gates",
                             "commit", "batch"}]
    /\ request \in [Processes -> Requests \cup {NoRequest}]
    /\ held \in [Processes -> SUBSET
            (({"event"} \X EventIds) \cup ({"environment"} \X Envs) \cup
             ({"release", "release key share"} \X Releases))]
    /\ todo \in [Processes -> Seq(Releases)]
    /\ owned \in [Processes -> SUBSET Releases]

\* The locks make each transaction atomic: whatever the interleaving, the
\* failures and the repeats, the commits of all the processes are a behaviour
\* of the ledger, where each handler checks and writes in one step.
CommitsAreAtomic == LedgerSpec

\* The unique constraints of `releases` and `gate_results` and the primary key
\* of `webhook_receipts` never refuse an INSERT: no other transaction can
\* insert the same key after the handler has found that it is free.  The
\* handlers do not catch such an error, so it would reach a client as 500.
ConstraintsNeverFire ==
    \A w \in Workers : pc[w] = "commit" =>
        /\ request[w].kind = "create" =>
               WithKey(request[w].env, request[w].key) = {}
        /\ request[w].kind = "webhook" =>
               LET body == request[w].body
               IN  /\ ReceiptsOf(body.event) = {}
                   /\ SameResult(body, results[body.release][body.gate],
                                 details[body.release][body.gate])

\* Transactions wait for one another in a circle only if one of them inserts a
\* release: the other handlers, and every pass of the reconciler, take their
\* locks in an order that cannot deadlock.
OnlyInsertDeadlocks ==
    \A S \in SUBSET Processes : WaitCycle(S) => \E p \in S : pc[p] = "insert"

\* No transaction that holds the row of an environment waits for the row of a
\* release: release first, then environment (docs/architecture.md).
ReleaseThenEnvironment ==
    \A p \in Processes :
        (\E e \in Envs : <<"environment", e>> \in held[p]) =>
            \A q \in Processes, r \in Releases :
                WaitsFor(p, q) => /\ <<"release", r>> \notin Wanted(p)
                                  /\ <<"release key share", r>> \notin Wanted(p)

\* The rows a pass of the reconciler has selected are still canaries that own
\* their environments when it gets to them, however long it waits: the branch
\* of its loop that logs an inconsistency is not reached, so no row can fill
\* its batches without ever leaving them.
BatchIsOwned ==
    \A p \in Reconcilers : \A i \in DOMAIN todo[p] :
        LET r == todo[p][i]
        IN  status[r] = "canary" /\ OwnsEnvironment(r, active[envOf[r]])

-------------------------------------------------------------------------------
(* Fairness.  A process goes on to its next statement.  PostgreSQL grants a *)
(* lock in the order of the requests for it, so a statement whose lock is  *)
(* free again and again gets it.  A deadlock is broken after its timeout.  *)

WorkersGoOn ==
    \A w \in Workers :
        /\ SF_txVars(LockEvent(w)) /\ SF_txVars(LockRelease(w))
        /\ SF_txVars(LockEnvironment(w)) /\ SF_txVars(Insert(w))
        /\ WF_txVars(ReadReceipt(w)) /\ WF_txVars(FindExisting(w))
        /\ WF_txVars(ReadGates(w)) /\ WF_txVars(Commit(w))
        /\ WF_txVars(DeadlockVictim(w))

\* The reconciler runs in a loop that survives exceptions, meets every expired
\* canary unlocked again and again, and fails in finitely many passes only.
SweepsGoOn ==
    /\ \A r \in Releases : WF_txVars(Expire(r) /\ UNCHANGED processVars)
    /\ \A p \in Reconcilers :
           /\ SF_txVars(SelectBatch(p)) /\ SF_txVars(LockNextEnvironment(p))
           /\ WF_txVars(CommitBatch(p))
           /\ <>[][~Crash(p)]_txVars

TxLiveSpec == TxSpec /\ WorkersGoOn /\ SweepsGoOn

\* Every request is answered, whatever else runs.
RequestsAreAnswered ==
    \A w \in Workers : pc[w] # "idle" ~> pc[w] = "idle"

\* A canary ends although the reconciler skips rows that requests have locked.
HungCanariesEnd ==
    \A r \in Releases : status[r] = "canary" ~> status[r] # "canary"
===============================================================================
