-------------------------- MODULE TransactionsProofs --------------------------
(***************************************************************************)
(* Transactions in every instance, with any number of workers and          *)
(* reconcilers: the locks make the handlers atomic, so that what they      *)
(* commit is a behaviour of Ledger; no INSERT is refused; and only an      *)
(* INSERT of a release can close a circle of waiting transactions.         *)
(***************************************************************************)
EXTENDS Transactions, LedgerProofs, FiniteSetTheorems

-------------------------------------------------------------------------------
(* The inductive invariant.                                                *)

Locks == ({"event"} \X EventIds) \cup ({"environment"} \X Envs) \cup
         ({"release", "release key share"} \X Releases)

Sightings == [status : ReleaseStatus \cup {"absent"},
              active : Releases \cup {NoRelease},
              current : Releases \cup {NoRelease},
              outcome : [Gates -> GateStatus \cup {"missing"}] \cup {<<>>}]

Typed ==
    /\ TxTypeOK
    /\ seen \in [Processes -> Sightings]

\* No two transactions hold locks that conflict.
Exclusion ==
    \A p \in Processes : \A q \in Processes \ {p} :
        \A l \in held[p], m \in held[q] : ~Conflict(l, m)

Kind(w) == request[w].kind
Row(w) == request[w].release

\* The statements of the handler of each kind of request.
Statements(kind) ==
    CASE kind = "create" -> {"environment", "find", "insert", "commit"}
      [] kind = "webhook" -> {"event", "release", "receipt", "environment",
                              "gates", "commit"}
      [] kind = "approve" -> {"release", "gates", "commit"}
      [] kind = "deploy" -> {"release", "environment", "gates", "commit"}
      [] kind \in {"cancel", "observe", "rollback"} ->
             {"release", "environment", "commit"}
      [] OTHER -> {"idle"}

\* What a worker has locked at its statement.
HasEvent(w) == Kind(w) = "webhook" /\ pc[w] # "event"
HasRow(w) == /\ Kind(w) \notin {"none", "create"}
             /\ pc[w] \in {"receipt", "environment", "gates", "commit"}
HasEnvironment(w) == /\ Kind(w) # "approve"
                     /\ pc[w] \in {"find", "insert", "gates", "commit"}
HasKey(w) == Kind(w) = "create" /\ pc[w] = "commit"

LocksOf(w) ==
    (IF HasEvent(w) THEN EventLock(request[w].body.event) ELSE {}) \cup
    (IF HasRow(w) THEN ReleaseLock(Row(w)) ELSE {}) \cup
    (IF HasEnvironment(w) THEN EnvironmentLock(EnvOf(w)) ELSE {}) \cup
    (IF HasKey(w) THEN InsertLock(seen[w].current) ELSE {})

\* What a worker has read of the rows it has locked is what they hold now, and
\* the keys it has found free are free.
Fresh(w) ==
    /\ HasRow(w) => /\ Exists(Row(w))
                    /\ seen[w].status = status[Row(w)]
    /\ HasEnvironment(w) => /\ seen[w].active = active[EnvOf(w)]
                            /\ seen[w].current = current[EnvOf(w)]
    /\ Kind(w) = "create" /\ pc[w] \in {"insert", "commit"} =>
           WithKey(request[w].env, request[w].key) = {}
    /\ Kind(w) = "webhook" /\ pc[w] \in {"environment", "gates", "commit"} =>
           ReceiptsOf(request[w].body.event) = {}
    /\ Kind(w) \in {"approve", "deploy"} /\ pc[w] = "commit" =>
           seen[w].outcome = results[Row(w)]
    /\ Kind(w) = "webhook" /\ pc[w] = "commit" =>
           LET body == request[w].body
           IN  /\ seen[w].outcome =
                      [results[Row(w)] EXCEPT ![body.gate] = body.status]
               /\ SameResult(body, results[Row(w)][body.gate],
                             details[Row(w)][body.gate])

\* The conditions the handler has checked, on what it has read.
Checked(w) ==
    LET req == request[w]
        st == seen[w].status
        e == EnvOf(w)
    IN  /\ Kind(w) = "create" /\ pc[w] \in {"insert", "commit"} =>
               seen[w].active = NoRelease
        /\ Kind(w) = "webhook" =>
               /\ pc[w] \in {"environment", "gates", "commit"} =>
                      st = "evaluating"
               /\ pc[w] \in {"gates", "commit"} =>
                      req.body.gate \in Policy[e].required_gates
        /\ Kind(w) = "approve" =>
               /\ pc[w] \in {"gates", "commit"} => st = "awaiting_approval"
               /\ pc[w] = "commit" => PassedGates(e, seen[w].outcome)
        /\ Kind(w) = "cancel" /\ pc[w] = "commit" =>
               MayCancel(Row(w), st, seen[w].active)
        /\ Kind(w) = "deploy" /\ pc[w] = "commit" =>
               MayDeploy(Row(w), e, st, seen[w].active, seen[w].outcome)
        /\ Kind(w) = "observe" =>
               /\ pc[w] \in {"environment", "commit"} => st = "canary"
               /\ pc[w] = "commit" =>
                      /\ OwnsEnvironment(Row(w), seen[w].active)
                      /\ Storable(req.observation)
        /\ Kind(w) = "rollback" /\ pc[w] = "commit" =>
               MayRollBack(Row(w), st, seen[w].active, seen[w].current)

WorkerInv(w) ==
    /\ pc[w] \in Statements(Kind(w))
    /\ held[w] = LocksOf(w)
    /\ Fresh(w)
    /\ Checked(w)

\* The rows of the batch of a reconciler that it has not let go.
Batch(p) == {todo[p][i] : i \in DOMAIN todo[p]} \cup owned[p]

\* A reconciler has locked its batch, expired canaries all, and with each row it
\* owns the environment; it holds no other environment.
SweepInv(p) ==
    /\ request[p] = NoRequest
    /\ \/ pc[p] = "idle" /\ Batch(p) = {} /\ held[p] = {}
       \/ pc[p] = "batch" /\ Batch(p) # {}
    /\ IsFiniteSet(Batch(p)) /\ Cardinality(Batch(p)) <= BatchLimit
    /\ \A r \in Batch(p) :
           /\ <<"release", r>> \in held[p]
           /\ r \in expired /\ status[r] = "canary"
    /\ \A r \in owned[p] : <<"environment", envOf[r]>> \in held[p]
    /\ \A e \in Envs : <<"environment", e>> \in held[p] =>
           \E r \in owned[p] : envOf[r] = e

TxInv ==
    /\ LineageInv
    /\ Typed
    /\ Exclusion
    /\ \A w \in Workers : WorkerInv(w)
    /\ \A p \in Reconcilers : SweepInv(p)

-------------------------------------------------------------------------------
(* Requests and locks.                                                     *)

\* What is in a request of each kind.
LEMMA RequestFields ==
    ASSUME NEW req \in Requests
    PROVE  /\ req.kind \in {"create", "webhook", "approve", "cancel", "deploy",
                            "observe", "rollback"}
           /\ req.kind = "create" =>
                  /\ req.env \in Envs /\ req.key \in Keys
                  /\ req.artifact \in Artifacts /\ req.who \in Admins
           /\ req.kind # "create" => req.release \in Releases
           /\ req.kind = "webhook" =>
                  req.body \in Webhooks /\ req.body.release = req.release
           /\ req.kind = "approve" => req.who \in Approvers
           /\ req.kind \in {"cancel", "deploy", "rollback"} =>
                  req.who \in Admins
           /\ req.kind = "deploy" => req.percent \in CanaryPercents
           /\ req.kind = "observe" =>
                  req.observation \in Observations /\ req.who \in Observers
<1>1. req \in AllRequests
  BY TransactionsAssumption
<1>2. CASE req \in WebhookRequests
  BY <1>2 DEF WebhookRequests, Webhooks
<1>3. CASE req \notin WebhookRequests
  BY <1>1, <1>3 DEF AllRequests, CreateRequests, ApproveRequests,
                    CancelRequests, DeployRequests, ObserveRequests,
                    RollbackRequests
<1> QED BY <1>2, <1>3

\* A process that serves a request is at a statement of its handler.
LEMMA RequestOfWorker ==
    ASSUME Typed, NEW w \in Workers, pc[w] \in Statements(Kind(w))
    PROVE  /\ w \in Processes
           /\ Kind(w) = "none" <=> pc[w] = "idle"
           /\ Kind(w) = "none" => request[w] = NoRequest
           /\ Kind(w) # "none" => request[w] \in Requests
           /\ Kind(w) \in {"none", "create", "webhook", "approve", "cancel",
                           "deploy", "observe", "rollback"}
           /\ Kind(w) \notin {"none", "create"} => Row(w) \in Releases
<1>1. w \in Processes
  BY DEF Processes
<1>2. request[w] \in Requests \cup {NoRequest}
  BY <1>1 DEF Typed, TxTypeOK
<1>3. NoRequest.kind = "none"
  BY DEF NoRequest
<1>4. request[w] \in Requests =>
          /\ Kind(w) \in {"create", "webhook", "approve", "cancel", "deploy",
                          "observe", "rollback"}
          /\ Kind(w) # "create" => Row(w) \in Releases
  BY RequestFields DEF Kind, Row
<1>5. request[w] = NoRequest => Kind(w) = "none"
  BY <1>3 DEF Kind
<1> QED BY <1>1, <1>2, <1>4, <1>5 DEF Statements

\* Conflicts go both ways.
LEMMA ConflictSymmetric == \A l, m : Conflict(l, m) <=> Conflict(m, l)
BY DEF Conflict

\* What one transaction has locked no other has.
LEMMA Excludes ==
    ASSUME Exclusion, NEW p \in Processes, NEW q \in Processes, p # q
    PROVE  /\ \A r : <<"release", r>> \in held[p] =>
                  /\ <<"release", r>> \notin held[q]
                  /\ <<"release key share", r>> \notin held[q]
           /\ \A e : <<"environment", e>> \in held[p] =>
                  <<"environment", e>> \notin held[q]
           /\ \A id : <<"event", id>> \in held[p] =>
                  <<"event", id>> \notin held[q]
<1>1. \A l \in held[p], m \in held[q] : ~Conflict(l, m)
  BY DEF Exclusion
<1>2. \A r : Conflict(<<"release", r>>, <<"release", r>>)
  BY DEF Conflict
<1>3. \A r : Conflict(<<"release", r>>, <<"release key share", r>>)
  BY DEF Conflict
<1>4. \A e : Conflict(<<"environment", e>>, <<"environment", e>>)
  BY DEF Conflict
<1>5. \A id : Conflict(<<"event", id>>, <<"event", id>>)
  BY DEF Conflict
<1> QED BY <1>1, <1>2, <1>3, <1>4, <1>5

-------------------------------------------------------------------------------
(* A step of one transaction and the others.                               *)

\* The step belongs to q.
Alone(q) ==
    \A p \in Processes \ {q} :
        /\ pc'[p] = pc[p] /\ request'[p] = request[p] /\ seen'[p] = seen[p]
        /\ held'[p] = held[p] /\ todo'[p] = todo[p] /\ owned'[p] = owned[p]

\* It changes only rows that q has locked: a release under its lock, an
\* environment under its lock, a new release under the lock of its environment,
\* a receipt under the lock of its event.
Touches(q) ==
    /\ \A r \in Releases : Exists(r) =>
           /\ Exists(r)' /\ envOf'[r] = envOf[r] /\ keyOf'[r] = keyOf[r]
           /\ <<"release", r>> \notin held[q] =>
                  /\ status'[r] = status[r]
                  /\ results'[r] = results[r] /\ details'[r] = details[r]
    /\ \A r \in Releases : ~Exists(r) /\ Exists(r)' =>
           <<"environment", envOf'[r]>> \in held[q]
    /\ \A e \in Envs : <<"environment", e>> \notin held[q] =>
           active'[e] = active[e] /\ current'[e] = current[e]
    /\ \A id \in EventIds : <<"event", id>> \notin held[q] =>
           ReceiptsOf(id)' = ReceiptsOf(id)
    /\ expired \subseteq expired'

\* What a worker has locked.
LEMMA LocksOfWorker ==
    ASSUME TypeOK, Typed, NEW w \in Workers, WorkerInv(w)
    PROVE  /\ HasEvent(w) =>
                  /\ <<"event", request[w].body.event>> \in held[w]
                  /\ request[w].body.event \in EventIds
           /\ HasRow(w) => /\ Row(w) \in Releases /\ Exists(Row(w))
                           /\ <<"release", Row(w)>> \in held[w]
                           /\ envOf[Row(w)] \in Envs
           /\ HasEnvironment(w) => /\ EnvOf(w) \in Envs
                                   /\ <<"environment", EnvOf(w)>> \in held[w]
           /\ HasEnvironment(w) /\ Kind(w) # "create" => HasRow(w)
           /\ Kind(w) # "create" => EnvOf(w) = envOf[Row(w)]
<1>1. /\ Kind(w) = "none" <=> pc[w] = "idle"
      /\ Kind(w) # "none" => request[w] \in Requests
      /\ Kind(w) \notin {"none", "create"} => Row(w) \in Releases
  BY RequestOfWorker DEF WorkerInv
<1>2. held[w] = LocksOf(w) /\ pc[w] \in Statements(Kind(w))
  BY DEF WorkerInv
<1>3. HasEvent(w) => /\ <<"event", request[w].body.event>> \in held[w]
                     /\ request[w].body.event \in EventIds
  BY <1>1, <1>2, RequestFields
  DEF HasEvent, LocksOf, EventLock, Kind, Webhooks
<1>4. HasRow(w) => /\ Row(w) \in Releases /\ Exists(Row(w))
                   /\ <<"release", Row(w)>> \in held[w]
                   /\ envOf[Row(w)] \in Envs
  <2>1. HasRow(w) => Row(w) \in Releases /\ Exists(Row(w))
    BY <1>1 DEF HasRow, WorkerInv, Fresh
  <2>2. HasRow(w) => <<"release", Row(w)>> \in held[w]
    BY <1>2 DEF LocksOf, ReleaseLock
  <2> QED BY <2>1, <2>2 DEF TypeOK
<1>5. HasEnvironment(w) /\ Kind(w) # "create" => HasRow(w)
  BY <1>1, <1>2 DEF HasEnvironment, HasRow, Statements
<1>6. Kind(w) # "create" => EnvOf(w) = envOf[Row(w)]
  BY DEF EnvOf, Kind, Row
<1>7. HasEnvironment(w) => <<"environment", EnvOf(w)>> \in held[w]
  BY <1>2 DEF LocksOf, EnvironmentLock
<1>8. Kind(w) = "create" => EnvOf(w) \in Envs
  BY <1>1, RequestFields DEF EnvOf, Kind
<1> QED BY <1>3, <1>4, <1>5, <1>6, <1>7, <1>8

\* Whatever another transaction does, a worker keeps what it has locked, read
\* and checked.
LEMMA OthersKeep ==
    ASSUME TypeOK, Typed, Exclusion, NEW w \in Workers, WorkerInv(w),
           NEW q \in Processes, q # w, Alone(q), Touches(q)
    PROVE  WorkerInv(w)'
<1>1. /\ pc'[w] = pc[w] /\ request'[w] = request[w] /\ seen'[w] = seen[w]
      /\ held'[w] = held[w] /\ w \in Processes
  BY DEF Alone, Processes
<1>2. /\ HasEvent(w)' = HasEvent(w) /\ HasRow(w)' = HasRow(w)
      /\ HasEnvironment(w)' = HasEnvironment(w) /\ HasKey(w)' = HasKey(w)
      /\ Kind(w)' = Kind(w) /\ Row(w)' = Row(w)
  BY <1>1 DEF HasEvent, HasRow, HasEnvironment, HasKey, Kind, Row
<1>3. HasRow(w) =>
          /\ Exists(Row(w))' /\ envOf'[Row(w)] = envOf[Row(w)]
          /\ status'[Row(w)] = status[Row(w)]
          /\ results'[Row(w)] = results[Row(w)]
          /\ details'[Row(w)] = details[Row(w)]
  <2> HAVE HasRow(w)
  <2> PICK r \in Releases : r = Row(w)
    BY LocksOfWorker
  <2>1. Exists(r) /\ <<"release", r>> \in held[w]
    BY LocksOfWorker
  <2>2. <<"release", r>> \notin held[q]
    BY <1>1, <2>1, Excludes
  <2>3. /\ Exists(r)' /\ envOf'[r] = envOf[r] /\ status'[r] = status[r]
        /\ results'[r] = results[r] /\ details'[r] = details[r]
    BY <2>1, <2>2 DEF Touches
  <2> QED BY <1>2, <2>3 DEF Exists
<1>4. HasEnvironment(w) \/ HasRow(w) => EnvOf(w)' = EnvOf(w)
  <2>1. Kind(w) = "create" => EnvOf(w)' = EnvOf(w)
    BY <1>1 DEF EnvOf, Kind
  <2>2. Kind(w) # "create" => EnvOf(w)' = envOf'[Row(w)]
    BY <1>1, <1>2 DEF EnvOf, Kind, Row
  <2> QED BY <1>3, <2>1, <2>2, LocksOfWorker
<1>5. HasEnvironment(w) => /\ active'[EnvOf(w)] = active[EnvOf(w)]
                           /\ current'[EnvOf(w)] = current[EnvOf(w)]
  <2> HAVE HasEnvironment(w)
  <2> PICK e \in Envs : e = EnvOf(w) /\ <<"environment", e>> \in held[w]
    BY LocksOfWorker
  <2>1. <<"environment", e>> \notin held[q]
    BY <1>1, Excludes
  <2> QED BY <2>1 DEF Touches
<1>6. held'[w] = LocksOf(w)'
  BY <1>1, <1>2, <1>4
  DEF WorkerInv, LocksOf, EventLock, ReleaseLock, EnvironmentLock, InsertLock
<1>7. Kind(w) = "create" /\ pc[w] \in {"insert", "commit"} =>
          WithKey(request[w].env, request[w].key)' = {}
  <2> HAVE Kind(w) = "create" /\ pc[w] \in {"insert", "commit"}
  <2> PICK e \in Envs : /\ e = EnvOf(w) /\ e = request[w].env
                        /\ <<"environment", e>> \in held[w]
    BY LocksOfWorker DEF HasEnvironment, EnvOf, Kind
  <2>1. <<"environment", e>> \notin held[q]
    BY <1>1, Excludes
  <2>2. WithKey(e, request[w].key) = {}
    BY DEF WorkerInv, Fresh
  <2>3. \A r \in Releases : Exists(r)' /\ envOf'[r] = e =>
            /\ Exists(r) /\ envOf[r] = e /\ keyOf'[r] = keyOf[r]
    BY <2>1 DEF Touches
  <2>4. \A r \in Releases : ~(Exists(r) /\ envOf[r] = e
                              /\ keyOf[r] = request[w].key)
    BY <2>2 DEF WithKey
  <2> QED BY <1>1, <2>3, <2>4 DEF WithKey
<1>8. HasEvent(w) => ReceiptsOf(request[w].body.event)'
                         = ReceiptsOf(request[w].body.event)
  <2> HAVE HasEvent(w)
  <2> PICK id \in EventIds : /\ id = request[w].body.event
                             /\ <<"event", id>> \in held[w]
    BY LocksOfWorker
  <2>1. <<"event", id>> \notin held[q]
    BY <1>1, Excludes
  <2>2. ReceiptsOf(id)' = ReceiptsOf(id)
    BY <2>1 DEF Touches
  <2> QED BY <1>1, <2>2 DEF ReceiptsOf
<1>9. Fresh(w)'
  <2>1. /\ Kind(w) \in {"approve", "deploy", "webhook"} /\ pc[w] = "commit"
               => HasRow(w)
        /\ Kind(w) = "webhook" /\ pc[w] \in {"environment", "gates", "commit"}
               => HasEvent(w)
    BY DEF HasRow, HasEvent
  <2>2. Fresh(w)
    BY DEF WorkerInv
  <2>3. (HasRow(w) => Exists(Row(w)) /\ seen[w].status = status[Row(w)])'
    BY <1>1, <1>2, <1>3, <2>2 DEF Fresh
  <2>4. (HasEnvironment(w) => /\ seen[w].active = active[EnvOf(w)]
                              /\ seen[w].current = current[EnvOf(w)])'
    BY <1>1, <1>2, <1>4, <1>5, <2>2 DEF Fresh
  <2>5. (Kind(w) = "webhook" /\ pc[w] \in {"environment", "gates", "commit"} =>
             ReceiptsOf(request[w].body.event) = {})'
    BY <1>1, <1>2, <1>8, <2>1, <2>2 DEF Fresh
  <2>6. (/\ Kind(w) \in {"approve", "deploy"} /\ pc[w] = "commit" =>
                seen[w].outcome = results[Row(w)]
         /\ Kind(w) = "webhook" /\ pc[w] = "commit" =>
                LET body == request[w].body
                IN  /\ seen[w].outcome =
                           [results[Row(w)] EXCEPT ![body.gate] = body.status]
                    /\ SameResult(body, results[Row(w)][body.gate],
                                  details[Row(w)][body.gate]))'
    BY <1>1, <1>2, <1>3, <2>1, <2>2 DEF Fresh, SameResult
  <2> QED BY <1>1, <1>2, <1>7, <2>3, <2>4, <2>5, <2>6 DEF Fresh
<1>10. Checked(w)'
  <2>1. /\ Kind(w) \in {"webhook", "deploy"} /\ pc[w] \in {"gates", "commit"}
               => HasRow(w)
        /\ Kind(w) = "approve" /\ pc[w] = "commit" => HasRow(w)
    BY DEF HasRow
  <2>2. Checked(w)
    BY DEF WorkerInv
  <2> QED
    BY <1>1, <1>2, <1>4, <2>1, <2>2
    DEF Checked, PassedGates, MayCancel, MayDeploy, MayRollBack,
        OwnsEnvironment, Storable
<1>11. pc'[w] \in Statements(Kind(w))'
  BY <1>1, <1>2 DEF WorkerInv, Statements
<1> QED BY <1>6, <1>9, <1>10, <1>11 DEF WorkerInv

\* So does a reconciler.
LEMMA OthersKeepSweep ==
    ASSUME TypeOK, Typed, Exclusion, NEW p \in Reconcilers, SweepInv(p),
           NEW q \in Processes, q # p, Alone(q), Touches(q)
    PROVE  SweepInv(p)'
<1>1. /\ pc'[p] = pc[p] /\ request'[p] = request[p] /\ held'[p] = held[p]
      /\ todo'[p] = todo[p] /\ owned'[p] = owned[p] /\ p \in Processes
  BY DEF Alone, Processes
<1>2. Batch(p)' = Batch(p)
  BY <1>1 DEF Batch
<1>3. Batch(p) \subseteq Releases /\ owned[p] \subseteq Batch(p)
  <2>1. todo[p] \in Seq(Releases) /\ owned[p] \in SUBSET Releases
    BY <1>1 DEF Typed, TxTypeOK
  <2>2. \A i \in DOMAIN todo[p] : todo[p][i] \in Releases
    BY <2>1
  <2> QED BY <2>1, <2>2 DEF Batch
<1>4. \A r \in Batch(p) :
          /\ <<"release", r>> \in held[p] /\ envOf'[r] = envOf[r]
          /\ r \in expired' /\ status'[r] = "canary"
  <2> SUFFICES ASSUME NEW r \in Batch(p)
               PROVE  /\ <<"release", r>> \in held[p] /\ envOf'[r] = envOf[r]
                      /\ r \in expired' /\ status'[r] = "canary"
    OBVIOUS
  <2>1. /\ <<"release", r>> \in held[p] /\ r \in expired /\ status[r] = "canary"
        /\ r \in Releases /\ Exists(r)
    BY <1>3 DEF SweepInv, Exists
  <2>2. <<"release", r>> \notin held[q]
    BY <1>1, <2>1, Excludes
  <2> QED BY <2>1, <2>2 DEF Touches
<1>5. \A e \in Envs : <<"environment", e>> \in held'[p] =>
          \E r \in owned'[p] : envOf'[r] = e
  <2> SUFFICES ASSUME NEW e \in Envs, <<"environment", e>> \in held[p]
               PROVE  \E r \in owned[p] : envOf'[r] = e
    BY <1>1
  <2> PICK r \in owned[p] : envOf[r] = e
    BY DEF SweepInv
  <2>1. envOf'[r] = envOf[r]
    BY <1>3, <1>4
  <2> QED BY <2>1
<1>6. \A r \in owned'[p] : <<"environment", envOf'[r]>> \in held'[p]
  BY <1>1, <1>3, <1>4 DEF SweepInv
<1>7. /\ request'[p] = NoRequest
      /\ \/ pc'[p] = "idle" /\ Batch(p)' = {} /\ held'[p] = {}
         \/ pc'[p] = "batch" /\ Batch(p)' # {}
      /\ IsFiniteSet(Batch(p)') /\ Cardinality(Batch(p)') <= BatchLimit
  BY <1>1, <1>2 DEF SweepInv
<1>8. \A r \in Batch(p)' :
          /\ <<"release", r>> \in held'[p]
          /\ r \in expired' /\ status'[r] = "canary"
  BY <1>1, <1>2, <1>4
<1> QED BY <1>5, <1>6, <1>7, <1>8 DEF SweepInv

\* The locks a transaction takes keep it apart from the others.
LEMMA ExclusionStep ==
    ASSUME Exclusion, NEW q \in Processes, Alone(q),
           \A p \in Processes \ {q} : \A l \in held'[q], m \in held[p] :
               ~Conflict(l, m)
    PROVE  Exclusion'
<1> SUFFICES ASSUME NEW p \in Processes, NEW o \in Processes \ {p},
                    NEW l \in held'[p], NEW m \in held'[o]
             PROVE  ~Conflict(l, m)
  BY DEF Exclusion, Conflict
<1>1. CASE p = q
  BY <1>1 DEF Alone
<1>2. CASE o = q
  BY <1>2, ConflictSymmetric DEF Alone
<1>3. CASE p # q /\ o # q
  BY <1>3 DEF Alone, Exclusion
<1> QED BY <1>1, <1>2, <1>3

-------------------------------------------------------------------------------
(* What has to be shown of every step of a transaction.                    *)

StepOf(q) ==
    /\ [LedgerNext]_ledgerVars
    /\ Touches(q)
    /\ Alone(q)
    /\ Typed'
    /\ \A p \in Processes \ {q} : \A l \in held'[q], m \in held[p] :
           ~Conflict(l, m)
    /\ q \in Workers => WorkerInv(q)'
    /\ q \in Reconcilers => SweepInv(q)'

\* It is then a step of the ledger, and keeps the invariant.
LEMMA StepKeeps ==
    ASSUME TxInv, NEW q \in Processes, StepOf(q)
    PROVE  TxInv'
<1>1. LineageInv' /\ TypeOK
  BY LineageStep DEF TxInv, StepOf, LineageInv
<1>2. Exclusion' /\ Typed'
  BY ExclusionStep DEF TxInv, StepOf
<1>3. ASSUME NEW w \in Workers PROVE WorkerInv(w)'
  BY <1>1, OthersKeep DEF TxInv, StepOf
<1>4. ASSUME NEW p \in Reconcilers PROVE SweepInv(p)'
  BY <1>1, OthersKeepSweep DEF TxInv, StepOf
<1> QED BY <1>1, <1>2, <1>3, <1>4 DEF TxInv

\* Statements that only lock or read.
LEMMA ReadsTouchNothing ==
    ASSUME NEW q, UNCHANGED ledgerVars
    PROVE  [LedgerNext]_ledgerVars /\ Touches(q)
<1>1. UNCHANGED <<status, envOf, keyOf, active, current, results, details,
                  receipts, expired>>
  BY DEF ledgerVars, identity, pointers, gateTables
<1> QED BY <1>1 DEF Touches, Exists, ReceiptsOf

\* Only the entries of q are written.
Written(q) ==
    /\ pc' = [pc EXCEPT ![q] = pc'[q]]
    /\ request' = [request EXCEPT ![q] = request'[q]]
    /\ seen' = [seen EXCEPT ![q] = seen'[q]]
    /\ held' = [held EXCEPT ![q] = held'[q]]
    /\ todo' = [todo EXCEPT ![q] = todo'[q]]
    /\ owned' = [owned EXCEPT ![q] = owned'[q]]

\* They have their types, so everything has.
LEMMA WrittenTypes ==
    ASSUME Typed, NEW q \in Processes, Written(q),
           pc'[q] \in {"idle", "event", "release", "receipt", "environment",
                       "find", "insert", "gates", "commit", "batch"},
           request'[q] \in Requests \cup {NoRequest},
           seen'[q] \in Sightings,
           held'[q] \in SUBSET Locks,
           todo'[q] \in Seq(Releases),
           owned'[q] \in SUBSET Releases
    PROVE  Typed' /\ Alone(q)
<1> USE DEF Typed, TxTypeOK, Written, Locks
<1>1. Alone(q)
  BY DEF Alone
<1>2. /\ pc' \in [Processes -> {"idle", "event", "release", "receipt",
                                "environment", "find", "insert", "gates",
                                "commit", "batch"}]
      /\ request' \in [Processes -> Requests \cup {NoRequest}]
  OBVIOUS
<1>3. seen' \in [Processes -> Sightings]
  OBVIOUS
<1>4. held' \in [Processes -> SUBSET Locks]
  OBVIOUS
<1>5. /\ todo' \in [Processes -> Seq(Releases)]
      /\ owned' \in [Processes -> SUBSET Releases]
  OBVIOUS
<1> QED BY <1>1, <1>2, <1>3, <1>4, <1>5

\* A lock is granted only beside the locks of the others.
LEMMA AcquireApart ==
    ASSUME Typed, Exclusion, NEW q \in Processes, NEW locks \in SUBSET Locks,
           Acquire(q, locks)
    PROVE  /\ held'[q] = held[q] \cup locks
           /\ held'[q] \in SUBSET Locks
           /\ held' = [held EXCEPT ![q] = held'[q]]
           /\ \A p \in Processes \ {q} : \A l \in held'[q], m \in held[p] :
                  ~Conflict(l, m)
<1>1. held \in [Processes -> SUBSET Locks]
  BY DEF Typed, TxTypeOK, Locks
<1>2. /\ held'[q] = held[q] \cup locks
      /\ held' = [held EXCEPT ![q] = held'[q]]
  BY <1>1 DEF Acquire
<1>3. held'[q] \in SUBSET Locks
  BY <1>1, <1>2
<1>4. \A p \in Processes \ {q} : \A l \in held'[q], m \in held[p] :
          ~Conflict(l, m)
  BY <1>2 DEF Acquire, Available, Exclusion
<1> QED BY <1>2, <1>3, <1>4

\* What a worker keeps of its own state without locking anything.
LEMMA PrivateTypes ==
    ASSUME Typed, NEW q \in Processes
    PROVE  /\ pc[q] \in {"idle", "event", "release", "receipt", "environment",
                         "find", "insert", "gates", "commit", "batch"}
           /\ request[q] \in Requests \cup {NoRequest}
           /\ seen[q] \in Sightings
           /\ held[q] \in SUBSET Locks
           /\ todo[q] \in Seq(Releases)
           /\ owned[q] \in SUBSET Releases
BY DEF Typed, TxTypeOK, Locks

-------------------------------------------------------------------------------
(* The steps of a worker.                                                  *)

\* A closed session holds nothing and has read nothing.
LEMMA CloseStep ==
    ASSUME TxInv, NEW w \in Workers, Close(w),
           [LedgerNext]_ledgerVars, Touches(w)
    PROVE  StepOf(w)
<1>1. w \in Processes /\ w \notin Reconcilers
  BY TransactionsAssumption DEF Processes
<1>2. /\ pc' = [pc EXCEPT ![w] = "idle"]
      /\ request' = [request EXCEPT ![w] = NoRequest]
      /\ seen' = [seen EXCEPT ![w] = NothingSeen]
      /\ held' = [held EXCEPT ![w] = {}]
      /\ todo' = todo /\ owned' = owned
  BY DEF Close, Goto, batchVars
<1>3. /\ pc'[w] = "idle" /\ request'[w] = NoRequest
      /\ seen'[w] = NothingSeen /\ held'[w] = {}
      /\ todo'[w] = todo[w] /\ owned'[w] = owned[w]
      /\ Written(w)
  BY <1>1, <1>2 DEF TxInv, Typed, TxTypeOK, Written
<1>4. NothingSeen \in Sightings
  BY DEF NothingSeen, Sightings
<1>5. Typed' /\ Alone(w)
  BY <1>1, <1>3, <1>4, PrivateTypes, WrittenTypes DEF TxInv
<1>6. Kind(w)' = "none"
  BY <1>3 DEF Kind, NoRequest
<1>7. WorkerInv(w)'
  BY <1>3, <1>6 DEF WorkerInv, Statements, LocksOf, HasEvent, HasRow,
                    HasEnvironment, HasKey, Fresh, Checked
<1> QED BY <1>1, <1>3, <1>5, <1>7 DEF StepOf

\* A request that changes nothing ends.
LEMMA AnswerStep ==
    ASSUME TxInv, NEW w \in Workers, Answer(w)
    PROVE  StepOf(w)
BY ReadsTouchNothing, CloseStep DEF Answer

\* A statement that only reads, or locks what is free.
LEMMA StatementStep ==
    ASSUME TxInv, NEW w \in Workers, UNCHANGED ledgerVars, UNCHANGED batchVars,
           Written(w), seen'[w] \in Sightings,
           pc'[w] \in Statements(Kind(w)'), pc'[w] # "batch",
           request'[w] \in Requests,
           NEW locks \in SUBSET Locks,
           Acquire(w, locks) \/ (held' = held /\ locks = {}),
           held[w] \cup locks = LocksOf(w)', Fresh(w)', Checked(w)'
    PROVE  StepOf(w)
<1>1. w \in Processes /\ w \notin Reconcilers
  BY TransactionsAssumption DEF Processes
<1>2. /\ held'[w] = held[w] \cup locks /\ held'[w] \in SUBSET Locks
      /\ \A p \in Processes \ {w} : \A l \in held'[w], m \in held[p] :
             ~Conflict(l, m)
  <2>1. CASE Acquire(w, locks)
    BY <1>1, <2>1, AcquireApart DEF TxInv
  <2>2. CASE held' = held /\ locks = {}
    BY <1>1, <2>2, PrivateTypes DEF TxInv, Exclusion
  <2> QED BY <2>1, <2>2
<1>3. pc'[w] \in {"idle", "event", "release", "receipt", "environment",
                  "find", "insert", "gates", "commit", "batch"}
  BY DEF Statements
<1>4. todo'[w] = todo[w] /\ owned'[w] = owned[w]
  BY DEF batchVars
<1>5. Typed' /\ Alone(w)
  BY <1>1, <1>2, <1>3, <1>4, PrivateTypes, WrittenTypes DEF TxInv
<1>6. WorkerInv(w)'
  BY <1>2 DEF WorkerInv
<1> QED BY <1>1, <1>2, <1>5, <1>6, ReadsTouchNothing DEF StepOf

\* The functions of a process, as the steps below need them.
LEMMA Domains ==
    ASSUME TxInv, NEW w \in Workers
    PROVE  /\ w \in Processes
           /\ pc = [pc EXCEPT ![w] = pc[w]]
           /\ request = [request EXCEPT ![w] = request[w]]
           /\ seen = [seen EXCEPT ![w] = seen[w]]
           /\ held = [held EXCEPT ![w] = held[w]]
           /\ todo = [todo EXCEPT ![w] = todo[w]]
           /\ owned = [owned EXCEPT ![w] = owned[w]]
           /\ \A step : [pc EXCEPT ![w] = step][w] = step
           /\ \A req : [request EXCEPT ![w] = req][w] = req
           /\ \A s : [seen EXCEPT ![w] = s][w] = s
BY DEF TxInv, Typed, TxTypeOK, Processes

\* The locks of the statements.
LEMMA LockTypes ==
    /\ \A id \in EventIds : EventLock(id) \in SUBSET Locks
    /\ \A r \in Releases : ReleaseLock(r) \in SUBSET Locks
    /\ \A e \in Envs : EnvironmentLock(e) \in SUBSET Locks
    /\ \A r \in Releases \cup {NoRelease} : InsertLock(r) \in SUBSET Locks
<1>1. \A id \in EventIds : <<"event", id>> \in Locks
  BY DEF Locks
<1>2. \A r \in Releases : <<"release", r>> \in Locks
  BY DEF Locks
<1>3. \A e \in Envs : <<"environment", e>> \in Locks
  BY DEF Locks
<1>4. \A r \in Releases : <<"release key share", r>> \in Locks
  BY DEF Locks
<1> QED
  BY <1>1, <1>2, <1>3, <1>4
  DEF EventLock, ReleaseLock, EnvironmentLock, InsertLock

\* A worker reads the status of a release.
LEMMA SeeStatus ==
    ASSUME TxInv, NEW w \in Workers, NEW st \in ReleaseStatus \cup {"absent"},
           seen' = [seen EXCEPT ![w].status = st]
    PROVE  /\ seen'[w] \in Sightings /\ seen'[w].status = st
           /\ seen' = [seen EXCEPT ![w] = seen'[w]]
<1>1. seen \in [Processes -> Sightings] /\ w \in Processes
  BY Domains DEF TxInv, Typed
<1>2. seen' = [seen EXCEPT ![w] = [seen[w] EXCEPT !.status = st]]
  OBVIOUS
<1>3. seen'[w] = [seen[w] EXCEPT !.status = st]
  BY <1>1, <1>2
<1> QED BY <1>1, <1>2, <1>3 DEF Sightings

\* A request arrives.
LEMMA SendStep ==
    ASSUME TxInv, NEW w \in Workers, NEW req \in Requests, Send(w, req)
    PROVE  StepOf(w)
<1> DEFINE step == FirstStep(req.kind)
<1>1. /\ pc[w] = "idle"
      /\ pc' = [pc EXCEPT ![w] = step]
      /\ request' = [request EXCEPT ![w] = req]
      /\ UNCHANGED ledgerVars /\ UNCHANGED batchVars
      /\ seen' = seen /\ held' = held /\ todo' = todo /\ owned' = owned
  BY DEF Send, Goto, batchVars
<1>2. /\ pc'[w] = step /\ request'[w] = req /\ seen'[w] = seen[w]
      /\ Written(w) /\ w \in Processes
  BY <1>1, Domains DEF Written
<1>3. held[w] = {}
  <2>1. Kind(w) = "none" /\ held[w] = LocksOf(w)
    BY <1>1, RequestOfWorker DEF TxInv, WorkerInv
  <2> QED BY <1>1, <2>1 DEF LocksOf, HasEvent, HasRow, HasEnvironment, HasKey
<1>4. req.kind \in {"create", "webhook", "approve", "cancel", "deploy",
                    "observe", "rollback"}
  BY RequestFields
<1>5. Kind(w)' = req.kind
  BY <1>2 DEF Kind
<1>6. step \in Statements(req.kind) /\ step # "batch"
  BY <1>4 DEF FirstStep, Statements
<1>7. /\ ~HasEvent(w)' /\ ~HasRow(w)' /\ ~HasEnvironment(w)' /\ ~HasKey(w)'
      /\ pc'[w] \notin {"insert", "commit", "gates"}
      /\ Kind(w)' # "create" => pc'[w] # "environment"
  BY <1>2, <1>4, <1>5
  DEF FirstStep, HasEvent, HasRow, HasEnvironment, HasKey
<1>8. Fresh(w)' /\ Checked(w)'
  BY <1>5, <1>7 DEF Fresh, Checked
<1> PICK locks : locks = {}
  OBVIOUS
<1>9. locks \in SUBSET Locks /\ held[w] \cup locks = LocksOf(w)'
  BY <1>3, <1>7 DEF LocksOf
<1>10. seen'[w] \in Sightings /\ request'[w] \in Requests
  BY <1>2, PrivateTypes DEF TxInv
<1>11. pc'[w] \in Statements(Kind(w)') /\ pc'[w] # "batch"
  BY <1>2, <1>5, <1>6
<1> QED
  BY <1>1, <1>2, <1>8, <1>9, <1>10, <1>11, StatementStep

\* The advisory lock of a notification.
LEMMA LockEventStep ==
    ASSUME TxInv, NEW w \in Workers, LockEvent(w)
    PROVE  StepOf(w)
<1> DEFINE locks == EventLock(request[w].body.event)
<1>1. /\ pc[w] = "event"
      /\ pc' = [pc EXCEPT ![w] = "release"]
      /\ Acquire(w, locks)
      /\ UNCHANGED ledgerVars /\ UNCHANGED batchVars
      /\ request' = request /\ seen' = seen /\ todo' = todo /\ owned' = owned
  BY DEF LockEvent, Goto, batchVars
<1>2. /\ Kind(w) = "webhook" /\ request[w] \in Requests
      /\ held[w] = LocksOf(w) /\ Typed /\ Exclusion
  BY <1>1, RequestOfWorker DEF TxInv, WorkerInv, Statements
<1>3. locks \in SUBSET Locks
  BY <1>2, RequestFields, LockTypes DEF Kind, Webhooks
<1>4. held' = [held EXCEPT ![w] = held'[w]]
  BY <1>1, <1>2, <1>3, Domains, AcquireApart
<1>5. /\ pc'[w] = "release" /\ request'[w] = request[w] /\ seen'[w] = seen[w]
      /\ Written(w) /\ w \in Processes
  BY <1>1, <1>4, Domains DEF Written
<1>6. Kind(w)' = "webhook"
  BY <1>2, <1>5 DEF Kind
<1>7. Fresh(w)' /\ Checked(w)'
  BY <1>5, <1>6 DEF Fresh, Checked, HasRow, HasEnvironment
<1>8. held[w] \cup locks = LocksOf(w)'
  BY <1>1, <1>2, <1>5, <1>6
  DEF LocksOf, HasEvent, HasRow, HasEnvironment, HasKey
<1>9. pc'[w] \in Statements(Kind(w)') /\ seen'[w] \in Sightings
  BY <1>2, <1>5, <1>6, PrivateTypes DEF Statements
<1> HIDE DEF locks
<1> QED
  BY <1>1, <1>2, <1>3, <1>5, <1>7, <1>8, <1>9, StatementStep

\* lock_release().
LEMMA LockReleaseStep ==
    ASSUME TxInv, NEW w \in Workers, LockRelease(w)
    PROVE  StepOf(w)
<1> DEFINE r == request[w].release
<1> PICK st : st = status[r]
  OBVIOUS
<1> PICK next : next = AfterRelease(request[w].kind, st)
  OBVIOUS
<1> DEFINE locks == ReleaseLock(r)
<1>1. CASE Answer(w)
  BY <1>1, AnswerStep
<1>2. CASE ~Answer(w)
  <2>1. /\ pc[w] = "release" /\ Exists(r) /\ next # "close"
        /\ pc' = [pc EXCEPT ![w] = next]
        /\ Acquire(w, locks)
        /\ UNCHANGED ledgerVars /\ UNCHANGED batchVars
        /\ request' = request /\ todo' = todo /\ owned' = owned
        /\ seen' = [seen EXCEPT ![w].status = st]
    BY <1>2 DEF LockRelease, Goto, batchVars
  <2>2. /\ Kind(w) \in {"webhook", "approve", "cancel", "deploy", "observe",
                        "rollback"}
        /\ request[w] \in Requests /\ Row(w) \in Releases /\ Row(w) = r
        /\ held[w] = LocksOf(w) /\ Typed /\ Exclusion /\ TypeOK
    <3>1. WorkerInv(w) /\ Typed /\ Exclusion /\ TypeOK
      BY DEF TxInv, LineageInv
    <3>2. Kind(w) \notin {"none", "create"}
      BY <2>1, <3>1, RequestOfWorker DEF WorkerInv, Statements
    <3> QED BY <3>1, <3>2, RequestOfWorker DEF WorkerInv, Row
  <2>3. locks \in SUBSET Locks
    BY <2>2, LockTypes
  <2>4. held' = [held EXCEPT ![w] = held'[w]]
    BY <2>1, <2>2, <2>3, Domains, AcquireApart
  <2>7. /\ seen'[w] \in Sightings /\ seen'[w].status = st
        /\ seen' = [seen EXCEPT ![w] = seen'[w]]
    <3>1. st \in ReleaseStatus \cup {"absent"}
      BY <2>2 DEF TypeOK
    <3> QED BY <2>1, <3>1, SeeStatus
  <2> HIDE DEF locks
  <2>8. /\ pc'[w] = next /\ request'[w] = request[w]
        /\ Written(w) /\ w \in Processes
    <3>1. w \in Processes /\ pc'[w] = next
      BY <2>1, <2>2, Domains DEF Typed, TxTypeOK
    <3> QED BY <2>1, <2>4, <2>7, <3>1, Domains DEF Written
  <2>9. Kind(w)' = Kind(w) /\ Row(w)' = r /\ status' = status
    BY <2>1, <2>8 DEF Kind, Row, ledgerVars
  <2>10. /\ Kind(w) = "webhook" => next = "receipt"
         /\ Kind(w) = "approve" =>
                next = "gates" /\ st = "awaiting_approval"
         /\ Kind(w) \in {"cancel", "deploy", "rollback"} =>
                next = "environment"
         /\ Kind(w) = "observe" =>
                next = "environment" /\ st = "canary"
    BY <2>1, <2>2 DEF AfterRelease, Kind
  <2>11. /\ HasRow(w)' /\ ~HasEnvironment(w)' /\ ~HasKey(w)'
         /\ HasEvent(w)' = HasEvent(w)
         /\ ~HasRow(w) /\ ~HasEnvironment(w) /\ ~HasKey(w)
    BY <2>1, <2>2, <2>8, <2>9, <2>10
    DEF HasRow, HasEnvironment, HasKey, HasEvent
  <2>12. held[w] \cup locks = LocksOf(w)'
    BY <2>2, <2>8, <2>9, <2>11 DEF LocksOf, locks
  <2>13. Exists(Row(w))' /\ seen'[w].status = status'[Row(w)']
    BY <2>1, <2>7, <2>9 DEF Exists
  <2>14. Fresh(w)'
    BY <2>2, <2>8, <2>9, <2>10, <2>11, <2>13 DEF Fresh
  <2>15. Checked(w)'
    BY <2>2, <2>7, <2>8, <2>9, <2>10 DEF Checked
  <2>16. next \in Statements(Kind(w)) /\ next # "batch"
    BY <2>2, <2>10 DEF Statements
  <2> HIDE DEF r
  <2> QED
    BY <2>1, <2>2, <2>3, <2>7, <2>8, <2>9, <2>12, <2>14, <2>15, <2>16,
       StatementStep
<1> QED BY <1>1, <1>2

\* Which handlers have a statement.
LEMMA AtStatement ==
    ASSUME TxInv, NEW w \in Workers, pc[w] # "idle"
    PROVE  /\ w \in Processes /\ request[w] \in Requests
           /\ Typed /\ Exclusion /\ TypeOK /\ WorkerInv(w)
           /\ Kind(w) \in {"create", "webhook", "approve", "cancel", "deploy",
                           "observe", "rollback"}
           /\ Kind(w) # "create" => Row(w) \in Releases
           /\ pc[w] \in {"find", "insert"} => Kind(w) = "create"
           /\ pc[w] = "receipt" => Kind(w) = "webhook"
           /\ pc[w] = "gates" => Kind(w) \in {"webhook", "approve", "deploy"}
           /\ pc[w] = "environment" => Kind(w) # "approve"
           /\ pc[w] # "batch"
<1>1. Typed /\ Exclusion /\ TypeOK /\ WorkerInv(w)
  BY DEF TxInv, LineageInv
<1>2. Kind(w) # "none"
  BY <1>1, RequestOfWorker DEF WorkerInv
<1>3. /\ w \in Processes /\ request[w] \in Requests
      /\ Kind(w) \in {"create", "webhook", "approve", "cancel", "deploy",
                      "observe", "rollback"}
      /\ Kind(w) # "create" => Row(w) \in Releases
  BY <1>1, <1>2, RequestOfWorker DEF WorkerInv
<1> QED BY <1>1, <1>3 DEF WorkerInv, Statements

\* The receipt of the event is looked up.
LEMMA ReadReceiptStep ==
    ASSUME TxInv, NEW w \in Workers, ReadReceipt(w)
    PROVE  StepOf(w)
<1>1. CASE Answer(w)
  BY <1>1, AnswerStep
<1>2. CASE ~Answer(w)
  <2>1. /\ pc[w] = "receipt" /\ ReceiptsOf(request[w].body.event) = {}
        /\ seen[w].status = "evaluating"
        /\ pc' = [pc EXCEPT ![w] = "environment"]
        /\ UNCHANGED ledgerVars /\ UNCHANGED batchVars
        /\ request' = request /\ seen' = seen /\ held' = held
        /\ todo' = todo /\ owned' = owned
    BY <1>2 DEF ReadReceipt, Goto, batchVars
  <2>2. /\ Kind(w) = "webhook" /\ request[w] \in Requests
        /\ held[w] = LocksOf(w) /\ Fresh(w) /\ Typed
    BY <2>1, AtStatement DEF WorkerInv
  <2>3. /\ pc'[w] = "environment" /\ request'[w] = request[w]
        /\ seen'[w] = seen[w] /\ Written(w) /\ w \in Processes
    BY <2>1, Domains DEF Written
  <2>4. /\ Kind(w)' = "webhook" /\ Row(w)' = Row(w)
        /\ status' = status /\ receipts' = receipts
    BY <2>1, <2>2, <2>3 DEF Kind, Row, ledgerVars, gateTables
  <2>5. /\ HasRow(w)' /\ HasEvent(w)' /\ ~HasEnvironment(w)' /\ ~HasKey(w)'
        /\ HasRow(w) /\ HasEvent(w) /\ ~HasEnvironment(w) /\ ~HasKey(w)
    BY <2>1, <2>2, <2>3, <2>4 DEF HasRow, HasEvent, HasEnvironment, HasKey
  <2> PICK locks : locks = {}
    OBVIOUS
  <2>6. locks \in SUBSET Locks /\ held[w] \cup locks = LocksOf(w)'
    BY <2>2, <2>3, <2>4, <2>5 DEF LocksOf, EventLock, ReleaseLock
  <2>7. Fresh(w)'
    BY <2>1, <2>2, <2>3, <2>4, <2>5 DEF Fresh, Exists, ReceiptsOf
  <2>8. Checked(w)'
    BY <2>1, <2>3, <2>4 DEF Checked
  <2>9. /\ pc'[w] \in Statements(Kind(w)') /\ pc'[w] # "batch"
        /\ seen'[w] \in Sightings /\ request'[w] \in Requests
    BY <2>2, <2>3, <2>4, PrivateTypes DEF Statements
  <2> QED
    BY <2>1, <2>3, <2>6, <2>7, <2>8, <2>9, StatementStep
<1> QED BY <1>1, <1>2

\* create_release() finds its key free.
LEMMA FindExistingStep ==
    ASSUME TxInv, NEW w \in Workers, FindExisting(w)
    PROVE  StepOf(w)
<1>1. CASE Answer(w)
  BY <1>1, AnswerStep
<1>2. CASE ~Answer(w)
  <2>1. /\ pc[w] = "find" /\ seen[w].active = NoRelease
        /\ WithKey(request[w].env, request[w].key) = {}
        /\ pc' = [pc EXCEPT ![w] = "insert"]
        /\ UNCHANGED ledgerVars /\ UNCHANGED batchVars
        /\ request' = request /\ seen' = seen /\ held' = held
        /\ todo' = todo /\ owned' = owned
    BY <1>2 DEF FindExisting, Goto, batchVars
  <2>2. /\ Kind(w) = "create" /\ request[w] \in Requests
        /\ held[w] = LocksOf(w) /\ Fresh(w) /\ Typed
    BY <2>1, AtStatement DEF WorkerInv
  <2>3. /\ pc'[w] = "insert" /\ request'[w] = request[w]
        /\ seen'[w] = seen[w] /\ Written(w) /\ w \in Processes
    BY <2>1, Domains DEF Written
  <2>4. /\ Kind(w)' = "create" /\ EnvOf(w)' = EnvOf(w)
        /\ UNCHANGED <<status, envOf, keyOf, active, current>>
    BY <2>1, <2>2, <2>3 DEF Kind, EnvOf, ledgerVars, identity, pointers
  <2>5. /\ ~HasRow(w)' /\ ~HasEvent(w)' /\ HasEnvironment(w)' /\ ~HasKey(w)'
        /\ ~HasRow(w) /\ ~HasEvent(w) /\ HasEnvironment(w) /\ ~HasKey(w)
    BY <2>1, <2>2, <2>3, <2>4 DEF HasRow, HasEvent, HasEnvironment, HasKey
  <2> PICK locks : locks = {}
    OBVIOUS
  <2>6. locks \in SUBSET Locks /\ held[w] \cup locks = LocksOf(w)'
    BY <2>2, <2>3, <2>4, <2>5 DEF LocksOf, EnvironmentLock
  <2>7. Fresh(w)'
    BY <2>1, <2>2, <2>3, <2>4, <2>5 DEF Fresh, WithKey, Exists
  <2>8. Checked(w)'
    BY <2>1, <2>3, <2>4 DEF Checked
  <2>9. /\ pc'[w] \in Statements(Kind(w)') /\ pc'[w] # "batch"
        /\ seen'[w] \in Sightings /\ request'[w] \in Requests
    BY <2>2, <2>3, <2>4, PrivateTypes DEF Statements
  <2> QED
    BY <2>1, <2>3, <2>6, <2>7, <2>8, <2>9, StatementStep
<1> QED BY <1>1, <1>2

\* The new row is inserted.
LEMMA InsertStep ==
    ASSUME TxInv, NEW w \in Workers, Insert(w)
    PROVE  StepOf(w)
<1> DEFINE locks == InsertLock(seen[w].current)
<1>1. /\ pc[w] = "insert"
      /\ Acquire(w, locks)
      /\ pc' = [pc EXCEPT ![w] = "commit"]
      /\ UNCHANGED ledgerVars /\ UNCHANGED batchVars
      /\ request' = request /\ seen' = seen
      /\ todo' = todo /\ owned' = owned
  BY DEF Insert, Goto, batchVars
<1>2. /\ Kind(w) = "create" /\ request[w] \in Requests
      /\ held[w] = LocksOf(w) /\ Fresh(w) /\ Checked(w) /\ Typed /\ Exclusion
  BY <1>1, AtStatement DEF WorkerInv
<1>3. locks \in SUBSET Locks
  <2>1. seen[w].current \in Releases \cup {NoRelease}
    BY <1>2, Domains, PrivateTypes DEF Sightings
  <2> QED BY <2>1, LockTypes
<1>4. held' = [held EXCEPT ![w] = held'[w]]
  BY <1>1, <1>2, <1>3, Domains, AcquireApart
<1>5. /\ pc'[w] = "commit" /\ request'[w] = request[w]
      /\ seen'[w] = seen[w] /\ Written(w) /\ w \in Processes
  BY <1>1, <1>4, Domains DEF Written
<1>6. /\ Kind(w)' = "create" /\ EnvOf(w)' = EnvOf(w)
      /\ UNCHANGED <<status, envOf, keyOf, active, current>>
  BY <1>1, <1>2, <1>5 DEF Kind, EnvOf, ledgerVars, identity, pointers
<1>7. /\ ~HasRow(w)' /\ ~HasEvent(w)' /\ HasEnvironment(w)' /\ HasKey(w)'
      /\ ~HasRow(w) /\ ~HasEvent(w) /\ HasEnvironment(w) /\ ~HasKey(w)
  BY <1>1, <1>2, <1>5, <1>6 DEF HasRow, HasEvent, HasEnvironment, HasKey
<1>8. held[w] \cup locks = LocksOf(w)'
  BY <1>2, <1>5, <1>6, <1>7 DEF LocksOf, EnvironmentLock, InsertLock
<1>9. Fresh(w)'
  BY <1>1, <1>2, <1>5, <1>6, <1>7 DEF Fresh, WithKey, Exists
<1>10. Checked(w)'
  BY <1>1, <1>2, <1>5, <1>6 DEF Checked
<1>11. /\ pc'[w] \in Statements(Kind(w)') /\ pc'[w] # "batch"
       /\ seen'[w] \in Sightings /\ request'[w] \in Requests
  BY <1>2, <1>5, <1>6, PrivateTypes DEF Statements
<1> HIDE DEF locks
<1> QED
  BY <1>1, <1>3, <1>5, <1>8, <1>9, <1>10, <1>11, StatementStep

\* lock_environment().
LEMMA LockEnvironmentStep ==
    ASSUME TxInv, NEW w \in Workers, LockEnvironment(w)
    PROVE  StepOf(w)
<1>1. CASE Answer(w)
  BY <1>1, AnswerStep
<1>2. CASE ~Answer(w)
  <2> PICK e : e = EnvOf(w)
    OBVIOUS
  <2> PICK a : a = active[e]
    OBVIOUS
  <2> PICK c : c = current[e]
    OBVIOUS
  <2> PICK next : next = AfterEnvironment(w, e)
    OBVIOUS
  <2> DEFINE locks == EnvironmentLock(e)
  <2>1. /\ pc[w] = "environment" /\ next # "close"
        /\ pc' = [pc EXCEPT ![w] = next]
        /\ Acquire(w, locks)
        /\ UNCHANGED ledgerVars /\ UNCHANGED batchVars
        /\ request' = request /\ todo' = todo /\ owned' = owned
        /\ seen' = [seen EXCEPT ![w].active = a, ![w].current = c]
    BY <1>2 DEF LockEnvironment, Goto, batchVars
  <2>2. /\ Kind(w) \in {"create", "webhook", "cancel", "deploy", "observe",
                        "rollback"}
        /\ request[w] \in Requests /\ WorkerInv(w)
        /\ held[w] = LocksOf(w) /\ Typed /\ Exclusion /\ TypeOK
        /\ Fresh(w) /\ Checked(w)
    BY <2>1, AtStatement DEF WorkerInv
  <2>3. e \in Envs /\ (Kind(w) # "create" => HasRow(w))
    <3>1. CASE Kind(w) = "create"
      BY <2>2, <3>1, RequestFields DEF EnvOf, Kind
    <3>2. CASE Kind(w) # "create"
      <4>1. HasRow(w)
        BY <2>1, <2>2, <3>2 DEF HasRow
      <4> QED BY <2>2, <3>2, <4>1, LocksOfWorker
    <3> QED BY <3>1, <3>2
  <2>4. locks \in SUBSET Locks
    BY <2>3, LockTypes
  <2>5. held' = [held EXCEPT ![w] = held'[w]]
    BY <2>1, <2>2, <2>4, Domains, AcquireApart
  <2>6. /\ seen'[w] \in Sightings
        /\ seen'[w].active = a /\ seen'[w].current = c
        /\ seen'[w].status = seen[w].status
        /\ seen' = [seen EXCEPT ![w] = seen'[w]]
    <3>1. a \in Releases \cup {NoRelease} /\ c \in Releases \cup {NoRelease}
      BY <2>2, <2>3 DEF TypeOK
    <3>2. seen \in [Processes -> Sightings] /\ w \in Processes
      BY <2>2, Domains DEF Typed
    <3> PICK s \in Sightings : s = seen[w]
      BY <3>2
    <3> PICK t : t = [s EXCEPT !.active = a, !.current = c]
      OBVIOUS
    <3>3. seen' = [seen EXCEPT ![w] = t]
      BY <2>1
    <3>4. /\ t.active = a /\ t.current = c /\ t.status = s.status
          /\ t \in Sightings
      <4> HIDE <3>3
      <4> QED BY <3>1 DEF Sightings
    <3>5. seen'[w] = t
      BY <3>2, <3>3
    <3> QED BY <3>3, <3>4, <3>5
  <2> HIDE DEF locks
  <2>7. /\ pc'[w] = next /\ request'[w] = request[w]
        /\ Written(w) /\ w \in Processes
    <3>1. w \in Processes /\ pc'[w] = next
      BY <2>1, <2>2, Domains DEF Typed, TxTypeOK
    <3> QED BY <2>1, <2>5, <2>6, <3>1, Domains DEF Written
  <2>8. /\ Kind(w)' = Kind(w) /\ Row(w)' = Row(w) /\ EnvOf(w)' = e
        /\ UNCHANGED <<status, active, current, receipts>>
    BY <2>1, <2>7 DEF Kind, Row, EnvOf, ledgerVars, identity, pointers,
                      gateTables
  <2>9. /\ Kind(w) = "create" => next = "find"
        /\ Kind(w) = "webhook" =>
               /\ next = "gates"
               /\ request[w].body.gate \in Policy[e].required_gates
        /\ Kind(w) = "cancel" =>
               /\ next = "commit"
               /\ MayCancel(Row(w), seen[w].status, a)
        /\ Kind(w) = "deploy" => next = "gates"
        /\ Kind(w) = "observe" =>
               /\ next = "commit"
               /\ OwnsEnvironment(Row(w), a)
               /\ Storable(request[w].observation)
        /\ Kind(w) = "rollback" =>
               /\ next = "commit"
               /\ MayRollBack(Row(w), seen[w].status, a, c)
    BY <2>1, <2>2 DEF AfterEnvironment, Kind, Row
  <2>10. /\ HasRow(w)' = HasRow(w) /\ HasEvent(w)' = HasEvent(w)
         /\ HasEnvironment(w)' /\ ~HasKey(w)'
         /\ ~HasEnvironment(w) /\ ~HasKey(w)
    BY <2>1, <2>2, <2>7, <2>8, <2>9
    DEF HasRow, HasEvent, HasEnvironment, HasKey
  <2>11. held[w] \cup locks = LocksOf(w)'
    BY <2>2, <2>7, <2>8, <2>10
    DEF LocksOf, EventLock, ReleaseLock, EnvironmentLock, locks
  <2>12. Fresh(w)'
    <3>1. (HasRow(w) => Exists(Row(w)) /\ seen[w].status = status[Row(w)])'
      BY <2>2, <2>6, <2>8, <2>10 DEF Fresh, Exists
    <3>2. (HasEnvironment(w) => /\ seen[w].active = active[EnvOf(w)]
                                /\ seen[w].current = current[EnvOf(w)])'
      BY <2>6, <2>8
    <3>3. Kind(w) = "webhook" => ReceiptsOf(request[w].body.event)' = {}
      BY <2>1, <2>2, <2>7, <2>8 DEF Fresh, ReceiptsOf
    <3> QED
      BY <2>2, <2>7, <2>8, <2>9, <3>1, <3>2, <3>3 DEF Fresh, ReceiptsOf
  <2>13. Checked(w)'
    <3>1. /\ Kind(w) = "webhook" => seen[w].status = "evaluating"
          /\ Kind(w) = "observe" => seen[w].status = "canary"
      BY <2>1, <2>2 DEF Checked
    <3> QED
      BY <2>2, <2>6, <2>7, <2>8, <2>9, <3>1
      DEF Checked, MayCancel, MayRollBack, OwnsEnvironment, Storable
  <2>14. /\ pc'[w] \in Statements(Kind(w)') /\ pc'[w] # "batch"
         /\ request'[w] \in Requests
    BY <2>2, <2>7, <2>8, <2>9 DEF Statements
  <2> QED
    BY <2>1, <2>4, <2>6, <2>7, <2>11, <2>12, <2>13, <2>14, StatementStep
<1> QED BY <1>1, <1>2

\* A worker reads the results of a release.
LEMMA SeeOutcome ==
    ASSUME TxInv, NEW w \in Workers,
           NEW outcome \in [Gates -> GateStatus \cup {"missing"}],
           seen' = [seen EXCEPT ![w].outcome = outcome]
    PROVE  /\ seen'[w] \in Sightings /\ seen'[w].outcome = outcome
           /\ seen'[w].active = seen[w].active
           /\ seen'[w].current = seen[w].current
           /\ seen'[w].status = seen[w].status
           /\ seen' = [seen EXCEPT ![w] = seen'[w]]
<1>1. seen \in [Processes -> Sightings] /\ w \in Processes
  BY Domains DEF TxInv, Typed
<1>2. seen'[w] = [seen[w] EXCEPT !.outcome = outcome]
  BY <1>1
<1>3. seen[w] \in Sightings
  BY <1>1
<1>4. seen' = [seen EXCEPT ![w] = seen'[w]]
  BY <1>1, <1>2
<1> QED BY <1>2, <1>3, <1>4 DEF Sightings

\* The results are read, and the handler decides.
LEMMA ReadGatesStep ==
    ASSUME TxInv, NEW w \in Workers, ReadGates(w)
    PROVE  StepOf(w)
<1>1. CASE Answer(w)
  BY <1>1, AnswerStep
<1>2. CASE ~Answer(w)
  <2> PICK r : r = request[w].release
    OBVIOUS
  <2> PICK outcome :
          outcome = IF request[w].kind = "webhook"
                    THEN [results[r] EXCEPT ![request[w].body.gate] =
                                                request[w].body.status]
                    ELSE results[r]
    OBVIOUS
  <2>1. /\ pc[w] = "gates"
        /\ pc' = [pc EXCEPT ![w] = "commit"]
        /\ UNCHANGED ledgerVars /\ UNCHANGED batchVars
        /\ request' = request /\ held' = held
        /\ todo' = todo /\ owned' = owned
        /\ seen' = [seen EXCEPT ![w].outcome = outcome]
    BY <1>2 DEF ReadGates, Goto, batchVars
  <2>2. /\ Kind(w) \in {"webhook", "approve", "deploy"}
        /\ request[w] \in Requests /\ WorkerInv(w)
        /\ held[w] = LocksOf(w) /\ Typed /\ TypeOK
        /\ Fresh(w) /\ Checked(w) /\ Row(w) = r /\ r \in Releases
    BY <2>1, AtStatement DEF WorkerInv, Row
  <2>3. /\ Kind(w) = "webhook" =>
               SameResult(request[w].body, results[r][request[w].body.gate],
                          details[r][request[w].body.gate])
        /\ Kind(w) = "approve" => PassedGates(envOf[r], outcome)
        /\ Kind(w) = "deploy" =>
               MayDeploy(r, envOf[r], seen[w].status, seen[w].active, outcome)
    BY <1>2, <2>2 DEF ReadGates, Kind
  <2>4. outcome \in [Gates -> GateStatus \cup {"missing"}]
    <3>1. results[r] \in [Gates -> GateStatus \cup {"missing"}]
      BY <2>2 DEF TypeOK
    <3>2. Kind(w) = "webhook" => request[w].body.status \in GateStatus
      BY <2>2, RequestFields DEF Kind, Webhooks
    <3> QED BY <3>1, <3>2 DEF Kind
  <2>5. /\ seen'[w] \in Sightings /\ seen'[w].outcome = outcome
        /\ seen'[w].active = seen[w].active
        /\ seen'[w].current = seen[w].current
        /\ seen'[w].status = seen[w].status
        /\ seen' = [seen EXCEPT ![w] = seen'[w]]
    BY <2>1, <2>4, SeeOutcome
  <2>6. /\ pc'[w] = "commit" /\ request'[w] = request[w]
        /\ Written(w) /\ w \in Processes
    BY <2>1, <2>5, Domains DEF Written
  <2>7. /\ Kind(w)' = Kind(w) /\ Row(w)' = r /\ EnvOf(w)' = EnvOf(w)
        /\ EnvOf(w) = envOf[r]
        /\ UNCHANGED <<status, active, current, receipts, results, details>>
    BY <2>1, <2>2, <2>6 DEF Kind, Row, EnvOf, ledgerVars, identity, pointers,
                            gateTables
  <2>8. /\ HasRow(w)' /\ HasRow(w) /\ HasEvent(w)' = HasEvent(w)
        /\ HasEnvironment(w)' = HasEnvironment(w)
        /\ ~HasKey(w)' /\ ~HasKey(w)
    BY <2>1, <2>2, <2>6, <2>7 DEF HasRow, HasEvent, HasEnvironment, HasKey
  <2> PICK locks : locks = {}
    OBVIOUS
  <2>9. locks \in SUBSET Locks /\ held[w] \cup locks = LocksOf(w)'
    BY <2>2, <2>6, <2>7, <2>8
    DEF LocksOf, EventLock, ReleaseLock, EnvironmentLock
  <2>10. Fresh(w)'
    <3>1. (HasRow(w) => Exists(Row(w)) /\ seen[w].status = status[Row(w)])'
      BY <2>2, <2>5, <2>7, <2>8 DEF Fresh, Exists
    <3>2. (HasEnvironment(w) => /\ seen[w].active = active[EnvOf(w)]
                                /\ seen[w].current = current[EnvOf(w)])'
      BY <2>2, <2>5, <2>7, <2>8 DEF Fresh
    <3>3. Kind(w) = "webhook" => ReceiptsOf(request[w].body.event)' = {}
      BY <2>1, <2>2, <2>7 DEF Fresh, ReceiptsOf
    <3>4. /\ Kind(w) \in {"approve", "deploy"} => outcome = results[r]
          /\ Kind(w) = "webhook" =>
                 outcome = [results[r] EXCEPT ![request[w].body.gate] =
                                                  request[w].body.status]
      BY DEF Kind
    <3>5. (Kind(w) \in {"approve", "deploy"} =>
               seen[w].outcome = results[Row(w)])'
      BY <2>5, <2>7, <3>4
    <3>6. Kind(w) = "webhook" =>
              /\ seen'[w].outcome =
                     [results[r] EXCEPT ![request[w].body.gate] =
                                            request[w].body.status]
              /\ SameResult(request[w].body, results[r][request[w].body.gate],
                            details[r][request[w].body.gate])
      BY <2>3, <2>5, <3>4
    <3>7. (Kind(w) = "webhook" =>
               LET body == request[w].body
               IN  /\ seen[w].outcome =
                          [results[Row(w)] EXCEPT ![body.gate] = body.status]
                   /\ SameResult(body, results[Row(w)][body.gate],
                                 details[Row(w)][body.gate]))'
      <4>1. (Kind(w) = "webhook" =>
               LET body == request[w].body
               IN  seen[w].outcome =
                       [results[Row(w)] EXCEPT ![body.gate] = body.status])'
        BY <2>6, <2>7, <3>6
      <4>2. (Kind(w) = "webhook" =>
               LET body == request[w].body
               IN  SameResult(body, results[Row(w)][body.gate],
                              details[Row(w)][body.gate]))'
        BY <2>6, <2>7, <3>6 DEF SameResult
      <4> QED BY <4>1, <4>2 DEF SameResult
    <3>8. /\ Kind(w)' # "create"
          /\ Kind(w)' = "webhook" => ReceiptsOf(request[w].body.event)' = {}
      BY <2>2, <2>7, <3>3
    <3> QED
      BY <3>1, <3>2, <3>5, <3>7, <3>8 DEF Fresh, SameResult, ReceiptsOf
  <2>11. Checked(w)'
    <3>1. /\ Kind(w) = "webhook" =>
                 /\ seen[w].status = "evaluating"
                 /\ request[w].body.gate \in Policy[EnvOf(w)].required_gates
          /\ Kind(w) = "approve" => seen[w].status = "awaiting_approval"
      BY <2>1, <2>2 DEF Checked
    <3> QED
      BY <2>2, <2>3, <2>5, <2>6, <2>7, <3>1
      DEF Checked, PassedGates, MayDeploy, OwnsEnvironment
  <2>12. /\ pc'[w] \in Statements(Kind(w)') /\ pc'[w] # "batch"
         /\ request'[w] \in Requests
    BY <2>2, <2>6, <2>7 DEF Statements
  <2> QED
    BY <2>1, <2>5, <2>6, <2>9, <2>10, <2>11, <2>12, StatementStep
<1> QED BY <1>1, <1>2

\* What a worker knows when it commits: the row and the environment it writes
\* are locked, and what it has read of them still holds.
LEMMA AtCommit ==
    ASSUME TxInv, NEW w \in Workers, pc[w] = "commit"
    PROVE  /\ request[w] \in Requests /\ Fresh(w) /\ Checked(w) /\ TypeOK
           /\ w \in Processes
           /\ Kind(w) \in {"create", "webhook", "approve", "cancel", "deploy",
                           "observe", "rollback"}
           /\ Kind(w) # "create" =>
                  /\ Row(w) \in Releases /\ Exists(Row(w))
                  /\ seen[w].status = status[Row(w)]
                  /\ <<"release", Row(w)>> \in held[w]
                  /\ envOf[Row(w)] \in Envs /\ EnvOf(w) = envOf[Row(w)]
           /\ Kind(w) = "create" => EnvOf(w) = request[w].env
           /\ Kind(w) # "approve" =>
                  /\ EnvOf(w) \in Envs
                  /\ <<"environment", EnvOf(w)>> \in held[w]
                  /\ seen[w].active = active[EnvOf(w)]
                  /\ seen[w].current = current[EnvOf(w)]
           /\ Kind(w) = "webhook" =>
                  /\ <<"event", request[w].body.event>> \in held[w]
                  /\ ReceiptsOf(request[w].body.event) = {}
<1>1. WorkerInv(w) /\ Typed /\ TypeOK
  BY DEF TxInv, LineageInv
<1>2. /\ request[w] \in Requests /\ w \in Processes
      /\ Kind(w) \in {"create", "webhook", "approve", "cancel", "deploy",
                      "observe", "rollback"}
  BY <1>1, RequestOfWorker DEF WorkerInv
<1>3. Fresh(w) /\ Checked(w)
  BY <1>1 DEF WorkerInv
<1>4. /\ Kind(w) # "create" => HasRow(w)
      /\ Kind(w) # "approve" => HasEnvironment(w)
      /\ Kind(w) = "webhook" => HasEvent(w)
  BY <1>2 DEF HasRow, HasEnvironment, HasEvent
<1>5. Kind(w) = "create" => EnvOf(w) = request[w].env
  BY DEF EnvOf, Kind
<1>6. /\ Kind(w) # "create" =>
             /\ Row(w) \in Releases /\ Exists(Row(w))
             /\ <<"release", Row(w)>> \in held[w]
             /\ envOf[Row(w)] \in Envs /\ EnvOf(w) = envOf[Row(w)]
      /\ Kind(w) # "approve" =>
             EnvOf(w) \in Envs /\ <<"environment", EnvOf(w)>> \in held[w]
      /\ Kind(w) = "webhook" => <<"event", request[w].body.event>> \in held[w]
  BY <1>1, <1>4, LocksOfWorker
<1>7. /\ Kind(w) # "create" => seen[w].status = status[Row(w)]
      /\ Kind(w) # "approve" => /\ seen[w].active = active[EnvOf(w)]
                                /\ seen[w].current = current[EnvOf(w)]
      /\ Kind(w) = "webhook" => ReceiptsOf(request[w].body.event) = {}
  BY <1>3, <1>4 DEF Fresh
<1> QED BY <1>1, <1>2, <1>3, <1>5, <1>6, <1>7

\* A handler that writes a release, and perhaps the pointers of its environment,
\* touches nothing that it has not locked.
LEMMA RowTouches ==
    ASSUME TypeOK, NEW q, NEW r \in Releases, <<"release", r>> \in held[q],
           Exists(r), NEW e \in Envs, e = envOf[r],
           UNCHANGED <<envOf, keyOf, results, details, receipts, expired>>,
           NEW st \in ReleaseStatus,
           status' = status \/ status' = [status EXCEPT ![r] = st],
           UNCHANGED pointers \/ <<"environment", e>> \in held[q],
           \A d \in Envs \ {e} :
               active'[d] = active[d] /\ current'[d] = current[d]
    PROVE  Touches(q)
<1>1. \A s \in Releases :
          /\ s # r => status'[s] = status[s]
          /\ Exists(s) <=> status'[s] # "absent"
  BY DEF TypeOK, Exists, ReleaseStatus
<1>2. \A d \in Envs : <<"environment", d>> \notin held[q] =>
          active'[d] = active[d] /\ current'[d] = current[d]
  BY DEF pointers
<1>3. \A id \in EventIds : ReceiptsOf(id)' = ReceiptsOf(id)
  BY DEF ReceiptsOf
<1> QED BY <1>1, <1>2, <1>3 DEF Touches, Exists

\* create_release() commits a new row in the environment it has locked.
LEMMA CommitCreate ==
    ASSUME TxInv, NEW w \in Workers, pc[w] = "commit", Kind(w) = "create",
           NEW r \in Releases, IsNext(r), Effect(w, r)
    PROVE  LedgerNext /\ Touches(w)
<1> PICK req \in Requests : req = request[w]
  BY AtCommit
<1> PICK e : e = req.env
  OBVIOUS
<1>1. /\ TypeOK /\ Fresh(w) /\ Checked(w) /\ EnvOf(w) = e
      /\ <<"environment", e>> \in held[w]
      /\ seen[w].active = active[e] /\ seen[w].current = current[e]
  BY AtCommit
<1>2. /\ e \in Envs /\ req.key \in Keys
      /\ req.artifact \in Artifacts /\ req.who \in Admins
  BY RequestFields DEF Kind
<1>3. CreateCommitted(r, e, req.key, req.artifact, current[e], req.who)
  BY <1>1 DEF Effect, Kind
<1>4. WithKey(e, req.key) = {} /\ active[e] = NoRelease
  BY <1>1 DEF Fresh, Checked
<1>5. Create(r, e, req.key, req.artifact, req.who)
  BY <1>3, <1>4 DEF Create
<1>6. LedgerNext
  BY <1>2, <1>5 DEF LedgerNext, ClientNext
<1>7. /\ status' = [status EXCEPT ![r] = "evaluating"]
      /\ envOf' = [envOf EXCEPT ![r] = e]
      /\ keyOf' = [keyOf EXCEPT ![r] = req.key]
      /\ active' = [active EXCEPT ![e] = r]
      /\ UNCHANGED <<current, expired, results, details, receipts>>
      /\ ~Exists(r)
  BY <1>3 DEF CreateCommitted, gateTables, IsNext
<1>8. \A s \in Releases : Exists(s) =>
          /\ Exists(s)' /\ status'[s] = status[s]
          /\ envOf'[s] = envOf[s] /\ keyOf'[s] = keyOf[s]
  BY <1>1, <1>7 DEF TypeOK, Exists
<1>9. \A s \in Releases : ~Exists(s) /\ Exists(s)' => envOf'[s] = e
  BY <1>1, <1>7 DEF TypeOK, Exists
<1>10. \A d \in Envs : <<"environment", d>> \notin held[w] =>
           active'[d] = active[d] /\ current'[d] = current[d]
  BY <1>1, <1>7 DEF TypeOK
<1>11. \A id \in EventIds : ReceiptsOf(id)' = ReceiptsOf(id)
  BY <1>7 DEF ReceiptsOf
<1>12. Touches(w)
  BY <1>1, <1>7, <1>8, <1>9, <1>10, <1>11 DEF Touches
<1> QED BY <1>6, <1>12

\* receive_gate_webhook() commits a result, its receipt and what they decide.
LEMMA CommitWebhook ==
    ASSUME TxInv, NEW w \in Workers, pc[w] = "commit", Kind(w) = "webhook",
           NEW r \in Releases, r = Row(w), Effect(w, r)
    PROVE  LedgerNext /\ Touches(w)
<1> PICK body : body = request[w].body
  OBVIOUS
<1> PICK e : e = envOf[r]
  OBVIOUS
<1> PICK outcome : outcome = [results[r] EXCEPT ![body.gate] = body.status]
  OBVIOUS
<1>1. /\ TypeOK /\ Fresh(w) /\ Checked(w) /\ request[w] \in Requests
      /\ EnvOf(w) = e /\ e \in Envs /\ Exists(r)
      /\ <<"environment", e>> \in held[w] /\ <<"release", r>> \in held[w]
      /\ <<"event", body.event>> \in held[w] /\ ReceiptsOf(body.event) = {}
      /\ seen[w].status = status[r]
  BY AtCommit
<1>2. /\ body \in Webhooks /\ body.release = r
      /\ body.gate \in Gates /\ body.event \in EventIds
  BY <1>1, RequestFields DEF Kind, Row, Webhooks
<1>3. /\ seen[w].outcome = outcome
      /\ SameResult(body, results[r][body.gate], details[r][body.gate])
  BY <1>1 DEF Fresh, SameResult
<1>4. status[r] = "evaluating" /\ body.gate \in Policy[e].required_gates
  BY <1>1 DEF Checked
<1>5. WebhookCommitted(body, e, outcome)
  BY <1>3 DEF Effect, Kind
<1>6. ReceiveWebhook(body)
  BY <1>1, <1>2, <1>3, <1>4, <1>5 DEF ReceiveWebhook
<1>7. LedgerNext
  BY <1>2, <1>6 DEF LedgerNext
<1>8. /\ results' = [results EXCEPT ![r][body.gate] = body.status]
      /\ details' = [details EXCEPT ![r][body.gate] = body.details]
      /\ receipts' = receipts \cup {body}
      /\ UNCHANGED <<envOf, keyOf, current, expired>>
  BY <1>2, <1>5 DEF WebhookCommitted, identity
<1>9. /\ status' = status \/ \E st \in ReleaseStatus :
                                 status' = [status EXCEPT ![r] = st]
      /\ \A d \in Envs \ {e} : active'[d] = active[d]
  <2> DEFINE target == EvaluateGates(Policy[e].required_gates, outcome,
                                     Policy[e].requires_approval)
  <2>1. /\ status' = status \/ status' = [status EXCEPT ![r] = target]
        /\ active' = active \/ active' = [active EXCEPT ![e] = NoRelease]
    BY <1>2, <1>5 DEF WebhookCommitted, GatesRecalculated, Transition
  <2>2. target \in ReleaseStatus
    BY EvaluateGatesType DEF ReleaseStatus
  <2> HIDE DEF target
  <2> QED BY <1>1, <2>1, <2>2 DEF TypeOK
<1>10. \A s \in Releases : Exists(s) =>
           /\ Exists(s)'
           /\ s # r => /\ status'[s] = status[s]
                       /\ results'[s] = results[s] /\ details'[s] = details[s]
  BY <1>1, <1>8, <1>9 DEF TypeOK, Exists, ReleaseStatus
<1>11. \A s \in Releases : ~Exists(s) => ~Exists(s)'
  BY <1>1, <1>9 DEF TypeOK, Exists
<1>12. \A id \in EventIds : id # body.event => ReceiptsOf(id)' = ReceiptsOf(id)
  BY <1>8 DEF ReceiptsOf
<1>13. Touches(w)
  BY <1>1, <1>8, <1>9, <1>10, <1>11, <1>12 DEF Touches
<1> QED BY <1>7, <1>13

\* approve_release().
LEMMA CommitApprove ==
    ASSUME TxInv, NEW w \in Workers, pc[w] = "commit", Kind(w) = "approve",
           NEW r \in Releases, r = Row(w), Effect(w, r)
    PROVE  LedgerNext /\ Touches(w)
<1> PICK who : who = request[w].who
  OBVIOUS
<1> PICK e : e = envOf[r]
  OBVIOUS
<1>1. /\ TypeOK /\ Fresh(w) /\ Checked(w) /\ request[w] \in Requests
      /\ EnvOf(w) = e /\ e \in Envs /\ Exists(r)
      /\ <<"release", r>> \in held[w] /\ seen[w].status = status[r]
  BY AtCommit
<1>2. who \in Approvers
  BY <1>1, RequestFields DEF Kind
<1>3. status[r] = "awaiting_approval" /\ PassedGates(e, results[r])
  BY <1>1 DEF Fresh, Checked
<1>4. ApproveCommitted(r, who)
  BY DEF Effect, Kind
<1>5. Approve(r, who)
  BY <1>3, <1>4 DEF Approve
<1>6. LedgerNext
  BY <1>2, <1>5 DEF LedgerNext, ClientNext
<1> PICK st \in ReleaseStatus : st = "approved"
  BY DEF ReleaseStatus
<1>7. /\ status' = [status EXCEPT ![r] = st]
      /\ UNCHANGED <<envOf, keyOf, results, details, receipts, expired>>
      /\ UNCHANGED <<active, current>> /\ UNCHANGED pointers
  BY <1>4 DEF ApproveCommitted, Transition, identity, pointers, gateTables
<1>8. Touches(w)
  BY <1>1, <1>7, RowTouches
<1> QED BY <1>6, <1>8

\* The facts about a handler that has locked the release and its environment.
LEMMA AtRowCommit ==
    ASSUME TxInv, NEW w \in Workers, pc[w] = "commit",
           Kind(w) \in {"cancel", "deploy", "observe", "rollback"},
           NEW r \in Releases, r = Row(w), NEW e, e = envOf[r]
    PROVE  /\ TypeOK /\ Fresh(w) /\ Checked(w) /\ request[w] \in Requests
           /\ EnvOf(w) = e /\ e \in Envs /\ Exists(r)
           /\ <<"release", r>> \in held[w] /\ <<"environment", e>> \in held[w]
           /\ seen[w].status = status[r]
           /\ seen[w].active = active[e] /\ seen[w].current = current[e]
BY AtCommit

\* cancel_release().
LEMMA CommitCancel ==
    ASSUME TxInv, NEW w \in Workers, pc[w] = "commit", Kind(w) = "cancel",
           NEW r \in Releases, r = Row(w), Effect(w, r)
    PROVE  LedgerNext /\ Touches(w)
<1> PICK who : who = request[w].who
  OBVIOUS
<1> PICK e : e = envOf[r]
  OBVIOUS
<1>1. /\ TypeOK /\ Fresh(w) /\ Checked(w) /\ request[w] \in Requests
      /\ EnvOf(w) = e /\ e \in Envs /\ Exists(r)
      /\ <<"release", r>> \in held[w] /\ <<"environment", e>> \in held[w]
      /\ seen[w].status = status[r]
      /\ seen[w].active = active[e] /\ seen[w].current = current[e]
  BY AtRowCommit
<1>2. who \in Admins
  BY <1>1, RequestFields DEF Kind
<1>3. MayCancel(r, status[r], active[e])
  BY <1>1 DEF Checked, MayCancel
<1>4. CancelCommitted(r, e, status[r], who)
  BY <1>1 DEF Effect, Kind, CancelCommitted, Transition
<1>5. Cancel(r, who)
  BY <1>1, <1>3, <1>4 DEF Cancel
<1>6. LedgerNext
  BY <1>2, <1>5 DEF LedgerNext, ClientNext
<1> PICK st \in ReleaseStatus : st = "cancelled"
  BY DEF ReleaseStatus
<1>7. /\ status' = [status EXCEPT ![r] = st]
      /\ UNCHANGED <<envOf, keyOf, results, details, receipts, expired>>
      /\ \A d \in Envs \ {e} :
             active'[d] = active[d] /\ current'[d] = current[d]
  BY <1>1, <1>4 DEF CancelCommitted, Transition, identity, gateTables, TypeOK
<1>8. Touches(w)
  BY <1>1, <1>7, RowTouches
<1> QED BY <1>6, <1>8

\* deploy_release().
LEMMA CommitDeploy ==
    ASSUME TxInv, NEW w \in Workers, pc[w] = "commit", Kind(w) = "deploy",
           NEW r \in Releases, r = Row(w), Effect(w, r)
    PROVE  LedgerNext /\ Touches(w)
<1> PICK req : req = request[w]
  OBVIOUS
<1> PICK e : e = envOf[r]
  OBVIOUS
<1>1. /\ TypeOK /\ Fresh(w) /\ Checked(w) /\ request[w] \in Requests
      /\ EnvOf(w) = e /\ e \in Envs /\ Exists(r)
      /\ <<"release", r>> \in held[w] /\ <<"environment", e>> \in held[w]
      /\ seen[w].status = status[r]
      /\ seen[w].active = active[e] /\ seen[w].current = current[e]
  BY AtRowCommit
<1>2. req.who \in Admins /\ req.percent \in CanaryPercents
  BY <1>1, RequestFields DEF Kind
<1>3. MayDeploy(r, e, status[r], active[e], results[r])
  <2>1. MayDeploy(Row(w), EnvOf(w), seen[w].status, seen[w].active,
                  seen[w].outcome)
    BY <1>1 DEF Checked
  <2>2. seen[w].outcome = results[r]
    BY <1>1 DEF Fresh
  <2> QED BY <1>1, <2>1, <2>2
<1>4. DeployCommitted(r, req.percent, req.who)
  BY DEF Effect, Kind
<1>5. Deploy(r, req.percent, req.who)
  BY <1>1, <1>3, <1>4 DEF Deploy
<1>6. LedgerNext
  BY <1>2, <1>5 DEF LedgerNext, ClientNext
<1> PICK st \in ReleaseStatus : st = "canary"
  BY DEF ReleaseStatus
<1>7. /\ status' = [status EXCEPT ![r] = st]
      /\ UNCHANGED <<envOf, keyOf, results, details, receipts, expired>>
      /\ UNCHANGED <<active, current>>
  BY <1>4 DEF DeployCommitted, Transition, identity, pointers, gateTables
<1>8. Touches(w)
  BY <1>1, <1>7, RowTouches
<1> QED BY <1>6, <1>8

\* observe_release().
LEMMA CommitObserve ==
    ASSUME TxInv, NEW w \in Workers, pc[w] = "commit", Kind(w) = "observe",
           NEW r \in Releases, r = Row(w), Effect(w, r)
    PROVE  LedgerNext /\ Touches(w)
<1> PICK req : req = request[w]
  OBVIOUS
<1> PICK e : e = envOf[r]
  OBVIOUS
<1> PICK o : o = req.observation
  OBVIOUS
<1>1. /\ TypeOK /\ Fresh(w) /\ Checked(w) /\ request[w] \in Requests
      /\ EnvOf(w) = e /\ e \in Envs /\ Exists(r)
      /\ <<"release", r>> \in held[w] /\ <<"environment", e>> \in held[w]
      /\ seen[w].status = status[r]
      /\ seen[w].active = active[e] /\ seen[w].current = current[e]
  BY AtRowCommit
<1>2. req.who \in Observers /\ o \in Observations
  BY <1>1, RequestFields DEF Kind
<1>3. /\ status[r] = "canary" /\ OwnsEnvironment(r, active[e])
      /\ Storable(o)
  BY <1>1 DEF Checked, OwnsEnvironment, Storable
<1>4. WithinBound(r, o) /\ ObserveCommitted(r, e, o, req.who)
  BY DEF Effect, Kind
<1>5. Observe(r, o, req.who)
  BY <1>3, <1>4 DEF Observe
<1>6. LedgerNext
  BY <1>2, <1>5 DEF LedgerNext, ClientNext
<1>7. /\ UNCHANGED <<envOf, keyOf, results, details, receipts, expired>>
      /\ \A d \in Envs \ {e} :
             active'[d] = active[d] /\ current'[d] = current[d]
  BY <1>1, <1>4 DEF ObserveCommitted, identity, gateTables, pointers, TypeOK
<1>8. \/ status' = status
      \/ status' = [status EXCEPT ![r] = "succeeded"]
      \/ status' = [status EXCEPT ![r] = "rolled_back"]
  BY <1>4 DEF ObserveCommitted, Transition
<1>9. \E st \in ReleaseStatus :
          status' = status \/ status' = [status EXCEPT ![r] = st]
  BY <1>8 DEF ReleaseStatus
<1>10. Touches(w)
  BY <1>1, <1>7, <1>9, RowTouches
<1> QED BY <1>6, <1>10

\* rollback_release().
LEMMA CommitRollback ==
    ASSUME TxInv, NEW w \in Workers, pc[w] = "commit", Kind(w) = "rollback",
           NEW r \in Releases, r = Row(w), Effect(w, r)
    PROVE  LedgerNext /\ Touches(w)
<1> PICK who : who = request[w].who
  OBVIOUS
<1> PICK e : e = envOf[r]
  OBVIOUS
<1>1. /\ TypeOK /\ Fresh(w) /\ Checked(w) /\ request[w] \in Requests
      /\ EnvOf(w) = e /\ e \in Envs /\ Exists(r)
      /\ <<"release", r>> \in held[w] /\ <<"environment", e>> \in held[w]
      /\ seen[w].status = status[r]
      /\ seen[w].active = active[e] /\ seen[w].current = current[e]
  BY AtRowCommit
<1>2. who \in Admins
  BY <1>1, RequestFields DEF Kind
<1>3. MayRollBack(r, status[r], active[e], current[e])
  BY <1>1 DEF Checked, MayRollBack
<1>4. RollbackCommitted(r, e, status[r], who)
  BY <1>1 DEF Effect, Kind, RollbackCommitted, Transition
<1>5. Rollback(r, who)
  BY <1>1, <1>3, <1>4 DEF Rollback
<1>6. LedgerNext
  BY <1>2, <1>5 DEF LedgerNext, ClientNext
<1> PICK st \in ReleaseStatus : st = "rolled_back"
  BY DEF ReleaseStatus
<1>7. /\ status' = [status EXCEPT ![r] = st]
      /\ UNCHANGED <<envOf, keyOf, results, details, receipts, expired>>
      /\ \A d \in Envs \ {e} :
             active'[d] = active[d] /\ current'[d] = current[d]
  BY <1>1, <1>4 DEF RollbackCommitted, Transition, identity, gateTables, TypeOK
<1>8. Touches(w)
  BY <1>1, <1>7, RowTouches
<1> QED BY <1>6, <1>8

\* Every commit of a worker is a step of the ledger.
LEMMA CommitStep ==
    ASSUME TxInv, NEW w \in Workers, Commit(w)
    PROVE  StepOf(w)
<1>1. PICK r \in Releases :
          /\ pc[w] = "commit"
          /\ IF Kind(w) = "create" THEN IsNext(r) ELSE r = Row(w)
          /\ Effect(w, r)
          /\ Close(w)
  BY DEF Commit, Kind, Row
<1>2. Kind(w) \in {"create", "webhook", "approve", "cancel", "deploy",
                   "observe", "rollback"}
  BY <1>1, AtCommit
<1>3. LedgerNext /\ Touches(w)
  BY <1>1, <1>2, CommitCreate, CommitWebhook, CommitApprove, CommitCancel,
     CommitDeploy, CommitObserve, CommitRollback
<1> QED BY <1>1, <1>3, CloseStep

-------------------------------------------------------------------------------
(* The steps of the reconciler.                                            *)

\* A release of a batch is the active one of an environment.
LEMMA BatchRow ==
    ASSUME TxInv, NEW p \in Reconcilers, NEW r \in Batch(p)
    PROVE  /\ p \in Processes /\ p \notin Workers
           /\ r \in Releases /\ r \in Due /\ Exists(r)
           /\ <<"release", r>> \in held[p]
           /\ envOf[r] \in Envs /\ active[envOf[r]] = r
<1>1. p \in Processes /\ p \notin Workers
  BY TransactionsAssumption DEF Processes
<1>2. SweepInv(p) /\ TypeOK /\ Ownership
  BY DEF TxInv, LineageInv
<1>3. r \in Releases
  <2>1. todo[p] \in Seq(Releases) /\ owned[p] \in SUBSET Releases
    BY <1>1, PrivateTypes DEF TxInv
  <2>2. \A i \in DOMAIN todo[p] : todo[p][i] \in Releases
    BY <2>1
  <2> QED BY <2>1, <2>2 DEF Batch
<1>4. status[r] = "canary" /\ r \in expired /\ <<"release", r>> \in held[p]
  BY <1>2 DEF SweepInv
<1>5. envOf[r] \in Envs /\ Exists(r)
  BY <1>2, <1>3, <1>4, OpenRow DEF OpenStatus
<1>6. active[envOf[r]] = r
  BY <1>2, <1>3, <1>4, <1>5 DEF Ownership, OpenStatus
<1> QED BY <1>1, <1>3, <1>4, <1>5, <1>6 DEF Due

\* A batch is finite.
LEMMA BatchFinite ==
    ASSUME NEW S \in SUBSET Releases
    PROVE  IsFiniteSet(S) /\ Cardinality(S) \in Nat
<1>1. IsFiniteSet(Releases)
  BY LedgerAssumption, FS_Interval DEF Releases
<1> QED BY <1>1, FS_Subset, FS_CardinalityType

\* The rows of the next batch are locked where nobody else has locked them.
LEMMA SelectBatchStep ==
    ASSUME TxInv, NEW p \in Reconcilers, SelectBatch(p)
    PROVE  StepOf(p)
<1>1. /\ p \in Processes /\ p \notin Workers /\ SweepInv(p) /\ Typed
      /\ Exclusion
  BY TransactionsAssumption DEF Processes, TxInv
<1>2. PICK batch \in SUBSET Selectable(p) :
          /\ Cardinality(batch) = BatchLimit \/ Cardinality(batch) < BatchLimit
          /\ batch # {}
          /\ \E order \in Orders(batch) : todo' = [todo EXCEPT ![p] = order]
          /\ held' = [held EXCEPT ![p] = BatchLock(batch)]
  BY DEF SelectBatch
<1>3. PICK order \in Orders(batch) : todo' = [todo EXCEPT ![p] = order]
  BY <1>2
<1>4. /\ pc[p] = "idle" /\ pc' = [pc EXCEPT ![p] = "batch"]
      /\ UNCHANGED ledgerVars
      /\ request' = request /\ seen' = seen /\ owned' = owned
  BY DEF SelectBatch, Goto
<1>5. /\ batch \in SUBSET Releases
      /\ order \in [1..Cardinality(batch) -> batch]
  BY DEF Selectable, Due, Orders
<1> PICK rows : rows = {order[i] : i \in DOMAIN order}
  OBVIOUS
<1>6. /\ order \in Seq(Releases) /\ rows \subseteq batch /\ rows # {}
      /\ IsFiniteSet(rows) /\ Cardinality(rows) <= Cardinality(batch)
      /\ Cardinality(batch) \in Nat
  <2>1. IsFiniteSet(batch) /\ Cardinality(batch) \in Nat
    BY <1>5, BatchFinite
  <2>2. Cardinality(batch) # 0
    BY <1>2, <2>1, FS_EmptySet
  <2>3. order \in Seq(Releases) /\ 1 \in DOMAIN order
    BY <1>5, <2>1, <2>2
  <2>4. rows \subseteq batch /\ rows # {}
    BY <1>5, <2>3
  <2>5. IsFiniteSet(rows) /\ Cardinality(rows) <= Cardinality(batch)
    BY <2>1, <2>4, FS_Subset
  <2> QED BY <2>1, <2>3, <2>4, <2>5
<1>7. /\ pc'[p] = "batch" /\ todo'[p] = order /\ held'[p] = BatchLock(batch)
      /\ request'[p] = request[p] /\ seen'[p] = seen[p]
      /\ owned'[p] = owned[p] /\ Written(p)
  BY <1>1, <1>2, <1>3, <1>4 DEF Typed, TxTypeOK, Written
<1>8. owned[p] = {} /\ request[p] = NoRequest
  BY <1>1, <1>4 DEF SweepInv, Batch
<1>9. Batch(p)' = rows
  BY <1>7, <1>8 DEF Batch
<1>10. BatchLock(batch) \in SUBSET Locks
  <2>1. \A r \in Releases : <<"release", r>> \in Locks
    BY DEF Locks
  <2> QED BY <1>5, <2>1 DEF BatchLock
<1>11. Typed' /\ Alone(p)
  BY <1>1, <1>6, <1>7, <1>10, PrivateTypes, WrittenTypes
<1>12. \A q \in Processes \ {p} : \A l \in held'[p], m \in held[q] :
           ~Conflict(l, m)
  BY <1>7 DEF BatchLock, Selectable, Available, ReleaseLock
<1>13. \A r \in Batch(p)' :
           /\ <<"release", r>> \in held'[p]
           /\ r \in expired' /\ status'[r] = "canary"
  <2>1. status' = status /\ expired' = expired
    BY <1>4 DEF ledgerVars
  <2> QED BY <1>6, <1>7, <1>9, <2>1 DEF BatchLock, Selectable, Due
<1>14. \A e \in Envs : <<"environment", e>> \notin held'[p]
  BY <1>7 DEF BatchLock
<1>15. Cardinality(Batch(p)') <= BatchLimit
  <2>1. Cardinality(rows) \in Nat
    BY <1>6, FS_CardinalityType
  <2> QED BY <1>2, <1>6, <1>9, <2>1, LedgerAssumption
<1>16. SweepInv(p)'
  BY <1>6, <1>7, <1>8, <1>9, <1>13, <1>14, <1>15 DEF SweepInv
<1> QED BY <1>1, <1>4, <1>11, <1>12, <1>16, ReadsTouchNothing DEF StepOf

\* The environment of the next row of the batch is locked, and the row found to
\* own it.
LEMMA LockNextEnvironmentStep ==
    ASSUME TxInv, NEW p \in Reconcilers, LockNextEnvironment(p)
    PROVE  StepOf(p)
<1> PICK rows : rows = todo[p]
  OBVIOUS
<1> PICK r : r = Head(rows)
  OBVIOUS
<1> PICK e : e = envOf[r]
  OBVIOUS
<1> DEFINE locks == EnvironmentLock(e)
<1>1. /\ p \in Processes /\ p \notin Workers /\ SweepInv(p) /\ Typed
      /\ Exclusion
  BY TransactionsAssumption DEF Processes, TxInv
<1>2. /\ pc[p] = "batch" /\ rows # <<>>
      /\ Acquire(p, locks)
      /\ owned' = IF OwnsEnvironment(r, active[e])
                  THEN [owned EXCEPT ![p] = owned[p] \cup {r}] ELSE owned
      /\ todo' = [todo EXCEPT ![p] = Tail(rows)]
      /\ UNCHANGED ledgerVars
      /\ pc' = pc /\ request' = request /\ seen' = seen
  BY DEF LockNextEnvironment
<1>3. rows \in Seq(Releases)
  BY <1>1, PrivateTypes
<1>4. 1 \in DOMAIN rows /\ r = rows[1]
  BY <1>2, <1>3
<1>5. r \in Batch(p)
  BY <1>4 DEF Batch
<1>6. r \in Releases /\ e \in Envs /\ active[e] = r
  BY <1>5, BatchRow
<1>7. owned' = [owned EXCEPT ![p] = owned[p] \cup {r}]
  BY <1>2, <1>6 DEF OwnsEnvironment
<1>8. locks \in SUBSET Locks
  BY <1>6, LockTypes
<1>9. /\ held'[p] = held[p] \cup locks /\ held'[p] \in SUBSET Locks
      /\ held' = [held EXCEPT ![p] = held'[p]]
      /\ \A q \in Processes \ {p} : \A l \in held'[p], m \in held[q] :
             ~Conflict(l, m)
  BY <1>1, <1>2, <1>8, AcquireApart
<1>10. Tail(rows) \in Seq(Releases)
  BY <1>2, <1>3
<1>11. /\ pc'[p] = "batch" /\ request'[p] = request[p] /\ seen'[p] = seen[p]
       /\ todo'[p] = Tail(rows) /\ owned'[p] = owned[p] \cup {r}
       /\ Written(p)
  BY <1>1, <1>2, <1>7, <1>9 DEF Typed, TxTypeOK, Written
<1>12. Typed' /\ Alone(p)
  BY <1>1, <1>6, <1>9, <1>10, <1>11, PrivateTypes, WrittenTypes
<1>13. Batch(p)' = Batch(p)
  <2> PICK tail : tail = Tail(rows)
    OBVIOUS
  <2>1. \A i \in DOMAIN tail : i + 1 \in DOMAIN rows /\ tail[i] = rows[i + 1]
    BY <1>3, <1>4
  <2>2. \A i \in DOMAIN rows : i # 1 =>
            i - 1 \in DOMAIN tail /\ rows[i] = tail[i - 1]
    BY <1>3, <1>4
  <2>3. /\ \A x : x \in Batch(p)' <=>
               \/ \E i \in DOMAIN tail : x = tail[i]
               \/ x \in owned[p] \/ x = r
        /\ \A x : x \in Batch(p) <=>
               \/ \E i \in DOMAIN rows : x = rows[i]
               \/ x \in owned[p]
    BY <1>11 DEF Batch
  <2>4. \A x : x \in Batch(p)' => x \in Batch(p)
    BY <1>4, <2>1, <2>3
  <2>5. \A x : x \in Batch(p) => x \in Batch(p)'
    BY <1>4, <2>2, <2>3
  <2> QED BY <2>4, <2>5
<1>14. /\ status' = status /\ expired' = expired /\ envOf' = envOf
  BY <1>2 DEF ledgerVars, identity
<1>15. \A s \in owned'[p] : <<"environment", envOf'[s]>> \in held'[p]
  <2>1. \A s \in owned[p] : <<"environment", envOf[s]>> \in held[p]
    BY <1>1 DEF SweepInv
  <2>2. <<"environment", envOf[r]>> \in locks
    BY DEF EnvironmentLock
  <2> HIDE DEF locks
  <2> QED BY <1>9, <1>11, <1>14, <2>1, <2>2
<1>16. \A d \in Envs : <<"environment", d>> \in held'[p] =>
           \E s \in owned'[p] : envOf'[s] = d
  <2>1. \A d \in Envs : <<"environment", d>> \in held[p] =>
            \E s \in owned[p] : envOf[s] = d
    BY <1>1 DEF SweepInv
  <2>2. \A d : <<"environment", d>> \in locks => d = e
    BY DEF EnvironmentLock
  <2> HIDE DEF locks
  <2> QED BY <1>9, <1>11, <1>14, <2>1, <2>2
<1>17. \A s \in Batch(p)' : /\ <<"release", s>> \in held'[p]
                            /\ s \in expired' /\ status'[s] = "canary"
  BY <1>1, <1>9, <1>13, <1>14 DEF SweepInv
<1>18. SweepInv(p)'
  BY <1>1, <1>2, <1>11, <1>13, <1>15, <1>16, <1>17 DEF SweepInv
<1> QED BY <1>1, <1>2, <1>9, <1>12, <1>18, ReadsTouchNothing DEF StepOf

\* A pass that ends leaves nothing behind.
LEMMA EndBatchStep ==
    ASSUME TxInv, NEW p \in Reconcilers, EndBatch(p),
           [LedgerNext]_ledgerVars, Touches(p)
    PROVE  StepOf(p)
<1>1. p \in Processes /\ p \notin Workers /\ SweepInv(p) /\ Typed
  BY TransactionsAssumption DEF Processes, TxInv
<1>2. /\ held' = [held EXCEPT ![p] = {}]
      /\ todo' = [todo EXCEPT ![p] = <<>>]
      /\ owned' = [owned EXCEPT ![p] = {}]
      /\ pc' = [pc EXCEPT ![p] = "idle"]
      /\ request' = request /\ seen' = seen
  BY DEF EndBatch, Goto
<1>3. /\ held'[p] = {} /\ todo'[p] = <<>> /\ owned'[p] = {}
      /\ pc'[p] = "idle" /\ request'[p] = request[p] /\ seen'[p] = seen[p]
      /\ Written(p)
  BY <1>1, <1>2 DEF Typed, TxTypeOK, Written
<1>4. <<>> \in Seq(Releases)
  OBVIOUS
<1>5. Typed' /\ Alone(p)
  BY <1>1, <1>3, <1>4, PrivateTypes, WrittenTypes
<1>6. Batch(p)' = {}
  BY <1>3 DEF Batch
<1>7. IsFiniteSet({}) /\ Cardinality({}) = 0
  BY FS_EmptySet
<1>8. SweepInv(p)'
  BY <1>1, <1>3, <1>6, <1>7, LedgerAssumption DEF SweepInv
<1> QED BY <1>1, <1>3, <1>5, <1>8 DEF StepOf

\* The batch is committed: it rolls back the canaries it owns, all of those it
\* selected.
LEMMA CommitBatchStep ==
    ASSUME TxInv, NEW p \in Reconcilers, CommitBatch(p)
    PROVE  StepOf(p)
<1> PICK batch : batch = owned[p]
  OBVIOUS
<1>1. /\ pc[p] = "batch" /\ todo[p] = <<>> /\ SweepInv(p)
      /\ ReconcileCommitted(batch) /\ EndBatch(p) /\ TypeOK /\ Ownership
  BY DEF CommitBatch, TxInv, LineageInv
<1>2. Batch(p) = batch
  BY <1>1 DEF Batch
<1>3. batch # {} /\ Cardinality(batch) <= BatchLimit
  BY <1>1, <1>2 DEF SweepInv
<1>4. \A r \in batch : /\ r \in Releases /\ r \in Due /\ Exists(r)
                       /\ <<"release", r>> \in held[p]
                       /\ active[envOf[r]] = r
  BY <1>2, BatchRow
<1>5. Owned(batch) = batch
  BY <1>4 DEF Owned, OwnsEnvironment
<1>6. Reconcile(batch)
  BY <1>1, <1>3, <1>4, <1>5 DEF Reconcile
<1>7. LedgerNext
  BY <1>4, <1>6 DEF LedgerNext, ReconcilerNext
<1>8. /\ status' = [r \in Releases |->
                        IF r \in batch THEN "rolled_back" ELSE status[r]]
      /\ current' = [e \in Envs |-> IF active[e] \in batch
                                    THEN previous[active[e]] ELSE current[e]]
      /\ active' = [e \in Envs |-> IF active[e] \in batch
                                   THEN NoRelease ELSE active[e]]
      /\ UNCHANGED <<envOf, keyOf, expired, results, details, receipts>>
  BY <1>1 DEF ReconcileCommitted, identity, gateTables
<1>9. \A r \in Releases : /\ Exists(r) => Exists(r)'
                          /\ ~Exists(r) => ~Exists(r)'
                          /\ <<"release", r>> \notin held[p] =>
                                 status'[r] = status[r]
  BY <1>4, <1>8 DEF Exists
<1>10. \A e \in Envs : <<"environment", e>> \notin held[p] =>
           active'[e] = active[e] /\ current'[e] = current[e]
  <2> SUFFICES ASSUME NEW e \in Envs, <<"environment", e>> \notin held[p]
               PROVE  active[e] \notin batch
    BY <1>8
  <2>1. ASSUME active[e] \in batch PROVE FALSE
    <3> PICK r \in batch : r = active[e]
      BY <2>1
    <3>1. envOf[r] = e
      BY <1>1, <1>4 DEF Ownership
    <3> QED BY <1>1, <3>1 DEF SweepInv
  <2> QED BY <2>1
<1>11. \A id \in EventIds : ReceiptsOf(id)' = ReceiptsOf(id)
  BY <1>8 DEF ReceiptsOf
<1>12. Touches(p)
  BY <1>8, <1>9, <1>10, <1>11 DEF Touches
<1> QED BY <1>1, <1>7, <1>12, EndBatchStep

-------------------------------------------------------------------------------
(* Every step, and the theorems.                                           *)

\* A transaction that fails leaves the tables as they were.
LEMMA AbortStep ==
    ASSUME TxInv, NEW p \in Processes, Abort(p)
    PROVE  StepOf(p)
<1>1. CASE p \in Workers /\ Answer(p)
  BY <1>1, AnswerStep
<1>2. CASE p \in Reconcilers /\ EndBatch(p) /\ UNCHANGED ledgerVars
  BY <1>2, ReadsTouchNothing, EndBatchStep
<1> QED BY <1>1, <1>2 DEF Abort

\* Time passes for the canaries, or nothing happens.
LEMMA QuietKeeps ==
    ASSUME TxInv, LineageInv', UNCHANGED processVars,
           UNCHANGED <<status, envOf, keyOf, active, current, results, details,
                       receipts>>,
           expired \subseteq expired'
    PROVE  TxInv'
<1>1. /\ pc' = pc /\ request' = request /\ seen' = seen /\ held' = held
      /\ todo' = todo /\ owned' = owned
  BY DEF processVars
<1>2. Typed'
  BY <1>1 DEF TxInv, Typed, TxTypeOK
<1>3. Exclusion'
  <2> SUFFICES ASSUME NEW p \in Processes, NEW q \in Processes \ {p},
                      NEW l \in held'[p], NEW m \in held'[q]
               PROVE  ~Conflict(l, m)
    BY DEF Exclusion, Conflict
  <2> QED BY <1>1 DEF TxInv, Exclusion
<1>4. ASSUME NEW w \in Workers PROVE WorkerInv(w)'
  <2>1. WorkerInv(w)
    BY DEF TxInv
  <2>2. /\ HasEvent(w)' = HasEvent(w) /\ HasRow(w)' = HasRow(w)
        /\ HasEnvironment(w)' = HasEnvironment(w) /\ HasKey(w)' = HasKey(w)
        /\ Kind(w)' = Kind(w) /\ Row(w)' = Row(w) /\ EnvOf(w)' = EnvOf(w)
    BY <1>1 DEF HasEvent, HasRow, HasEnvironment, HasKey, Kind, Row, EnvOf
  <2>3. held'[w] = LocksOf(w)'
    BY <1>1, <2>1, <2>2
    DEF WorkerInv, LocksOf, EventLock, ReleaseLock, EnvironmentLock, InsertLock
  <2>4. Fresh(w)'
    BY <1>1, <2>1, <2>2 DEF WorkerInv, Fresh, Exists, WithKey, ReceiptsOf,
                            SameResult
  <2>5. Checked(w)'
    BY <1>1, <2>1, <2>2
    DEF WorkerInv, Checked, PassedGates, MayCancel, MayDeploy, MayRollBack,
        OwnsEnvironment, Storable
  <2>6. pc'[w] \in Statements(Kind(w))'
    BY <1>1, <2>1, <2>2 DEF WorkerInv, Statements
  <2> QED BY <2>3, <2>4, <2>5, <2>6 DEF WorkerInv
<1>5. ASSUME NEW p \in Reconcilers PROVE SweepInv(p)'
  <2>1. SweepInv(p)
    BY DEF TxInv
  <2>2. Batch(p)' = Batch(p)
    BY <1>1 DEF Batch
  <2> QED BY <1>1, <2>1, <2>2 DEF SweepInv
<1> QED BY <1>2, <1>3, <1>4, <1>5 DEF TxInv

\* Nobody has begun anything.
LEMMA TxInitHolds == TxInit => TxInv
<1> SUFFICES ASSUME TxInit PROVE TxInv
  OBVIOUS
<1>1. LineageInv
  BY LineageInit DEF TxInit
<1>2. /\ NothingSeen \in Sightings /\ <<>> \in Seq(Releases)
  BY DEF NothingSeen, Sightings
<1>3. Typed
  BY <1>2 DEF TxInit, Typed, TxTypeOK
<1>4. Exclusion
  BY DEF TxInit, Exclusion
<1>5. ASSUME NEW w \in Workers PROVE WorkerInv(w)
  <2>1. w \in Processes
    BY DEF Processes
  <2>2. pc[w] = "idle" /\ request[w] = NoRequest /\ held[w] = {}
    BY <2>1 DEF TxInit
  <2>3. Kind(w) = "none"
    BY <2>2 DEF Kind, NoRequest
  <2> QED
    BY <2>2, <2>3 DEF WorkerInv, Statements, LocksOf, HasEvent, HasRow,
                      HasEnvironment, HasKey, Fresh, Checked
<1>6. ASSUME NEW p \in Reconcilers PROVE SweepInv(p)
  <2>1. p \in Processes
    BY DEF Processes
  <2>2. /\ pc[p] = "idle" /\ request[p] = NoRequest /\ held[p] = {}
        /\ todo[p] = <<>> /\ owned[p] = {}
    BY <2>1 DEF TxInit
  <2>3. Batch(p) = {}
    BY <2>2 DEF Batch
  <2>4. IsFiniteSet({}) /\ Cardinality({}) = 0
    BY FS_EmptySet
  <2> QED BY <2>2, <2>3, <2>4, LedgerAssumption DEF SweepInv
<1> QED BY <1>1, <1>3, <1>4, <1>5, <1>6 DEF TxInv

\* TxInv is inductive, and every step of a transaction is a step of the ledger.
LEMMA TxStep ==
    ASSUME TxInv, [TxNext]_txVars
    PROVE  TxInv' /\ [LedgerNext]_ledgerVars
<1>1. ASSUME NEW q \in Processes, StepOf(q)
      PROVE  TxInv' /\ [LedgerNext]_ledgerVars
  BY <1>1, StepKeeps DEF StepOf
<1>2. Workers \subseteq Processes /\ Reconcilers \subseteq Processes
  BY DEF Processes
<1>3. ASSUME NEW w \in Workers, NEW req \in Requests, Send(w, req)
      PROVE  StepOf(w)
  BY <1>3, SendStep
<1>4. ASSUME NEW w \in Workers, Serve(w) PROVE StepOf(w)
  BY <1>4, LockEventStep, LockReleaseStep, ReadReceiptStep,
     LockEnvironmentStep, FindExistingStep, InsertStep, ReadGatesStep,
     CommitStep DEF Serve
<1>5. ASSUME NEW p \in Reconcilers, Sweep(p) PROVE StepOf(p)
  BY <1>5, SelectBatchStep, LockNextEnvironmentStep, CommitBatchStep DEF Sweep
<1>6. ASSUME NEW p \in Processes, Crash(p) \/ DeadlockVictim(p)
      PROVE  StepOf(p)
  BY <1>6, AbortStep DEF Crash, DeadlockVictim
<1>7. ASSUME NEW r \in Releases, Expire(r), UNCHANGED processVars
      PROVE  TxInv' /\ [LedgerNext]_ledgerVars
  <2>1. LedgerNext
    BY <1>7 DEF LedgerNext, ReconcilerNext
  <2>2. LineageInv'
    BY <2>1, LineageStep DEF TxInv
  <2>3. /\ UNCHANGED <<status, envOf, keyOf, active, current, results, details,
                       receipts>>
        /\ expired \subseteq expired'
    BY <1>7 DEF Expire, identity, pointers, gateTables
  <2> QED BY <1>7, <2>1, <2>2, <2>3, QuietKeeps
<1>8. CASE UNCHANGED txVars
  <2>1. UNCHANGED ledgerVars /\ UNCHANGED processVars
    BY <1>8 DEF txVars
  <2>2. LineageInv'
    BY <2>1, LineageStep DEF TxInv
  <2>3. /\ UNCHANGED <<status, envOf, keyOf, active, current, results, details,
                       receipts>>
        /\ expired \subseteq expired'
    BY <2>1 DEF ledgerVars, identity, pointers, gateTables
  <2> QED BY <2>1, <2>2, <2>3, QuietKeeps
<1> QED BY <1>1, <1>2, <1>3, <1>4, <1>5, <1>6, <1>7, <1>8 DEF TxNext

\* TxInv holds in every state.
LEMMA TxHolds == TxSpec => []TxInv
<1>1. TxInv /\ [TxNext]_txVars => TxInv'
  BY TxStep
<1> QED BY <1>1, TxInitHolds, PTL DEF TxSpec

\* Every transaction is at a statement of its handler, and holds locks of the
\* kinds its statements take.
THEOREM TransactionTypes == TxSpec => []TxTypeOK
<1>1. TxInv => TxTypeOK
  BY DEF TxInv, Typed
<1> QED BY <1>1, TxHolds, PTL

\* The statements of all the processes, interleaved in any way and lost at any
\* point, commit a behaviour of Ledger, where every handler is one step.
THEOREM HandlersAreAtomic == TxSpec => CommitsAreAtomic
<1>1. TxInit => LedgerInit
  BY DEF TxInit
<1>2. TxInv /\ [TxNext]_txVars => [LedgerNext]_ledgerVars
  BY TxStep
<1> QED BY <1>1, <1>2, TxHolds, PTL DEF TxSpec, CommitsAreAtomic, LedgerSpec

\* No INSERT of a handler is refused by a unique constraint: the locks keep what
\* it found free as it was.
THEOREM InsertsSucceed == TxSpec => []ConstraintsNeverFire
<1>1. TxInv => ConstraintsNeverFire
  <2> SUFFICES ASSUME TxInv, NEW w \in Workers, pc[w] = "commit"
               PROVE  /\ request[w].kind = "create" =>
                             WithKey(request[w].env, request[w].key) = {}
                      /\ request[w].kind = "webhook" =>
                             LET body == request[w].body
                             IN  /\ ReceiptsOf(body.event) = {}
                                 /\ SameResult(body,
                                        results[body.release][body.gate],
                                        details[body.release][body.gate])
    BY DEF ConstraintsNeverFire
  <2>1. Fresh(w) /\ request[w] \in Requests
    BY AtCommit
  <2>2. Kind(w) = "webhook" => request[w].body.release = Row(w)
    BY <2>1, RequestFields DEF Kind, Row
  <2> QED BY <2>1, <2>2 DEF Fresh, Kind, SameResult, ReceiptsOf
<1> QED BY <1>1, TxHolds, PTL

\* Every row that a pass of the reconciler has selected and not reached yet is
\* still a canary that owns its environment.
THEOREM BatchesAreOwned == TxSpec => []BatchIsOwned
<1>1. TxInv => BatchIsOwned
  <2> SUFFICES ASSUME TxInv, NEW p \in Reconcilers, NEW i \in DOMAIN todo[p]
               PROVE  LET r == todo[p][i]
                      IN  /\ status[r] = "canary"
                          /\ OwnsEnvironment(r, active[envOf[r]])
    BY DEF BatchIsOwned
  <2> PICK r : r = todo[p][i]
    OBVIOUS
  <2>1. r \in Batch(p)
    BY DEF Batch
  <2>2. r \in Due /\ active[envOf[r]] = r
    BY <2>1, BatchRow
  <2> QED BY <2>2 DEF Due, OwnsEnvironment
<1> QED BY <1>1, TxHolds, PTL

-------------------------------------------------------------------------------
(* Deadlocks.                                                              *)

\* What a lock conflicts with.
LEMMA ConflictsOf ==
    /\ \A id, m : Conflict(<<"event", id>>, m) => m = <<"event", id>>
    /\ \A e, m : Conflict(<<"environment", e>>, m) => m = <<"environment", e>>
    /\ \A r, m : Conflict(<<"release", r>>, m) =>
           m = <<"release", r>> \/ m = <<"release key share", r>>
<1>1. \A id, m : Conflict(<<"event", id>>, m) => m = <<"event", id>>
  BY DEF Conflict
<1>2. \A e, m : Conflict(<<"environment", e>>, m) => m = <<"environment", e>>
  BY DEF Conflict
<1>3. \A r, m : Conflict(<<"release", r>>, m) =>
          m = <<"release", r>> \/ m = <<"release key share", r>>
  BY DEF Conflict
<1> QED BY <1>1, <1>2, <1>3

\* The statements at which a worker waits, and for what.
LEMMA WantedOfWorker ==
    ASSUME TxInv, NEW w \in Workers, pc[w] # "insert", NEW l \in Wanted(w)
    PROVE  \/ pc[w] = "event" /\ \E id : l = <<"event", id>>
           \/ pc[w] = "release" /\ \E r : l = <<"release", r>>
           \/ pc[w] = "environment" /\ \E e : l = <<"environment", e>>
<1>1. pc[w] # "batch"
  BY DEF TxInv, WorkerInv, Statements
<1>2. CASE pc[w] = "event"
  BY <1>2 DEF Wanted, EventLock
<1>3. CASE pc[w] = "release" /\ Exists(request[w].release)
  BY <1>3 DEF Wanted, ReleaseLock
<1>4. CASE pc[w] = "environment"
  BY <1>4 DEF Wanted, EnvironmentLock
<1>5. CASE /\ pc[w] \notin {"event", "environment"}
           /\ ~(pc[w] = "release" /\ Exists(request[w].release))
  BY <1>1, <1>5 DEF Wanted
<1> QED BY <1>2, <1>3, <1>4, <1>5

\* The statements at which a worker holds a lock of each kind.
LEMMA HeldByWorker ==
    ASSUME TxInv, NEW w \in Workers
    PROVE  /\ \A id : <<"event", id>> \in held[w] => pc[w] # "event"
           /\ \A r : <<"release", r>> \in held[w] =>
                  pc[w] \in {"receipt", "environment", "gates", "commit"}
           /\ \A r : <<"release key share", r>> \in held[w] => pc[w] = "commit"
           /\ \A e : <<"environment", e>> \in held[w] =>
                  pc[w] \in {"find", "insert", "gates", "commit"}
<1>1. held[w] = LocksOf(w)
  BY DEF TxInv, WorkerInv
<1>2. \A id : <<"event", id>> \in LocksOf(w) => HasEvent(w)
  BY DEF LocksOf, EventLock, ReleaseLock, EnvironmentLock, InsertLock
<1>3. \A r : <<"release", r>> \in LocksOf(w) => HasRow(w)
  BY DEF LocksOf, EventLock, ReleaseLock, EnvironmentLock, InsertLock
<1>4. \A r : <<"release key share", r>> \in LocksOf(w) => HasKey(w)
  BY DEF LocksOf, EventLock, ReleaseLock, EnvironmentLock, InsertLock
<1>5. \A e : <<"environment", e>> \in LocksOf(w) => HasEnvironment(w)
  BY DEF LocksOf, EventLock, ReleaseLock, EnvironmentLock, InsertLock
<1> QED
  BY <1>1, <1>2, <1>3, <1>4, <1>5
  DEF HasEvent, HasRow, HasKey, HasEnvironment

\* A reconciler waits only for a worker that holds an environment: two of them
\* would have locked the same release.
LEMMA ReconcilerWaits ==
    ASSUME TxInv, NEW p \in Reconcilers, NEW q \in Processes, WaitsFor(p, q)
    PROVE  q \in Workers /\ \E e : <<"environment", e>> \in held[q]
<1>1. PICK l \in Wanted(p) : \E m \in held[q] : Conflict(l, m)
  BY DEF WaitsFor
<1>2. PICK m \in held[q] : Conflict(l, m)
  BY <1>1
<1>3. p # q /\ p \in Processes /\ Exclusion /\ Typed
  BY DEF WaitsFor, Processes, TxInv
<1>4. pc[p] \in {"idle", "batch"}
  BY DEF TxInv, SweepInv
<1>5. pc[p] = "batch" /\ todo[p] # <<>>
  BY <1>4 DEF Wanted
<1> PICK rows : rows = todo[p]
  OBVIOUS
<1> PICK r : r = Head(rows)
  OBVIOUS
<1> PICK e : e = envOf[r]
  OBVIOUS
<1>6. l = <<"environment", e>>
  BY <1>5 DEF Wanted, EnvironmentLock
<1>7. <<"environment", e>> \in held[q]
  BY <1>2, <1>6, ConflictsOf
<1>8. r \in Batch(p)
  <2>1. rows \in Seq(Releases) /\ rows # <<>>
    BY <1>3, <1>5, PrivateTypes
  <2>2. 1 \in DOMAIN rows /\ r = rows[1]
    BY <2>1
  <2> QED BY <2>2 DEF Batch
<1>9. e \in Envs /\ active[e] = r /\ <<"release", r>> \in held[p]
  BY <1>8, BatchRow
<1>10. ASSUME q \in Reconcilers PROVE FALSE
  <2>1. PICK s \in owned[q] : envOf[s] = e
    BY <1>7, <1>9, <1>10 DEF TxInv, SweepInv
  <2>2. s \in Batch(q)
    BY DEF Batch
  <2>3. active[e] = s /\ <<"release", s>> \in held[q]
    BY <1>10, <2>1, <2>2, BatchRow
  <2> QED BY <1>3, <1>9, <2>3, Excludes
<1> QED BY <1>7, <1>10 DEF Processes

\* Among the transactions of a circle, none of which inserts a release, nobody
\* waits for an environment, since those who hold one do not wait; so nobody
\* waits for a release, and then nobody for an event.
THEOREM DeadlocksInsert == TxSpec => []OnlyInsertDeadlocks
<1>1. TxInv => OnlyInsertDeadlocks
  <2> SUFFICES ASSUME TxInv, NEW S \in SUBSET Processes, WaitCycle(S),
                      \A p \in S : pc[p] # "insert"
               PROVE  FALSE
    BY DEF OnlyInsertDeadlocks
  <2>1. S # {} /\ \A p \in S : \E q \in S : WaitsFor(p, q)
    BY DEF WaitCycle
  <2>2. \A w \in S : w \in Workers => \A e : <<"environment", e>> \notin held[w]
    <3> SUFFICES ASSUME NEW w \in S, w \in Workers, NEW e,
                        <<"environment", e>> \in held[w]
                 PROVE  FALSE
      OBVIOUS
    <3>1. pc[w] \in {"find", "gates", "commit"}
      BY HeldByWorker
    <3>2. PICK l : l \in Wanted(w)
      BY <2>1 DEF WaitsFor
    <3> QED BY <3>1, <3>2, WantedOfWorker
  <2>3. S \subseteq Workers
    BY <2>1, <2>2, ReconcilerWaits DEF Processes
  <2>4. \A w \in S :
            /\ w \in Workers
            /\ pc[w] \in {"event", "release", "environment"}
            /\ \E v \in S : \E l \in Wanted(w) : \E m \in held[v] :
                   Conflict(l, m)
    BY <2>1, <2>3, WantedOfWorker DEF WaitsFor
  <2>5. ASSUME NEW w \in S, pc[w] = "environment" PROVE FALSE
    <3>1. PICK v \in S : \E l \in Wanted(w) : \E m \in held[v] : Conflict(l, m)
      BY <2>4
    <3>2. PICK l \in Wanted(w) : \E m \in held[v] : Conflict(l, m)
      BY <3>1
    <3>3. PICK e : l = <<"environment", e>>
      BY <2>4, <2>5, WantedOfWorker
    <3>4. <<"environment", e>> \in held[v]
      BY <3>2, <3>3, ConflictsOf
    <3> QED BY <2>2, <2>3, <3>4
  <2>6. ASSUME NEW w \in S, pc[w] = "release" PROVE FALSE
    <3>1. PICK v \in S : \E l \in Wanted(w) : \E m \in held[v] : Conflict(l, m)
      BY <2>4
    <3>2. PICK l \in Wanted(w) : \E m \in held[v] : Conflict(l, m)
      BY <3>1
    <3>3. PICK r : l = <<"release", r>>
      BY <2>4, <2>6, WantedOfWorker
    <3>4. \/ <<"release", r>> \in held[v]
          \/ <<"release key share", r>> \in held[v]
      BY <3>2, <3>3, ConflictsOf
    <3>5. pc[v] = "environment"
      BY <2>4, <3>4, HeldByWorker
    <3> QED BY <2>5, <3>5
  <2>7. ASSUME NEW w \in S PROVE FALSE
    <3>1. PICK v \in S : \E l \in Wanted(w) : \E m \in held[v] : Conflict(l, m)
      BY <2>4
    <3>2. PICK l \in Wanted(w) : \E m \in held[v] : Conflict(l, m)
      BY <3>1
    <3>3. pc[w] = "event" /\ pc[v] = "event"
      BY <2>4, <2>5, <2>6
    <3>4. PICK id : l = <<"event", id>>
      BY <2>4, <3>3, WantedOfWorker
    <3>5. <<"event", id>> \in held[v]
      BY <3>2, <3>4, ConflictsOf
    <3> QED BY <2>4, <3>3, <3>5, HeldByWorker
  <2> QED BY <2>1, <2>7
<1> QED BY <1>1, TxHolds, PTL

-------------------------------------------------------------------------------
(* What Ledger promises, of the transactions.                              *)

\* However the statements of requests and reconcilers interleave, whoever
\* crashes or is rolled back, the committed rows satisfy what was proved of
\* handlers that run one after the other.
THEOREM CommittedRowsAreRight ==
    TxSpec => [](/\ TypeOK /\ Ownership /\ Lineage
                 /\ GatesGuardCanary /\ Admission
                 /\ TrafficMatchesStatus /\ ReasonExplainsStatus
                 /\ AuditTrail /\ JournalMatchesReason /\ WebhooksCountOnce)
BY HandlersAreAtomic, TypeCorrect, OwnershipHolds, LineageHolds,
   GatesGuardHolds, AdmissionHolds, TrafficHolds, ReasonHolds, AuditTrailHolds,
   JournalMatchesReasonHolds, WebhooksCountOnceHolds, PTL DEF CommitsAreAtomic

\* The same of what a commit may change: no transaction reopens a settled
\* release or moves a version without reason, and each environment is a stack.
THEOREM CommitsKeepPromises ==
    TxSpec => CurrentMoves /\ SettledStaysSettled /\ EnvironmentsAreStacks
BY HandlersAreAtomic, CurrentMovesHolds, SettledHolds, StacksHold, PTL
   DEF CommitsAreAtomic
===============================================================================
