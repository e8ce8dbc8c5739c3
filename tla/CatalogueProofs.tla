--------------------------- MODULE CatalogueProofs ---------------------------
(***************************************************************************)
(* Proofs about Catalogue, for any numbers of processes, slugs, names and  *)
(* rows: types, the unique keys, the truth of answers, and the demo rows.  *)
(***************************************************************************)
EXTENDS Catalogue, TLAPS

WorkerSteps == {"idle", "find_application", "insert", "commit"}

SeederSteps == Steps \ {"insert"}

\* A process is at a statement of its own code, and knows what it needs there.
Positions ==
    /\ \A w \in Workers : pc[w] \in WorkerSteps
    /\ \A s \in Seeders : pc[s] \in SeederSteps
    /\ \A w \in Workers : pc[w] # "idle" => key[w] \in UniqueKeys
    /\ \A s \in Seeders :
           pc[s] \in {"find_environment", "insert_environment", "commit"}
               => app[s] \in Ids

\* Before its first INSERT a transaction holds no rows, and seed() holds only
\* the demo application until the second one.
Holdings ==
    /\ \A p \in Processes :
           pc[p] \in {"idle", "find_application", "insert",
                      "insert_application", "seeded"} => pending[p] = {}
    /\ \A p \in Processes :
           pc[p] \in {"find_environment", "insert_environment"} =>
               \A x \in pending[p] : x.key = AppKey(DemoSlug)

\* No key is held by two transactions, or by one and a committed row.
KeysApart ==
    /\ \A p \in Processes : \A x \in pending[p], y \in rows : x.key # y.key
    /\ \A p, q \in Processes : \A x \in pending[p], y \in pending[q] :
           x.key = y.key => p = q /\ x = y

\* What a worker will say at its commit is true by then.
AnswersPrepared ==
    \A w \in Workers : pc[w] = "commit" =>
        \E x \in pending[w] : x.key = key[w]

KeyInv ==
    /\ CatalogueTypeOK
    /\ Positions
    /\ Holdings
    /\ KeysApart
    /\ OneRowPerKey
    /\ AnswersPrepared
    /\ AnswersStayTrue

-------------------------------------------------------------------------------
\* A slug is never mistaken for a name in an application.
LEMMA KeysDiffer ==
    ASSUME NEW slug, NEW a, NEW name
    PROVE  AppKey(slug) # EnvKey(a, name)
BY DEF AppKey, EnvKey

\* What requests and seeds insert under are unique keys.
LEMMA UniqueKeyTypes ==
    /\ \A slug \in Slugs : AppKey(slug) \in UniqueKeys
    /\ \A a \in Ids, name \in Names : EnvKey(a, name) \in UniqueKeys
    /\ AppKey(DemoSlug) \in UniqueKeys
    /\ \A a \in Ids : EnvKey(a, DemoName) \in UniqueKeys
BY CatalogueAssumption DEF UniqueKeys

\* The invariant holds before the first request.
LEMMA InitKeys == CatalogueInit => KeyInv
<1> SUFFICES ASSUME CatalogueInit PROVE KeyInv
  OBVIOUS
<1>1. CatalogueTypeOK
  BY DEF CatalogueInit, CatalogueTypeOK, Processes, Steps, Codes, NoAnswer
<1>2. Positions /\ Holdings /\ KeysApart /\ OneRowPerKey
  BY CatalogueAssumption
     DEF CatalogueInit, Positions, Holdings, KeysApart, OneRowPerKey,
         Processes, WorkerSteps, SeederSteps, Steps
<1>3. AnswersPrepared /\ AnswersStayTrue
  BY DEF CatalogueInit, AnswersPrepared, AnswersStayTrue, Processes, NoAnswer
<1> QED BY <1>1, <1>2, <1>3 DEF KeyInv

-------------------------------------------------------------------------------
(* What the statements do to the keys.                                     *)

\* The type of the rows, by itself.
RowTypes ==
    /\ rows \subseteq Rows
    /\ pending \in [Processes -> SUBSET Rows]

\* An INSERT of a key the transaction does not hold yet keeps the keys apart.
LEMMA InsertKeepsApart ==
    ASSUME RowTypes, KeysApart, NEW p \in Processes, NEW k \in UniqueKeys,
           NEW id \in Ids, Insert(p, k, id), UNCHANGED rows,
           \A x \in pending[p] : x.key # k
    PROVE  RowTypes' /\ KeysApart'
<1> DEFINE new == [id |-> id, key |-> k, by |-> p]
<1>1. new \in Rows
  BY DEF Rows
<1>2. /\ pending'[p] = pending[p] \cup {new}
      /\ \A q \in Processes \ {p} : pending'[q] = pending[q]
      /\ pending' \in [Processes -> SUBSET Rows]
  BY <1>1 DEF Insert, RowTypes
<1>3. \A y \in rows : new.key # y.key
  BY DEF Insert, Taken
<1>4. \A q \in Processes \ {p} : \A y \in pending[q] : new.key # y.key
  BY DEF Insert, MayTryInsert
<1>5. \A y \in pending[p] : new.key # y.key
  OBVIOUS
<1> HIDE DEF new
<1>6. \A q \in Processes : \A x \in pending'[q], y \in rows : x.key # y.key
  BY <1>2, <1>3 DEF KeysApart
<1>7. ASSUME NEW q \in Processes, NEW q2 \in Processes,
             NEW x \in pending'[q], NEW y \in pending'[q2], x.key = y.key
      PROVE  q = q2 /\ x = y
  <2>1. CASE x \in pending[q] /\ y \in pending[q2]
    BY <1>7, <2>1 DEF KeysApart
  <2>2. CASE x \notin pending[q]
    <3>1. q = p /\ x = new
      BY <1>2, <2>2
    <3> QED BY <1>2, <1>4, <1>5, <1>7, <3>1
  <2>3. CASE y \notin pending[q2]
    <3>1. q2 = p /\ y = new
      BY <1>2, <2>3
    <3> QED BY <1>2, <1>4, <1>5, <1>7, <3>1
  <2> QED BY <2>1, <2>2, <2>3
<1> QED BY <1>2, <1>6, <1>7 DEF KeysApart, RowTypes

\* So does the loss of what a transaction has inserted.
LEMMA RollbackKeepsApart ==
    ASSUME RowTypes, KeysApart, NEW p \in Processes, UNCHANGED rows,
           pending' = [pending EXCEPT ![p] = {}]
    PROVE  RowTypes' /\ KeysApart'
<1>1. /\ pending' \in [Processes -> SUBSET Rows]
      /\ \A q \in Processes : pending'[q] \subseteq pending[q]
  BY DEF RowTypes
<1> QED BY <1>1 DEF RowTypes, KeysApart

\* A commit keeps the keys of the rows apart too, and no row goes away.
LEMMA CommitKeepsApart ==
    ASSUME RowTypes, KeysApart, OneRowPerKey, NEW p \in Processes, CommitRows(p)
    PROVE  /\ RowTypes' /\ KeysApart' /\ OneRowPerKey'
           /\ rows' = rows \cup pending[p]
<1>1. /\ pending' \in [Processes -> SUBSET Rows]
      /\ pending'[p] = {}
      /\ \A q \in Processes \ {p} : pending'[q] = pending[q]
      /\ rows' = rows \cup pending[p]
  BY DEF RowTypes, CommitRows
<1>2. RowTypes'
  BY <1>1 DEF RowTypes
<1>3. OneRowPerKey'
  BY <1>1 DEF OneRowPerKey, KeysApart
<1>4. ASSUME NEW q \in Processes, NEW x \in pending'[q], NEW y \in rows'
      PROVE  x.key # y.key
  <2>1. q # p /\ x \in pending[q]
    BY <1>1
  <2> QED BY <1>1, <2>1 DEF KeysApart
<1>5. ASSUME NEW q \in Processes, NEW q2 \in Processes,
             NEW x \in pending'[q], NEW y \in pending'[q2], x.key = y.key
      PROVE  q = q2 /\ x = y
  BY <1>1, <1>5 DEF KeysApart
<1> QED BY <1>1, <1>2, <1>3, <1>4, <1>5 DEF KeysApart

-------------------------------------------------------------------------------
(* The requests.                                                           *)

\* What the invariant says of a worker's or a seeder's place in its code.
LEMMA PlacesOf ==
    /\ Workers \subseteq Processes /\ Seeders \subseteq Processes
    /\ \A w \in Workers : w \notin Seeders
    /\ WorkerSteps \subseteq Steps /\ SeederSteps \subseteq Steps
BY CatalogueAssumption DEF Processes, WorkerSteps, SeederSteps, Steps

\* A step that inserts and commits nothing keeps the keys as they are.
LEMMA NothingWritten ==
    ASSUME RowTypes, KeysApart, OneRowPerKey, UNCHANGED <<rows, pending>>
    PROVE  RowTypes' /\ KeysApart' /\ OneRowPerKey'
BY DEF RowTypes, KeysApart, OneRowPerKey

\* A request begins: its worker takes a key, and nothing else changes.
LEMMA ReceiveKeeps ==
    ASSUME KeyInv, NEW w \in Workers, NEW k \in UniqueKeys,
           NEW step \in {"insert", "find_application"}, Receive(w, k, step)
    PROVE  KeyInv'
<1>1. /\ pc' = [pc EXCEPT ![w] = step] /\ key' = [key EXCEPT ![w] = k]
      /\ answer' = [answer EXCEPT ![w] = NoAnswer]
      /\ UNCHANGED <<rows, app, pending, failures>> /\ pc[w] = "idle"
  BY DEF Receive, Goto
<1>2. w \in Processes /\ w \notin Seeders
  BY PlacesOf
<1>3. CatalogueTypeOK'
  BY <1>1, <1>2 DEF KeyInv, CatalogueTypeOK, Steps, Codes, NoAnswer
<1>4. Positions' /\ Holdings'
  BY <1>1, <1>2, PlacesOf
     DEF KeyInv, CatalogueTypeOK, Positions, Holdings, WorkerSteps
<1>5. KeysApart' /\ OneRowPerKey'
  BY <1>1, NothingWritten DEF KeyInv, CatalogueTypeOK, RowTypes
<1>6. AnswersPrepared' /\ AnswersStayTrue'
  BY <1>1, <1>2, PlacesOf
     DEF KeyInv, CatalogueTypeOK, AnswersPrepared, AnswersStayTrue, NoAnswer
<1> QED BY <1>3, <1>4, <1>5, <1>6 DEF KeyInv

\* The application is found, or the request is answered 404.
LEMMA GetApplicationKeeps ==
    ASSUME KeyInv, NEW w \in Workers, GetApplication(w)
    PROVE  KeyInv'
<1>1. /\ UNCHANGED <<rows, app, pending, failures>>
      /\ pc[w] = "find_application"
      /\ \/ pc' = [pc EXCEPT ![w] = "insert"] /\ UNCHANGED <<key, answer>>
         \/ /\ pc' = [pc EXCEPT ![w] = "idle"]
            /\ key' = [key EXCEPT ![w] = NoKey]
            /\ answer' = [answer EXCEPT
                             ![w] = [code |-> "not_found", key |-> key[w]]]
  BY DEF GetApplication, Goto, Answer
<1>2. w \in Processes /\ w \notin Seeders
  BY PlacesOf
<1>3. CatalogueTypeOK'
  <2>1. /\ pc' \in [Processes -> Steps]
        /\ key' \in [Processes -> UniqueKeys \cup {NoKey}]
    BY <1>1, <1>2 DEF KeyInv, CatalogueTypeOK, Steps
  <2>2. answer' \in [Workers -> [code : Codes, key : UniqueKeys \cup {NoKey}]]
    <3>1. CASE UNCHANGED answer
      BY <3>1 DEF KeyInv, CatalogueTypeOK
    <3>2. CASE answer' = [answer EXCEPT
                            ![w] = [code |-> "not_found", key |-> key[w]]]
      BY <1>2, <3>2 DEF KeyInv, CatalogueTypeOK, Codes
    <3> QED BY <1>1, <3>1, <3>2
  <2> QED BY <1>1, <2>1, <2>2 DEF KeyInv, CatalogueTypeOK
<1>4. Positions' /\ Holdings'
  BY <1>1, <1>2, PlacesOf
     DEF KeyInv, CatalogueTypeOK, Positions, Holdings, WorkerSteps
<1>5. KeysApart' /\ OneRowPerKey'
  BY <1>1, NothingWritten DEF KeyInv, CatalogueTypeOK, RowTypes
<1>6. AnswersPrepared'
  BY <1>1, <1>2, PlacesOf DEF KeyInv, CatalogueTypeOK, AnswersPrepared
<1>7. AnswersStayTrue'
  <2>1. CASE UNCHANGED answer
    BY <1>1, <2>1 DEF KeyInv, AnswersStayTrue
  <2>2. CASE answer' = [answer EXCEPT
                          ![w] = [code |-> "not_found", key |-> key[w]]]
    BY <1>1, <1>2, <2>2 DEF KeyInv, CatalogueTypeOK, AnswersStayTrue
  <2> QED BY <1>1, <2>1, <2>2
<1> QED BY <1>3, <1>4, <1>5, <1>6, <1>7 DEF KeyInv

\* The INSERT of a request succeeds, or the request is answered 409.
LEMMA InsertRowKeeps ==
    ASSUME KeyInv, NEW w \in Workers, InsertRow(w)
    PROVE  KeyInv'
<1>1. w \in Processes /\ w \notin Seeders /\ pc[w] = "insert"
  BY PlacesOf DEF InsertRow
<1>2. key[w] \in UniqueKeys /\ pending[w] = {}
  BY <1>1 DEF KeyInv, Positions, Holdings
<1>3. CASE /\ \E id \in Ids : IsNew(id) /\ Insert(w, key[w], id)
           /\ Goto(w, "commit")
           /\ UNCHANGED <<key, answer, rows, app, failures>>
  <2>1. PICK id \in Ids : Insert(w, key[w], id)
    BY <1>3
  <2>2. /\ pc' = [pc EXCEPT ![w] = "commit"]
        /\ UNCHANGED <<key, answer, rows, app, failures>>
    BY <1>3 DEF Goto
  <2>3. /\ pending' = [pending EXCEPT
              ![w] = {[id |-> id, key |-> key[w], by |-> w]}]
    BY <1>2, <2>1 DEF Insert
  <2>4. RowTypes' /\ KeysApart' /\ OneRowPerKey'
    BY <1>1, <1>2, <2>1, <2>2, InsertKeepsApart
       DEF KeyInv, CatalogueTypeOK, RowTypes, OneRowPerKey
  <2>5. CatalogueTypeOK'
    BY <1>1, <2>2, <2>4 DEF KeyInv, CatalogueTypeOK, RowTypes, Steps
  <2>6. Positions' /\ Holdings'
    BY <1>1, <2>2, <2>3, PlacesOf
       DEF KeyInv, CatalogueTypeOK, Positions, Holdings, WorkerSteps
  <2>7. AnswersPrepared' /\ AnswersStayTrue'
    BY <1>1, <2>2, <2>3, PlacesOf
       DEF KeyInv, CatalogueTypeOK, AnswersPrepared, AnswersStayTrue
  <2> QED BY <2>4, <2>5, <2>6, <2>7 DEF KeyInv
<1>4. CASE /\ InsertFails(w, key[w]) /\ Answer(w, "conflict")
           /\ UNCHANGED <<rows, app, failures>>
  <2>1. /\ pc' = [pc EXCEPT ![w] = "idle"]
        /\ key' = [key EXCEPT ![w] = NoKey]
        /\ answer' = [answer EXCEPT
                         ![w] = [code |-> "conflict", key |-> key[w]]]
        /\ pending' = [pending EXCEPT ![w] = {}]
        /\ UNCHANGED <<rows, app, failures>>
        /\ \E row \in rows : row.key = key[w]
    BY <1>4 DEF Answer, Goto, InsertFails, Taken
  <2>2. RowTypes' /\ KeysApart' /\ OneRowPerKey'
    BY <1>1, <2>1, RollbackKeepsApart
       DEF KeyInv, CatalogueTypeOK, RowTypes, OneRowPerKey
  <2>3. CatalogueTypeOK'
    BY <1>1, <2>1, <2>2 DEF KeyInv, CatalogueTypeOK, RowTypes, Steps, Codes
  <2>4. Positions' /\ Holdings'
    BY <1>1, <2>1, PlacesOf
       DEF KeyInv, CatalogueTypeOK, Positions, Holdings, WorkerSteps
  <2>5. AnswersPrepared' /\ AnswersStayTrue'
    BY <1>1, <2>1, PlacesOf
       DEF KeyInv, CatalogueTypeOK, AnswersPrepared, AnswersStayTrue
  <2> QED BY <2>2, <2>3, <2>4, <2>5 DEF KeyInv
<1> QED BY <1>3, <1>4 DEF InsertRow

\* A request commits its row and is answered 201.
LEMMA CommitRowKeeps ==
    ASSUME KeyInv, NEW w \in Workers, CommitRow(w)
    PROVE  KeyInv'
<1>1. w \in Processes /\ w \notin Seeders /\ pc[w] = "commit"
  BY PlacesOf DEF CommitRow
<1>2. /\ pc' = [pc EXCEPT ![w] = "idle"]
      /\ key' = [key EXCEPT ![w] = NoKey]
      /\ answer' = [answer EXCEPT
                       ![w] = [code |-> "created", key |-> key[w]]]
      /\ pending' = [pending EXCEPT ![w] = {}]
      /\ UNCHANGED <<app, failures>>
  BY DEF CommitRow, Goto, Answer, CommitRows
<1>3. RowTypes' /\ KeysApart' /\ OneRowPerKey' /\ rows' = rows \cup pending[w]
  BY <1>1, CommitKeepsApart DEF CommitRow, KeyInv, CatalogueTypeOK, RowTypes
<1>4. CatalogueTypeOK'
  BY <1>1, <1>2, <1>3 DEF KeyInv, CatalogueTypeOK, RowTypes, Steps, Codes
<1>5. Positions' /\ Holdings'
  BY <1>1, <1>2, PlacesOf
     DEF KeyInv, CatalogueTypeOK, Positions, Holdings, WorkerSteps
<1>6. AnswersPrepared' /\ AnswersStayTrue'
  BY <1>1, <1>2, <1>3, PlacesOf
     DEF KeyInv, CatalogueTypeOK, AnswersPrepared, AnswersStayTrue
<1> QED BY <1>3, <1>4, <1>5, <1>6 DEF KeyInv

-------------------------------------------------------------------------------
(* The seeds.                                                              *)

\* An INSERT of a seed fails: it ends, and holds nothing.
LEMMA SeedFailsKeeps ==
    ASSUME KeyInv, NEW s \in Seeders, NEW k, SeedFails(s, k),
           UNCHANGED <<rows, key, answer>>
    PROVE  KeyInv'
<1>1. s \in Processes /\ s \notin Workers
  BY PlacesOf
<1>2. /\ pc' = [pc EXCEPT ![s] = "idle"]
      /\ pending' = [pending EXCEPT ![s] = {}]
      /\ failures' = [failures EXCEPT ![s] = @ + 1]
      /\ UNCHANGED <<rows, key, answer, app>>
  BY DEF SeedFails, InsertFails, Goto
<1>3. RowTypes' /\ KeysApart' /\ OneRowPerKey'
  BY <1>1, <1>2, RollbackKeepsApart
     DEF KeyInv, CatalogueTypeOK, RowTypes, OneRowPerKey
<1>4. CatalogueTypeOK'
  <2>1. failures' \in [Seeders -> Nat]
    <3>1. failures[s] + 1 \in Nat
      BY DEF KeyInv, CatalogueTypeOK
    <3> QED BY <1>2, <3>1 DEF KeyInv, CatalogueTypeOK
  <2>2. pc' \in [Processes -> Steps]
    BY <1>1, <1>2 DEF KeyInv, CatalogueTypeOK, Steps
  <2> QED BY <1>2, <1>3, <2>1, <2>2 DEF KeyInv, CatalogueTypeOK, RowTypes
<1>5. Positions' /\ Holdings'
  BY <1>1, <1>2, PlacesOf
     DEF KeyInv, CatalogueTypeOK, Positions, Holdings, SeederSteps, Steps
<1>6. AnswersPrepared' /\ AnswersStayTrue'
  BY <1>1, <1>2, PlacesOf
     DEF KeyInv, CatalogueTypeOK, AnswersPrepared, AnswersStayTrue
<1> QED BY <1>3, <1>4, <1>5, <1>6 DEF KeyInv

\* An INSERT of a seed succeeds, and its next step is `step`.
LEMMA SeedInsertKeeps ==
    ASSUME KeyInv, NEW s \in Seeders, NEW k \in UniqueKeys, NEW id \in Ids,
           Insert(s, k, id), \A x \in pending[s] : x.key # k,
           NEW step \in {"find_environment", "commit"}, Goto(s, step),
           app' \in [Seeders -> Ids \cup {NoId}], app'[s] \in Ids,
           \A other \in Seeders \ {s} : app'[other] = app[other],
           step = "find_environment" =>
               pending[s] = {} /\ k = AppKey(DemoSlug),
           UNCHANGED <<rows, key, answer, failures>>
    PROVE  KeyInv'
<1>1. s \in Processes /\ s \notin Workers
  BY PlacesOf
<1>2. /\ pc' = [pc EXCEPT ![s] = step]
      /\ pending' = [pending EXCEPT
             ![s] = @ \cup {[id |-> id, key |-> k, by |-> s]}]
  BY DEF Insert, Goto
<1>3. RowTypes' /\ KeysApart' /\ OneRowPerKey'
  BY <1>1, InsertKeepsApart DEF KeyInv, CatalogueTypeOK, RowTypes, OneRowPerKey
<1>4. CatalogueTypeOK'
  <2>1. pc' \in [Processes -> Steps]
    BY <1>1, <1>2 DEF KeyInv, CatalogueTypeOK, Steps
  <2> QED BY <1>3, <2>1 DEF KeyInv, CatalogueTypeOK, RowTypes
<1>5. Positions'
  BY <1>1, <1>2, PlacesOf
     DEF KeyInv, CatalogueTypeOK, Positions, SeederSteps, Steps
<1>6. Holdings'
  <2>1. /\ pc'[s] = step
        /\ pending'[s] = pending[s] \cup {[id |-> id, key |-> k, by |-> s]}
        /\ \A q \in Processes \ {s} : pc'[q] = pc[q] /\ pending'[q] = pending[q]
    BY <1>1, <1>2 DEF KeyInv, CatalogueTypeOK
  <2>2. ASSUME NEW q \in Processes
        PROVE  /\ pc'[q] \in {"idle", "find_application", "insert",
                              "insert_application", "seeded"} =>
                      pending'[q] = {}
               /\ pc'[q] \in {"find_environment", "insert_environment"} =>
                      \A x \in pending'[q] : x.key = AppKey(DemoSlug)
    <3>1. CASE q = s
      <4>1. CASE step = "commit"
        BY <2>1, <3>1, <4>1
      <4>2. CASE step = "find_environment"
        <5>1. pending'[s] = {[id |-> id, key |-> k, by |-> s]}
          BY <2>1, <4>2
        <5>2. [id |-> id, key |-> k, by |-> s].key = AppKey(DemoSlug)
          BY <4>2
        <5> QED BY <2>1, <3>1, <4>2, <5>1, <5>2
      <4> QED BY <4>1, <4>2
    <3>2. CASE q # s
      BY <2>1, <3>2 DEF KeyInv, Holdings
    <3> QED BY <3>1, <3>2
  <2> QED BY <2>2 DEF Holdings
<1>7. AnswersPrepared' /\ AnswersStayTrue'
  BY <1>1, <1>2, PlacesOf
     DEF KeyInv, CatalogueTypeOK, AnswersPrepared, AnswersStayTrue
<1> QED BY <1>3, <1>4, <1>5, <1>6, <1>7 DEF KeyInv

\* seed() reads, or begins: no row is written.
LEMMA SeedReadKeeps ==
    ASSUME KeyInv, NEW s \in Seeders,
           NEW step \in SeederSteps, Goto(s, step),
           step \in {"idle", "find_application", "insert_application"} =>
               pending[s] = {},
           step \in {"find_environment", "insert_environment"} =>
               \A x \in pending[s] : x.key = AppKey(DemoSlug),
           step # "seeded",
           app' \in [Seeders -> Ids \cup {NoId}],
           step \in {"find_environment", "insert_environment", "commit"} =>
               app'[s] \in Ids,
           \A other \in Seeders \ {s} : app'[other] = app[other],
           UNCHANGED <<rows, key, pending, answer, failures>>
    PROVE  KeyInv'
<1>1. s \in Processes /\ s \notin Workers
  BY PlacesOf
<1>2. pc' = [pc EXCEPT ![s] = step]
  BY DEF Goto
<1>3. KeysApart' /\ OneRowPerKey'
  BY NothingWritten DEF KeyInv, CatalogueTypeOK, RowTypes
<1>4. CatalogueTypeOK'
  BY <1>1, <1>2, PlacesOf DEF KeyInv, CatalogueTypeOK
<1>5. Positions'
  BY <1>1, <1>2, PlacesOf DEF KeyInv, CatalogueTypeOK, Positions
<1>6. Holdings'
  <2>1. step # "insert"
    BY DEF SeederSteps
  <2>2. pc'[s] = step /\ \A q \in Processes \ {s} : pc'[q] = pc[q]
    BY <1>1, <1>2 DEF KeyInv, CatalogueTypeOK
  <2>3. ASSUME NEW q \in Processes
        PROVE  /\ pc'[q] \in {"idle", "find_application", "insert",
                              "insert_application", "seeded"} =>
                      pending'[q] = {}
               /\ pc'[q] \in {"find_environment", "insert_environment"} =>
                      \A x \in pending'[q] : x.key = AppKey(DemoSlug)
    <3>1. CASE q = s
      BY <1>1, <2>1, <2>2, <3>1
    <3>2. CASE q # s
      BY <2>2, <3>2 DEF KeyInv, Holdings
    <3> QED BY <3>1, <3>2
  <2> QED BY <2>3 DEF Holdings
<1>7. AnswersPrepared' /\ AnswersStayTrue'
  BY <1>1, <1>2, PlacesOf
     DEF KeyInv, CatalogueTypeOK, AnswersPrepared, AnswersStayTrue
<1> QED BY <1>3, <1>4, <1>5, <1>6, <1>7 DEF KeyInv

\* seed() commits what it holds.
LEMMA CommitSeedKeeps ==
    ASSUME KeyInv, NEW s \in Seeders, CommitSeed(s)
    PROVE  KeyInv'
<1>1. s \in Processes /\ s \notin Workers
  BY PlacesOf
<1>2. /\ pc' = [pc EXCEPT ![s] = "seeded"]
      /\ pending' = [pending EXCEPT ![s] = {}]
      /\ UNCHANGED <<key, app, answer, failures>>
  BY DEF CommitSeed, CommitRows, Goto
<1>3. RowTypes' /\ KeysApart' /\ OneRowPerKey' /\ rows' = rows \cup pending[s]
  BY <1>1, CommitKeepsApart DEF CommitSeed, KeyInv, CatalogueTypeOK, RowTypes
<1>4. CatalogueTypeOK'
  BY <1>1, <1>2, <1>3 DEF KeyInv, CatalogueTypeOK, RowTypes, Steps
<1>5. Positions' /\ Holdings'
  BY <1>1, <1>2, PlacesOf
     DEF KeyInv, CatalogueTypeOK, Positions, Holdings, SeederSteps, Steps
<1>6. AnswersPrepared' /\ AnswersStayTrue'
  BY <1>1, <1>2, <1>3, PlacesOf
     DEF KeyInv, CatalogueTypeOK, AnswersPrepared, AnswersStayTrue
<1> QED BY <1>3, <1>4, <1>5, <1>6 DEF KeyInv

\* A process is gone, with what it had not committed.
LEMMA CrashKeeps ==
    ASSUME KeyInv, NEW p \in Processes, Crash(p)
    PROVE  KeyInv'
<1>1. /\ pc' = [pc EXCEPT ![p] = "idle"]
      /\ pending' = [pending EXCEPT ![p] = {}]
      /\ key' = [key EXCEPT ![p] = NoKey]
      /\ UNCHANGED <<rows, app, answer, failures>>
  BY DEF Crash, Goto
<1>2. RowTypes' /\ KeysApart' /\ OneRowPerKey'
  BY <1>1, RollbackKeepsApart
     DEF KeyInv, CatalogueTypeOK, RowTypes, OneRowPerKey
<1>3. CatalogueTypeOK'
  BY <1>1, <1>2 DEF KeyInv, CatalogueTypeOK, RowTypes, Steps
<1>4. Positions' /\ Holdings'
  BY <1>1, PlacesOf DEF KeyInv, CatalogueTypeOK, Positions, Holdings,
     WorkerSteps, SeederSteps, Steps
<1>5. AnswersPrepared' /\ AnswersStayTrue'
  BY <1>1, PlacesOf
     DEF KeyInv, CatalogueTypeOK, AnswersPrepared, AnswersStayTrue
<1> QED BY <1>2, <1>3, <1>4, <1>5 DEF KeyInv

-------------------------------------------------------------------------------
(* Every step.                                                             *)

\* Whichever statement comes next, of a request or of a seed.
LEMMA ContinueKeeps ==
    ASSUME KeyInv, NEW p \in Processes, Continue(p)
    PROVE  KeyInv'
<1>1. p \in Workers \/ p \in Seeders
  BY DEF Processes
<1>2. CASE GetApplication(p)
  BY <1>2, GetApplicationKeeps DEF GetApplication
<1>3. CASE InsertRow(p)
  BY <1>3, InsertRowKeeps DEF InsertRow
<1>4. CASE CommitRow(p)
  BY <1>4, CommitRowKeeps DEF CommitRow
<1>5. CASE FindDemo(p)
  <2>1. p \in Seeders /\ pc[p] = "find_application" /\ pending[p] = {}
        /\ p \in Processes
    BY <1>5 DEF FindDemo, KeyInv, Holdings
  <2>2. CASE \E row \in DemoSeen(p) : /\ app' = [app EXCEPT ![p] = row.id]
                                      /\ Goto(p, "find_environment")
    <3>1. PICK row \in DemoSeen(p) : app' = [app EXCEPT ![p] = row.id]
      BY <2>2
    <3>2. row.id \in Ids
      BY <2>1 DEF DemoSeen, Visible, KeyInv, CatalogueTypeOK, Rows
    <3>3. /\ app' \in [Seeders -> Ids \cup {NoId}] /\ app'[p] \in Ids
          /\ \A other \in Seeders \ {p} : app'[other] = app[other]
      BY <2>1, <3>1, <3>2 DEF KeyInv, CatalogueTypeOK
    <3> QED BY <1>5, <2>1, <2>2, <3>3, SeedReadKeeps
            DEF FindDemo, SeederSteps, Steps
  <2>3. CASE Goto(p, "insert_application") /\ UNCHANGED app
    <3>1. app' \in [Seeders -> Ids \cup {NoId}]
      BY <2>3 DEF KeyInv, CatalogueTypeOK
    <3> QED BY <1>5, <2>1, <2>3, <3>1, SeedReadKeeps
            DEF FindDemo, SeederSteps, Steps
  <2> QED BY <1>5, <2>2, <2>3 DEF FindDemo
<1>6. CASE InsertDemo(p)
  <2>1. p \in Seeders /\ pending[p] = {} /\ p \notin Workers
    BY <1>1, <1>6, PlacesOf
       DEF InsertDemo, KeyInv, Positions, Holdings, WorkerSteps
  <2>2. CASE \E id \in Ids : /\ Insert(p, AppKey(DemoSlug), id)
                             /\ app' = [app EXCEPT ![p] = id]
                             /\ Goto(p, "find_environment")
                             /\ UNCHANGED failures
    <3>1. PICK id \in Ids : /\ Insert(p, AppKey(DemoSlug), id)
                            /\ app' = [app EXCEPT ![p] = id]
      BY <2>2
    <3>2. /\ app' \in [Seeders -> Ids \cup {NoId}] /\ app'[p] \in Ids
          /\ \A other \in Seeders \ {p} : app'[other] = app[other]
      BY <2>1, <3>1 DEF KeyInv, CatalogueTypeOK
    <3> QED BY <1>6, <2>1, <2>2, <3>1, <3>2, SeedInsertKeeps, UniqueKeyTypes
            DEF InsertDemo
  <2>3. CASE SeedFails(p, AppKey(DemoSlug))
    BY <1>6, <2>1, <2>3, SeedFailsKeeps DEF InsertDemo
  <2> QED BY <1>6, <2>2, <2>3 DEF InsertDemo
<1>7. CASE FindProduction(p)
  <2>1. /\ pc[p] = "find_environment" /\ UNCHANGED <<rows, key, app>>
        /\ UNCHANGED <<pending, answer, failures>>
        /\ \/ Goto(p, "insert_environment")
           \/ Goto(p, "commit")
    BY <1>7 DEF FindProduction
  <2>2. /\ p \in Seeders /\ app[p] \in Ids
        /\ \A x \in pending[p] : x.key = AppKey(DemoSlug)
    BY <1>1, <2>1 DEF KeyInv, Positions, Holdings, WorkerSteps
  <2>3. app' \in [Seeders -> Ids \cup {NoId}]
    BY <2>1 DEF KeyInv, CatalogueTypeOK
  <2> QED BY <2>1, <2>2, <2>3, SeedReadKeeps DEF SeederSteps, Steps
<1>8. CASE InsertProduction(p)
  <2>1. /\ pc[p] = "insert_environment" /\ UNCHANGED <<rows, key, answer>>
    BY <1>8 DEF InsertProduction
  <2>2. /\ p \in Seeders /\ app[p] \in Ids
        /\ \A x \in pending[p] : x.key = AppKey(DemoSlug)
    BY <1>1, <2>1 DEF KeyInv, Positions, Holdings, WorkerSteps
  <2>3. EnvKey(app[p], DemoName) \in UniqueKeys
    BY <2>2, UniqueKeyTypes
  <2>4. CASE /\ \E id \in Ids :
                    IsNew(id) /\ Insert(p, EnvKey(app[p], DemoName), id)
             /\ Goto(p, "commit") /\ UNCHANGED <<app, failures>>
    <3>1. \A x \in pending[p] : x.key # EnvKey(app[p], DemoName)
      BY <2>2, KeysDiffer
    <3>2. app' \in [Seeders -> Ids \cup {NoId}] /\ UNCHANGED app
      BY <2>4 DEF KeyInv, CatalogueTypeOK
    <3>3. PICK id \in Ids : Insert(p, EnvKey(app[p], DemoName), id)
      BY <2>4
    <3> QED BY <2>1, <2>2, <2>3, <2>4, <3>1, <3>2, <3>3, SeedInsertKeeps
  <2>5. CASE SeedFails(p, EnvKey(app[p], DemoName))
    BY <2>1, <2>2, <2>5, SeedFailsKeeps
  <2> QED BY <1>8, <2>4, <2>5 DEF InsertProduction
<1>9. CASE CommitSeed(p)
  BY <1>9, CommitSeedKeeps DEF CommitSeed
<1> QED BY <1>2, <1>3, <1>4, <1>5, <1>6, <1>7, <1>8, <1>9 DEF Continue

\* A run of seed() begins with nothing.
LEMMA StartSeedKeeps ==
    ASSUME KeyInv, NEW s \in Seeders, StartSeed(s)
    PROVE  KeyInv'
<1>1. s \in Processes /\ pc[s] = "idle" /\ pending[s] = {}
  BY PlacesOf DEF StartSeed, KeyInv, Holdings
<1>2. /\ app' \in [Seeders -> Ids \cup {NoId}]
      /\ \A other \in Seeders \ {s} : app'[other] = app[other]
  BY DEF StartSeed, KeyInv, CatalogueTypeOK
<1> QED BY <1>1, <1>2, SeedReadKeeps DEF StartSeed, SeederSteps, Steps

\* Every step keeps the invariant of the keys.
LEMMA KeyStep == KeyInv /\ [CatalogueNext]_catalogueVars => KeyInv'
<1> SUFFICES ASSUME KeyInv, [CatalogueNext]_catalogueVars PROVE KeyInv'
  OBVIOUS
<1>1. CASE \E w \in Workers, slug \in Slugs : CreateApplication(w, slug)
  BY <1>1, ReceiveKeeps, UniqueKeyTypes DEF CreateApplication
<1>2. CASE \E w \in Workers, a \in Ids, name \in Names :
               CreateEnvironment(w, a, name)
  BY <1>2, ReceiveKeeps, UniqueKeyTypes DEF CreateEnvironment
<1>3. CASE \E s \in Seeders : StartSeed(s)
  BY <1>3, StartSeedKeeps
<1>4. CASE \E p \in Processes : Continue(p)
  BY <1>4, ContinueKeeps
<1>5. CASE \E p \in Processes : Crash(p)
  BY <1>5, CrashKeeps
<1>6. CASE UNCHANGED catalogueVars
  <2>1. UNCHANGED <<rows, pc, key, app, pending, answer, failures>>
    BY <1>6 DEF catalogueVars
  <2>2. CatalogueTypeOK' /\ Positions' /\ Holdings'
    BY <2>1 DEF KeyInv, CatalogueTypeOK, Positions, Holdings
  <2>3. KeysApart' /\ OneRowPerKey'
    BY <2>1 DEF KeyInv, KeysApart, OneRowPerKey
  <2>4. AnswersPrepared' /\ AnswersStayTrue'
    BY <2>1 DEF KeyInv, AnswersPrepared, AnswersStayTrue
  <2> QED BY <2>2, <2>3, <2>4 DEF KeyInv
<1> QED BY <1>1, <1>2, <1>3, <1>4, <1>5, <1>6 DEF CatalogueNext

\* Every variable of the catalogue holds a value of its type, for any numbers
\* of requests and seeds at a time.
THEOREM CatalogueTypes == CatalogueSpec => []CatalogueTypeOK
<1>1. KeyInv => CatalogueTypeOK
  BY DEF KeyInv
<1> QED BY <1>1, InitKeys, KeyStep, PTL DEF CatalogueSpec

\* A slug names one application, and a name one environment of it, however
\* many requests and seeds look for a free key at the same time.
THEOREM KeysAreUnique == CatalogueSpec => []OneRowPerKey
<1>1. KeyInv => OneRowPerKey
  BY DEF KeyInv
<1> QED BY <1>1, InitKeys, KeyStep, PTL DEF CatalogueSpec

\* 201 and 409 are true when they are given, and stay true.
THEOREM AnswersAreTrue == CatalogueSpec => []AnswersStayTrue
<1>1. KeyInv => AnswersStayTrue
  BY DEF KeyInv
<1> QED BY <1>1, InitKeys, KeyStep, PTL DEF CatalogueSpec

-------------------------------------------------------------------------------
(* The demo rows.                                                          *)

\* A transaction holds rows of its own; those of a seed are its application
\* and, at its commit, the environment of that application is there.
SeedHoldings ==
    /\ \A p \in Processes : \A x \in pending[p] : x.by = p
    /\ \A s \in Seeders : \A x \in pending[s] :
           x.key = AppKey(DemoSlug) => x.id = app[s]
    /\ \A s \in Seeders : pc[s] = "commit" =>
           \E x \in rows \cup pending[s] : x.key = EnvKey(app[s], DemoName)

SeedInv == KeyInv /\ SeedHoldings /\ NoHalfSeed

\* The row an INSERT adds to what the transaction holds.
LEMMA InsertHolds ==
    ASSUME RowTypes, NEW p \in Processes, NEW k, NEW id, Insert(p, k, id)
    PROVE  /\ pending'[p] = pending[p] \cup {[id |-> id, key |-> k, by |-> p]}
           /\ \A q \in Processes \ {p} : pending'[q] = pending[q]
BY DEF Insert, RowTypes

\* Requests neither make nor take demo rows of a seed.
LEMMA WorkerKeepsSeeds ==
    ASSUME SeedInv, NEW w \in Workers,
           \A s \in Seeders : pc'[s] = pc[s],
           \A p \in Processes \ {w} : pending'[p] = pending[p],
           \A x \in pending'[w] : x.by = w,
           rows' = rows \/ rows' = rows \cup pending[w],
           UNCHANGED app
    PROVE  SeedHoldings' /\ NoHalfSeed'
<1>1. w \in Processes /\ w \notin Seeders /\ Seeders \subseteq Processes
  BY PlacesOf
<1>2. rows \subseteq rows' /\ \A x \in rows' \ rows : x.by = w
  BY <1>1 DEF SeedInv, SeedHoldings
<1>3. NoHalfSeed'
  BY <1>1, <1>2 DEF SeedInv, NoHalfSeed, HasProduction
<1>4. SeedHoldings'
  BY <1>1, <1>2 DEF SeedInv, SeedHoldings
<1> QED BY <1>3, <1>4

\* A process that drops what it holds, or a seed that writes nothing.
LEMMA NoRowsKeepsSeeds ==
    ASSUME SeedInv, NEW p \in Processes,
           pending' = [pending EXCEPT ![p] = {}] \/ UNCHANGED pending,
           UNCHANGED rows, pc' \in [Processes -> Steps],
           \A q \in Processes \ {p} : pc'[q] = pc[q],
           \A s \in Seeders \ {p} : app'[s] = app[s],
           p \in Seeders => app'[p] = app[p] \/ pending'[p] = {},
           p \in Seeders /\ pc'[p] = "commit" =>
               \E x \in rows \cup pending'[p] :
                   x.key = EnvKey(app'[p], DemoName)
    PROVE  SeedHoldings' /\ NoHalfSeed'
<1>1. /\ \A q \in Processes : pending'[q] \subseteq pending[q]
      /\ \A q \in Processes \ {p} : pending'[q] = pending[q]
  BY DEF SeedInv, KeyInv, CatalogueTypeOK
<1>2. Seeders \subseteq Processes
  BY PlacesOf
<1>3. NoHalfSeed'
  BY DEF SeedInv, NoHalfSeed, HasProduction
<1>4. \A s \in Seeders : \A x \in pending'[s] :
          x.key = AppKey(DemoSlug) => x.id = app'[s]
  BY <1>1, <1>2 DEF SeedInv, SeedHoldings
<1>5. \A s \in Seeders : pc'[s] = "commit" =>
          \E x \in rows' \cup pending'[s] : x.key = EnvKey(app'[s], DemoName)
  BY <1>1, <1>2 DEF SeedInv, SeedHoldings
<1> QED BY <1>1, <1>3, <1>4, <1>5 DEF SeedInv, SeedHoldings

\* seed() inserts its application.
LEMMA InsertDemoKeepsSeeds ==
    ASSUME SeedInv, NEW s \in Seeders, NEW id \in Ids, pending[s] = {},
           Insert(s, AppKey(DemoSlug), id), app' = [app EXCEPT ![s] = id],
           Goto(s, "find_environment"), UNCHANGED rows
    PROVE  SeedHoldings' /\ NoHalfSeed'
<1> DEFINE new == [id |-> id, key |-> AppKey(DemoSlug), by |-> s]
<1>1. s \in Processes /\ Seeders \subseteq Processes
  BY PlacesOf
<1>2. /\ pending'[s] = {new}
      /\ \A q \in Processes \ {s} : pending'[q] = pending[q]
  BY <1>1, InsertHolds DEF SeedInv, KeyInv, CatalogueTypeOK, RowTypes
<1>3. /\ app'[s] = id /\ \A other \in Seeders \ {s} : app'[other] = app[other]
      /\ pc'[s] # "commit"
      /\ \A other \in Processes \ {s} : pc'[other] = pc[other]
  BY <1>1 DEF SeedInv, KeyInv, CatalogueTypeOK, Goto
<1>4. new.by = s /\ new.id = id
  OBVIOUS
<1> HIDE DEF new
<1>5. \A x \in pending'[s] : x.by = s /\ x.id = app'[s]
  BY <1>2, <1>3, <1>4
<1>6. \A p \in Processes : \A x \in pending'[p] : x.by = p
  BY <1>2, <1>5 DEF SeedInv, SeedHoldings
<1>7. \A q \in Seeders : \A x \in pending'[q] :
          x.key = AppKey(DemoSlug) => x.id = app'[q]
  BY <1>1, <1>2, <1>3, <1>5 DEF SeedInv, SeedHoldings
<1>8. ASSUME NEW q \in Seeders, pc'[q] = "commit"
      PROVE  \E x \in rows' \cup pending'[q] : x.key = EnvKey(app'[q], DemoName)
  <2>1. q # s /\ q \in Processes
    BY <1>1, <1>3, <1>8
  <2>2. pc[q] = "commit" /\ pending'[q] = pending[q] /\ app'[q] = app[q]
    BY <1>2, <1>3, <1>8, <2>1
  <2> QED BY <2>2 DEF SeedInv, SeedHoldings
<1>9. NoHalfSeed'
  BY DEF SeedInv, NoHalfSeed, HasProduction
<1> QED BY <1>6, <1>7, <1>8, <1>9 DEF SeedHoldings

\* seed() inserts the environment.
LEMMA InsertProductionKeepsSeeds ==
    ASSUME SeedInv, NEW s \in Seeders, NEW id \in Ids,
           Insert(s, EnvKey(app[s], DemoName), id),
           Goto(s, "commit"), UNCHANGED <<rows, app>>
    PROVE  SeedHoldings' /\ NoHalfSeed'
<1> DEFINE new == [id |-> id, key |-> EnvKey(app[s], DemoName), by |-> s]
<1>1. s \in Processes /\ Seeders \subseteq Processes
  BY PlacesOf
<1>2. /\ pending'[s] = pending[s] \cup {new}
      /\ \A q \in Processes \ {s} : pending'[q] = pending[q]
      /\ \A q \in Processes \ {s} : pc'[q] = pc[q]
  BY <1>1, InsertHolds DEF SeedInv, KeyInv, CatalogueTypeOK, RowTypes, Goto
<1>3. /\ new.by = s /\ new.key = EnvKey(app[s], DemoName)
      /\ new.key # AppKey(DemoSlug)
  BY KeysDiffer
<1> HIDE DEF new
<1>4. SeedHoldings'
  BY <1>1, <1>2, <1>3 DEF SeedInv, SeedHoldings
<1>5. NoHalfSeed'
  BY DEF SeedInv, NoHalfSeed, HasProduction
<1> QED BY <1>4, <1>5

\* seed() commits the two together.
LEMMA CommitSeedKeepsSeeds ==
    ASSUME SeedInv, NEW s \in Seeders, CommitSeed(s)
    PROVE  SeedHoldings' /\ NoHalfSeed'
<1>1. s \in Processes /\ Seeders \subseteq Processes
  BY PlacesOf
<1>2. /\ rows' = rows \cup pending[s] /\ UNCHANGED app /\ pc[s] = "commit"
      /\ pending'[s] = {} /\ pc'[s] = "seeded"
      /\ \A q \in Processes \ {s} : pending'[q] = pending[q] /\ pc'[q] = pc[q]
  BY <1>1 DEF CommitSeed, CommitRows, Goto, SeedInv, KeyInv, CatalogueTypeOK
<1>3. PICK x \in rows' : x.key = EnvKey(app[s], DemoName)
  BY <1>2 DEF SeedInv, SeedHoldings
<1>4. NoHalfSeed'
  <2> SUFFICES ASSUME NEW row \in rows', row.by \in Seeders,
                      row.key = AppKey(DemoSlug)
               PROVE  HasProduction(row.id)'
    BY DEF NoHalfSeed
  <2>1. CASE row \in rows
    BY <1>2, <2>1 DEF SeedInv, NoHalfSeed, HasProduction
  <2>2. CASE row \in pending[s]
    BY <1>3, <2>2 DEF SeedInv, SeedHoldings, HasProduction
  <2> QED BY <1>2, <2>1, <2>2
<1>5. SeedHoldings'
  BY <1>1, <1>2 DEF SeedInv, SeedHoldings
<1> QED BY <1>4, <1>5

\* The requests' statements.
LEMMA RequestKeepsSeeds ==
    ASSUME SeedInv, NEW w \in Workers,
           GetApplication(w) \/ InsertRow(w) \/ CommitRow(w)
    PROVE  SeedHoldings' /\ NoHalfSeed'
<1>1. /\ w \in Processes /\ w \notin Seeders /\ Seeders \subseteq Processes
      /\ RowTypes /\ pc \in [Processes -> Steps] /\ UNCHANGED app
      /\ \A x \in pending[w] : x.by = w
  BY PlacesOf DEF SeedInv, SeedHoldings, KeyInv, CatalogueTypeOK, RowTypes,
     GetApplication, InsertRow, CommitRow
<1>2. \A s \in Seeders : pc'[s] = pc[s]
  BY <1>1 DEF GetApplication, InsertRow, CommitRow, Goto, Answer
<1>3. CASE GetApplication(w)
  BY <1>1, <1>2, <1>3, WorkerKeepsSeeds DEF GetApplication
<1>4. CASE CommitRow(w)
  <2>1. /\ rows' = rows \cup pending[w] /\ pending'[w] = {}
        /\ \A p \in Processes \ {w} : pending'[p] = pending[p]
    BY <1>1, <1>4 DEF CommitRow, CommitRows, RowTypes
  <2> QED BY <1>1, <1>2, <2>1, WorkerKeepsSeeds
<1>5. CASE InsertRow(w)
  <2>1. /\ \A p \in Processes \ {w} : pending'[p] = pending[p]
        /\ \A x \in pending'[w] : x.by = w
        /\ UNCHANGED rows
    <3>1. CASE InsertFails(w, key[w])
      BY <1>1, <1>5, <3>1 DEF InsertFails, InsertRow, RowTypes
    <3>2. CASE \E id \in Ids : Insert(w, key[w], id)
      <4>1. PICK id \in Ids : Insert(w, key[w], id)
        BY <3>2
      <4> DEFINE new == [id |-> id, key |-> key[w], by |-> w]
      <4>2. /\ pending'[w] = pending[w] \cup {new}
            /\ \A p \in Processes \ {w} : pending'[p] = pending[p]
        BY <1>1, <4>1, InsertHolds
      <4>3. new.by = w
        OBVIOUS
      <4> HIDE DEF new
      <4> QED BY <1>1, <1>5, <4>2, <4>3 DEF InsertRow
    <3> QED BY <1>5, <3>1, <3>2 DEF InsertRow
  <2> QED BY <1>1, <1>2, <2>1, WorkerKeepsSeeds
<1> QED BY <1>3, <1>4, <1>5

\* The statements of seed().
LEMMA SeedKeepsSeeds ==
    ASSUME SeedInv, NEW s \in Seeders,
           FindDemo(s) \/ InsertDemo(s) \/ FindProduction(s)
               \/ InsertProduction(s)
    PROVE  SeedHoldings' /\ NoHalfSeed'
<1>1. /\ s \in Processes /\ Seeders \subseteq Processes
      /\ pc \in [Processes -> Steps]
      /\ app \in [Seeders -> Ids \cup {NoId}]
      /\ Positions /\ Holdings
  BY PlacesOf DEF SeedInv, KeyInv, CatalogueTypeOK
<1>2. ASSUME NEW k, SeedFails(s, k), UNCHANGED rows
      PROVE  SeedHoldings' /\ NoHalfSeed'
  BY <1>1, <1>2, NoRowsKeepsSeeds DEF SeedFails, InsertFails, Goto, Steps
<1>3. CASE FindDemo(s)
  <2>1. /\ UNCHANGED <<rows, pending>> /\ pending[s] = {}
        /\ \A other \in Seeders \ {s} : app'[other] = app[other]
        /\ pc' = [pc EXCEPT ![s] = "find_environment"]
           \/ pc' = [pc EXCEPT ![s] = "insert_application"]
    BY <1>1, <1>3 DEF FindDemo, Goto, Holdings
  <2> QED BY <1>1, <2>1, NoRowsKeepsSeeds DEF Steps
<1>4. CASE InsertDemo(s)
  <2>1. pending[s] = {}
    BY <1>1, <1>4 DEF InsertDemo, Holdings
  <2> QED BY <1>2, <1>4, <2>1, InsertDemoKeepsSeeds DEF InsertDemo
<1>5. CASE FindProduction(s)
  <2>1. UNCHANGED <<rows, app, pending>>
    BY <1>5 DEF FindProduction
  <2>2. CASE Visible(s, EnvKey(app[s], DemoName)) = {}
    <3>1. pc' = [pc EXCEPT ![s] = "insert_environment"]
      BY <1>5, <2>2 DEF FindProduction, Goto
    <3> QED BY <1>1, <2>1, <3>1, NoRowsKeepsSeeds DEF Steps
  <2>3. CASE Visible(s, EnvKey(app[s], DemoName)) # {}
    <3>1. /\ pc' = [pc EXCEPT ![s] = "commit"]
          /\ \E x \in rows \cup pending[s] : x.key = EnvKey(app[s], DemoName)
      BY <1>5, <2>3 DEF FindProduction, Goto, Visible
    <3> QED BY <1>1, <2>1, <3>1, NoRowsKeepsSeeds DEF Steps
  <2> QED BY <2>2, <2>3
<1>6. CASE InsertProduction(s)
  BY <1>2, <1>6, InsertProductionKeepsSeeds DEF InsertProduction
<1> QED BY <1>3, <1>4, <1>5, <1>6

\* A new request, a new run of seed() and a crash.
LEMMA EndsKeepSeeds ==
    ASSUME SeedInv, NEW p \in Processes,
           \/ Crash(p)
           \/ p \in Seeders /\ StartSeed(p)
           \/ \E k \in UniqueKeys, step \in {"insert", "find_application"} :
                  p \in Workers /\ Receive(p, k, step)
    PROVE  SeedHoldings' /\ NoHalfSeed'
<1>1. /\ pc \in [Processes -> Steps] /\ Holdings
      /\ app \in [Seeders -> Ids \cup {NoId}]
  BY DEF SeedInv, KeyInv, CatalogueTypeOK
<1>2. CASE Crash(p)
  BY <1>1, <1>2, NoRowsKeepsSeeds DEF Crash, Goto, Steps
<1>3. CASE p \in Seeders /\ StartSeed(p)
  <2>1. pending[p] = {}
    BY <1>1, <1>3 DEF StartSeed, Holdings
  <2>2. \A other \in Seeders \ {p} : app'[other] = app[other]
    BY <1>1, <1>3 DEF StartSeed
  <2> QED BY <1>1, <1>3, <2>1, <2>2, NoRowsKeepsSeeds DEF StartSeed, Goto, Steps
<1>4. CASE \E k \in UniqueKeys, step \in {"insert", "find_application"} :
               p \in Workers /\ Receive(p, k, step)
  <2>1. PICK k \in UniqueKeys, step \in {"insert", "find_application"} :
            p \in Workers /\ Receive(p, k, step)
    BY <1>4
  <2> QED BY <1>1, <2>1, PlacesOf, NoRowsKeepsSeeds DEF Receive, Goto, Steps
<1> QED BY <1>2, <1>3, <1>4

\* The invariant of the demo rows holds before the first seed.
LEMMA InitSeeds == CatalogueInit => SeedInv
<1> SUFFICES ASSUME CatalogueInit PROVE SeedInv
  OBVIOUS
<1>1. SeedHoldings /\ NoHalfSeed
  BY PlacesOf DEF CatalogueInit, SeedHoldings, NoHalfSeed
<1> QED BY <1>1, InitKeys DEF SeedInv

\* Every step keeps the invariant of the demo rows.
LEMMA SeedStep == SeedInv /\ [CatalogueNext]_catalogueVars => SeedInv'
<1> SUFFICES ASSUME SeedInv, [CatalogueNext]_catalogueVars PROVE SeedInv'
  OBVIOUS
<1>1. KeyInv'
  BY KeyStep DEF SeedInv
<1>2. CASE \E w \in Workers, slug \in Slugs : CreateApplication(w, slug)
  <2>1. PICK w \in Workers, slug \in Slugs : Receive(w, AppKey(slug), "insert")
    BY <1>2 DEF CreateApplication
  <2>2. w \in Processes /\ AppKey(slug) \in UniqueKeys
    BY PlacesOf, UniqueKeyTypes
  <2> QED BY <1>1, <2>1, <2>2, EndsKeepSeeds DEF SeedInv
<1>3. CASE \E w \in Workers, a \in Ids, name \in Names :
               CreateEnvironment(w, a, name)
  <2>1. PICK w \in Workers, a \in Ids, name \in Names :
            Receive(w, EnvKey(a, name), "find_application")
    BY <1>3 DEF CreateEnvironment
  <2>2. w \in Processes /\ EnvKey(a, name) \in UniqueKeys
    BY PlacesOf, UniqueKeyTypes
  <2> QED BY <1>1, <2>1, <2>2, EndsKeepSeeds DEF SeedInv
<1>4. CASE \E s \in Seeders : StartSeed(s)
  BY <1>1, <1>4, PlacesOf, EndsKeepSeeds DEF SeedInv
<1>5. CASE \E p \in Processes : Continue(p)
  <2>1. PICK p \in Processes : Continue(p)
    BY <1>5
  <2>2. CASE p \in Workers
    <3>1. p \notin Seeders
      BY <2>2, PlacesOf
    <3>2. CASE GetApplication(p) \/ InsertRow(p) \/ CommitRow(p)
      BY <1>1, <2>2, <3>2, RequestKeepsSeeds DEF SeedInv
    <3>3. ~InsertDemo(p) /\ ~FindProduction(p) /\ ~InsertProduction(p)
      BY <2>2, <3>1
         DEF SeedInv, KeyInv, Positions, WorkerSteps, InsertDemo,
             FindProduction, InsertProduction
    <3> QED BY <2>1, <3>1, <3>2, <3>3 DEF Continue, FindDemo, CommitSeed
  <2>3. CASE p \in Seeders
    <3>1. p \notin Workers
      BY <2>3, PlacesOf
    <3>2. CASE FindDemo(p) \/ InsertDemo(p) \/ FindProduction(p)
                   \/ InsertProduction(p)
      BY <1>1, <2>3, <3>2, SeedKeepsSeeds DEF SeedInv
    <3>3. CASE CommitSeed(p)
      BY <1>1, <2>3, <3>3, CommitSeedKeepsSeeds DEF SeedInv
    <3> QED BY <2>1, <3>1, <3>2, <3>3
            DEF Continue, GetApplication, InsertRow, CommitRow
  <2> QED BY <2>2, <2>3 DEF Processes
<1>6. CASE \E p \in Processes : Crash(p)
  BY <1>1, <1>6, EndsKeepSeeds DEF SeedInv
<1>7. CASE UNCHANGED catalogueVars
  <2>1. UNCHANGED <<rows, pc, app, pending>>
    BY <1>7 DEF catalogueVars
  <2> QED BY <1>1, <2>1
          DEF SeedInv, SeedHoldings, NoHalfSeed, HasProduction
<1> QED BY <1>2, <1>3, <1>4, <1>5, <1>6, <1>7 DEF CatalogueNext

\* No seed leaves the demo application without its environment, wherever it
\* fails or crashes and whoever else inserts either of them.
THEOREM SeedsAreWhole == CatalogueSpec => []NoHalfSeed
<1>1. SeedInv => NoHalfSeed
  BY DEF SeedInv
<1> QED BY <1>1, InitSeeds, SeedStep, PTL DEF CatalogueSpec

-------------------------------------------------------------------------------
(* How often a seed fails.                                                 *)

\* No two rows have one identifier.
IdsApart ==
    /\ \A p \in Processes : \A x \in pending[p], y \in rows : x.id # y.id
    /\ \A p, q \in Processes : \A x \in pending[p], y \in pending[q] :
           x.id = y.id => p = q /\ x = y

\* The key k is that of an environment of application a.
IsEnvironmentOf(k, a) == \E name \in Names : k = EnvKey(a, name)

HasId(S, a) == \E x \in S : x.id = a

\* An environment has its application, committed or in its own transaction.
ParentsExist ==
    /\ \A x \in rows, a \in Ids :
           IsEnvironmentOf(x.key, a) => HasId(rows, a)
    /\ \A p \in Processes : \A x \in pending[p], a \in Ids :
           IsEnvironmentOf(x.key, a) => HasId(rows \cup pending[p], a)

\* A request inserts an environment only under an application it has found.
Asked(w) ==
    pc[w] = "insert" =>
        \A a \in Ids : IsEnvironmentOf(key[w], a) => HasId(rows, a)

\* seed() looks for the environment of the demo application it has seen.
Found(s) ==
    pc[s] \in {"find_environment", "insert_environment"} =>
        \E x \in rows \cup pending[s] :
            x.key = AppKey(DemoSlug) /\ x.id = app[s]

DemoIsWhole ==
    \E x \in rows : x.key = AppKey(DemoSlug) /\ HasProduction(x.id)

\* A seed that has failed left the application behind, and one that has failed
\* again the environment: it goes no more to the INSERT that failed.
Tried(s) ==
    /\ failures[s] <= 2
    /\ failures[s] >= 1 => Taken(AppKey(DemoSlug))
    /\ failures[s] = 2 => DemoIsWhole
    /\ pc[s] = "insert_application" => failures[s] = 0
    /\ pc[s] = "insert_environment" => failures[s] <= 1

TriesInv ==
    /\ SeedInv
    /\ IdsApart
    /\ ParentsExist
    /\ \A w \in Workers : Asked(w)
    /\ \A s \in Seeders : Found(s) /\ Tried(s)

\* The identifier INSERT gives a row is that of no other row.
LEMMA InsertKeepsIds ==
    ASSUME RowTypes, IdsApart, ParentsExist, NEW p \in Processes, NEW k,
           NEW id \in Ids, IsNew(id), Insert(p, k, id), UNCHANGED rows,
           \A a \in Ids : IsEnvironmentOf(k, a) =>
               HasId(rows \cup pending[p], a)
    PROVE  IdsApart' /\ ParentsExist'
<1> DEFINE new == [id |-> id, key |-> k, by |-> p]
<1>1. /\ pending'[p] = pending[p] \cup {new}
      /\ \A q \in Processes \ {p} : pending'[q] = pending[q]
  BY InsertHolds
<1>2. new.id = id /\ new.key = k
  OBVIOUS
<1>3. /\ \A y \in rows : y.id # id
      /\ \A q \in Processes : \A y \in pending[q] : y.id # id
  BY DEF IsNew, UnusedIds, Uncommitted
<1> HIDE DEF new
<1>4. \A q \in Processes : \A x \in pending'[q], y \in rows' : x.id # y.id
  BY <1>1, <1>2, <1>3 DEF IdsApart
<1>5. ASSUME NEW q \in Processes, NEW q2 \in Processes,
             NEW x \in pending'[q], NEW y \in pending'[q2], x.id = y.id
      PROVE  q = q2 /\ x = y
  <2>1. (x = new /\ q = p) \/ x \in pending[q]
    BY <1>1
  <2>2. (y = new /\ q2 = p) \/ y \in pending[q2]
    BY <1>1
  <2> QED BY <1>2, <1>3, <1>5, <2>1, <2>2 DEF IdsApart
<1>6. \A x \in rows', a \in Ids : IsEnvironmentOf(x.key, a) => HasId(rows', a)
  BY DEF ParentsExist
<1>7. ASSUME NEW q \in Processes, NEW x \in pending'[q], NEW a \in Ids,
             IsEnvironmentOf(x.key, a)
      PROVE  HasId(rows' \cup pending'[q], a)
  <2>1. pending[q] \subseteq pending'[q]
    BY <1>1
  <2>2. CASE x \in pending[q]
    BY <1>7, <2>1, <2>2 DEF ParentsExist, HasId
  <2>3. CASE x \notin pending[q]
    <3>1. x = new /\ q = p
      BY <1>1, <2>3
    <3> QED BY <1>2, <1>7, <2>1, <3>1 DEF HasId
  <2> QED BY <2>2, <2>3
<1> QED BY <1>4, <1>5, <1>6, <1>7 DEF IdsApart, ParentsExist

\* A transaction that drops what it holds, or changes nothing, moves no
\* identifier.
LEMMA DropKeepsIds ==
    ASSUME RowTypes, IdsApart, ParentsExist, NEW p \in Processes,
           pending' = [pending EXCEPT ![p] = {}] \/ UNCHANGED pending,
           UNCHANGED rows
    PROVE  IdsApart' /\ ParentsExist'
<1>1. \A q \in Processes : pending'[q] = {} \/ pending'[q] = pending[q]
  BY DEF RowTypes
<1> QED BY <1>1 DEF IdsApart, ParentsExist

\* A commit moves the identifiers of a transaction to the table, applications
\* and environments together.
LEMMA CommitKeepsIds ==
    ASSUME RowTypes, IdsApart, ParentsExist, NEW p \in Processes, CommitRows(p)
    PROVE  IdsApart' /\ ParentsExist'
<1>1. /\ rows' = rows \cup pending[p] /\ pending'[p] = {}
      /\ \A q \in Processes \ {p} : pending'[q] = pending[q]
  BY DEF CommitRows, RowTypes
<1>2. ASSUME NEW q \in Processes, NEW x \in pending'[q], NEW y \in rows'
      PROVE  x.id # y.id
  <2>1. x \in pending[q] /\ q # p
    BY <1>1
  <2>2. CASE y \in rows
    BY <2>1, <2>2 DEF IdsApart
  <2>3. CASE y \in pending[p]
    BY <1>1, <1>2, <2>1, <2>3 DEF IdsApart
  <2> QED BY <1>1, <2>2, <2>3
<1>3. ParentsExist'
  BY <1>1 DEF ParentsExist, HasId
<1>4. \A q, q2 \in Processes : \A x \in pending'[q], y \in pending'[q2] :
          x.id = y.id => q = q2 /\ x = y
  BY <1>1 DEF IdsApart
<1> QED BY <1>2, <1>3, <1>4 DEF IdsApart

\* The step of p takes no row away, and nothing from another process.
StepOfOne(p) ==
    /\ rows \subseteq rows'
    /\ \A q \in Processes \ {p} :
           pending'[q] = pending[q] /\ pc'[q] = pc[q] /\ key'[q] = key[q]
    /\ \A s \in Seeders \ {p} :
           app'[s] = app[s] /\ failures'[s] = failures[s]

\* What a process knows of the rows stays true while another takes a step.
LEMMA OthersKnow ==
    ASSUME TriesInv, NEW p \in Processes, StepOfOne(p)
    PROVE  /\ \A w \in Workers \ {p} : Asked(w)'
           /\ \A s \in Seeders \ {p} : Found(s)' /\ Tried(s)'
<1>1. /\ \A w \in Workers \ {p} : w \in Processes \ {p}
      /\ \A s \in Seeders \ {p} : s \in Processes \ {p}
  BY PlacesOf
<1>2. rows \subseteq rows'
  BY DEF StepOfOne
<1>3. ASSUME NEW w \in Workers \ {p} PROVE Asked(w)'
  <2>1. pc'[w] = pc[w] /\ key'[w] = key[w]
    BY <1>1 DEF StepOfOne
  <2>2. Asked(w)
    BY DEF TriesInv
  <2> QED BY <1>2, <2>1, <2>2 DEF Asked, HasId
<1>4. ASSUME NEW s \in Seeders \ {p} PROVE Found(s)' /\ Tried(s)'
  <2>1. /\ pc'[s] = pc[s] /\ pending'[s] = pending[s]
        /\ app'[s] = app[s] /\ failures'[s] = failures[s]
    BY <1>1 DEF StepOfOne
  <2>2. Found(s) /\ Tried(s)
    BY DEF TriesInv
  <2>3. Found(s)'
    BY <1>2, <2>1, <2>2 DEF Found
  <2>4. Taken(AppKey(DemoSlug)) => Taken(AppKey(DemoSlug))'
    BY <1>2 DEF Taken
  <2>5. DemoIsWhole => DemoIsWhole'
    BY <1>2 DEF DemoIsWhole, HasProduction
  <2> QED BY <2>1, <2>2, <2>3, <2>4, <2>5 DEF Tried
<1> QED BY <1>3, <1>4

\* The statements of a request.
LEMMA RequestTries ==
    ASSUME TriesInv, NEW w \in Workers,
           GetApplication(w) \/ InsertRow(w) \/ CommitRow(w)
    PROVE  IdsApart' /\ ParentsExist' /\ Asked(w)' /\ StepOfOne(w)
<1>1. /\ w \in Processes /\ w \notin Seeders /\ RowTypes
      /\ pc \in [Processes -> Steps]
      /\ key \in [Processes -> UniqueKeys \cup {NoKey}]
      /\ IdsApart /\ ParentsExist /\ Asked(w)
  BY PlacesOf DEF TriesInv, SeedInv, KeyInv, CatalogueTypeOK, RowTypes
<1>2. CASE GetApplication(w)
  <2>1. UNCHANGED <<rows, pending, app, failures>>
    BY <1>2 DEF GetApplication
  <2>2. \A q \in Processes \ {w} : pc'[q] = pc[q] /\ key'[q] = key[q]
    BY <1>1, <1>2 DEF GetApplication, Goto, Answer
  <2>3. IdsApart' /\ ParentsExist'
    BY <1>1, <2>1, DropKeepsIds
  <2>4. Asked(w)'
    <3> SUFFICES ASSUME pc'[w] = "insert", NEW a \in Ids,
                        IsEnvironmentOf(key'[w], a)
                 PROVE  HasId(rows', a)
      BY DEF Asked
    <3>1. /\ \E row \in rows : row.id = key[w][2]
          /\ key' = key
      BY <1>1, <1>2 DEF GetApplication, Goto, Answer
    <3>2. key[w][2] = a
      BY <3>1 DEF IsEnvironmentOf, EnvKey
    <3> QED BY <2>1, <3>1, <3>2 DEF HasId
  <2> QED BY <1>1, <2>1, <2>2, <2>3, <2>4 DEF StepOfOne
<1>3. CASE InsertRow(w)
  <2>1. UNCHANGED <<rows, app, failures>> /\ pc[w] = "insert"
    BY <1>3 DEF InsertRow
  <2>2. \A q \in Processes \ {w} : pc'[q] = pc[q] /\ key'[q] = key[q]
    BY <1>1, <1>3 DEF InsertRow, Goto, Answer
  <2>3. Asked(w)'
    <3>1. pc'[w] # "insert"
      BY <1>1, <1>3 DEF InsertRow, Goto, Answer
    <3> QED BY <3>1 DEF Asked
  <2>4. CASE \E id \in Ids : IsNew(id) /\ Insert(w, key[w], id)
    <3>1. PICK id \in Ids : IsNew(id) /\ Insert(w, key[w], id)
      BY <2>4
    <3>2. \A q \in Processes \ {w} : pending'[q] = pending[q]
      BY <1>1, <3>1, InsertHolds
    <3>3. \A a \in Ids : IsEnvironmentOf(key[w], a) =>
              HasId(rows \cup pending[w], a)
      BY <1>1, <2>1 DEF Asked, HasId
    <3>4. IdsApart' /\ ParentsExist'
      BY <1>1, <2>1, <3>1, <3>3, InsertKeepsIds
    <3> QED BY <1>1, <2>1, <2>2, <2>3, <3>2, <3>4 DEF StepOfOne
  <2>5. CASE InsertFails(w, key[w])
    <3>1. pending' = [pending EXCEPT ![w] = {}]
      BY <2>5 DEF InsertFails
    <3>2. \A q \in Processes \ {w} : pending'[q] = pending[q]
      BY <1>1, <3>1 DEF RowTypes
    <3>3. IdsApart' /\ ParentsExist'
      BY <1>1, <2>1, <3>1, DropKeepsIds
    <3> QED BY <1>1, <2>1, <2>2, <2>3, <3>2, <3>3 DEF StepOfOne
  <2> QED BY <1>3, <2>4, <2>5 DEF InsertRow
<1>4. CASE CommitRow(w)
  <2>1. CommitRows(w) /\ UNCHANGED <<app, failures>>
    BY <1>4 DEF CommitRow
  <2>2. \A q \in Processes \ {w} : /\ pc'[q] = pc[q] /\ key'[q] = key[q]
                                   /\ pending'[q] = pending[q]
    BY <1>1, <1>4 DEF CommitRow, CommitRows, Goto, Answer, RowTypes
  <2>3. Asked(w)'
    <3>1. pc'[w] # "insert"
      BY <1>1, <1>4 DEF CommitRow, Goto, Answer
    <3> QED BY <3>1 DEF Asked
  <2>4. IdsApart' /\ ParentsExist'
    BY <1>1, <2>1, CommitKeepsIds
  <2>5. rows \subseteq rows'
    BY <2>1 DEF CommitRows
  <2> QED BY <1>1, <2>1, <2>2, <2>3, <2>4, <2>5 DEF StepOfOne
<1> QED BY <1>2, <1>3, <1>4

\* The INSERT of a seed fails because the row it wants is there: it counts the
\* error, and knows what to find in its next run.
LEMMA FailedSeedTries ==
    ASSUME TriesInv, NEW s \in Seeders, NEW k, SeedFails(s, k),
           UNCHANGED <<rows, key, answer>>,
           failures[s] <= 1, Taken(AppKey(DemoSlug)),
           failures[s] = 1 => DemoIsWhole
    PROVE  /\ IdsApart' /\ ParentsExist' /\ StepOfOne(s)
           /\ Found(s)' /\ Tried(s)'
<1>1. /\ s \in Processes /\ RowTypes /\ IdsApart /\ ParentsExist
      /\ pc \in [Processes -> Steps] /\ failures \in [Seeders -> Nat]
  BY PlacesOf DEF TriesInv, SeedInv, KeyInv, CatalogueTypeOK, RowTypes
<1>2. /\ pc' = [pc EXCEPT ![s] = "idle"]
      /\ pending' = [pending EXCEPT ![s] = {}]
      /\ failures' = [failures EXCEPT ![s] = @ + 1]
      /\ UNCHANGED <<rows, key, app>>
  BY DEF SeedFails, InsertFails, Goto
<1>3. IdsApart' /\ ParentsExist'
  BY <1>1, <1>2, DropKeepsIds
<1>4. /\ \A q \in Processes \ {s} :
             pending'[q] = pending[q] /\ pc'[q] = pc[q] /\ key'[q] = key[q]
      /\ \A other \in Seeders \ {s} :
             app'[other] = app[other] /\ failures'[other] = failures[other]
  BY <1>1, <1>2 DEF RowTypes
<1>5. pc'[s] = "idle" /\ failures'[s] = failures[s] + 1 /\ failures[s] \in Nat
  BY <1>1, <1>2
<1>6. Taken(AppKey(DemoSlug))' /\ (DemoIsWhole => DemoIsWhole')
  BY <1>2 DEF Taken, DemoIsWhole, HasProduction
<1>7. Found(s)'
  BY <1>5 DEF Found
<1>8. Tried(s)'
  BY <1>5, <1>6 DEF Tried
<1> QED BY <1>2, <1>3, <1>4, <1>7, <1>8 DEF StepOfOne

\* A statement of a seed that writes nothing.
LEMMA ReadingSeedTries ==
    ASSUME TriesInv, NEW s \in Seeders, NEW step \in Steps, Goto(s, step),
           UNCHANGED <<rows, key, pending, failures>>,
           \A other \in Seeders \ {s} : app'[other] = app[other]
    PROVE  /\ IdsApart' /\ ParentsExist' /\ StepOfOne(s)
           /\ pc'[s] = step /\ failures'[s] = failures[s]
           /\ failures[s] \in Nat
           /\ Taken(AppKey(DemoSlug))' = Taken(AppKey(DemoSlug))
           /\ DemoIsWhole' = DemoIsWhole
<1>1. /\ s \in Processes /\ RowTypes /\ IdsApart /\ ParentsExist
      /\ pc \in [Processes -> Steps] /\ failures \in [Seeders -> Nat]
  BY PlacesOf DEF TriesInv, SeedInv, KeyInv, CatalogueTypeOK, RowTypes
<1>2. IdsApart' /\ ParentsExist'
  BY <1>1, DropKeepsIds
<1>3. pc'[s] = step /\ \A q \in Processes \ {s} : pc'[q] = pc[q]
  BY <1>1 DEF Goto
<1>4. /\ Taken(AppKey(DemoSlug))' = Taken(AppKey(DemoSlug))
      /\ DemoIsWhole' = DemoIsWhole
  BY DEF Taken, DemoIsWhole, HasProduction
<1> QED BY <1>1, <1>2, <1>3, <1>4 DEF StepOfOne

\* seed() looks for the application: one that failed before finds it.
LEMMA FindDemoTries ==
    ASSUME TriesInv, NEW s \in Seeders, FindDemo(s)
    PROVE  /\ IdsApart' /\ ParentsExist' /\ StepOfOne(s)
           /\ Found(s)' /\ Tried(s)'
<1>1. /\ pc[s] = "find_application" /\ Tried(s)
      /\ UNCHANGED <<rows, key, pending, failures>>
      /\ app \in [Seeders -> Ids \cup {NoId}]
  BY DEF FindDemo, TriesInv, SeedInv, KeyInv, CatalogueTypeOK
<1>2. CASE \E row \in DemoSeen(s) : /\ app' = [app EXCEPT ![s] = row.id]
                                    /\ Goto(s, "find_environment")
  <2>1. PICK row \in DemoSeen(s) : /\ app' = [app EXCEPT ![s] = row.id]
                                   /\ Goto(s, "find_environment")
    BY <1>2
  <2>2. \A other \in Seeders \ {s} : app'[other] = app[other]
    BY <1>1, <2>1
  <2>3. "find_environment" \in Steps
    BY DEF Steps
  <2>4. /\ IdsApart' /\ ParentsExist' /\ StepOfOne(s)
        /\ pc'[s] = "find_environment"
        /\ failures'[s] = failures[s] /\ failures[s] \in Nat
        /\ Taken(AppKey(DemoSlug))' = Taken(AppKey(DemoSlug))
        /\ DemoIsWhole' = DemoIsWhole
    BY <1>1, <2>1, <2>2, <2>3, ReadingSeedTries
  <2>5. Found(s)'
    <3>1. row \in rows' \cup pending'[s] /\ row.key = AppKey(DemoSlug)
      BY <1>1, <2>1 DEF DemoSeen, Visible
    <3>2. app'[s] = row.id
      BY <1>1, <2>1
    <3> QED BY <3>1, <3>2 DEF Found
  <2>6. Tried(s)'
    BY <1>1, <2>4 DEF Tried
  <2> QED BY <2>4, <2>5, <2>6
<1>3. CASE /\ DemoSeen(s) = {} /\ Goto(s, "insert_application")
           /\ UNCHANGED app
  <2>1. ~Taken(AppKey(DemoSlug))
    BY <1>3 DEF DemoSeen, Visible, Taken
  <2>2. "insert_application" \in Steps
    BY DEF Steps
  <2>3. /\ IdsApart' /\ ParentsExist' /\ StepOfOne(s)
        /\ pc'[s] = "insert_application"
        /\ failures'[s] = failures[s] /\ failures[s] \in Nat
        /\ Taken(AppKey(DemoSlug))' = Taken(AppKey(DemoSlug))
        /\ DemoIsWhole' = DemoIsWhole
    BY <1>1, <1>3, <2>2, ReadingSeedTries
  <2>4. failures[s] = 0
    BY <1>1, <2>1, <2>3 DEF Tried
  <2>5. Found(s)'
    BY <2>3 DEF Found
  <2>6. Tried(s)'
    BY <2>3, <2>4 DEF Tried
  <2> QED BY <2>3, <2>5, <2>6
<1> QED BY <1>2, <1>3 DEF FindDemo

\* seed() looks for the environment: one that failed twice finds it, under the
\* application it has found, for there is no other of that slug.
LEMMA FindProductionTries ==
    ASSUME TriesInv, NEW s \in Seeders, FindProduction(s)
    PROVE  /\ IdsApart' /\ ParentsExist' /\ StepOfOne(s)
           /\ Found(s)' /\ Tried(s)'
<1> DEFINE step == IF Visible(s, EnvKey(app[s], DemoName)) = {}
                   THEN "insert_environment" ELSE "commit"
<1>1. /\ s \in Processes /\ pc[s] = "find_environment"
      /\ Goto(s, step) /\ step \in Steps
      /\ Found(s) /\ Tried(s) /\ KeysApart /\ OneRowPerKey
      /\ UNCHANGED <<rows, key, app, pending, failures>>
  BY PlacesOf DEF FindProduction, TriesInv, SeedInv, KeyInv, Steps
<1> HIDE DEF step
<1>2. /\ IdsApart' /\ ParentsExist' /\ StepOfOne(s) /\ pc'[s] = step
      /\ failures'[s] = failures[s] /\ failures[s] \in Nat
      /\ Taken(AppKey(DemoSlug))' = Taken(AppKey(DemoSlug))
      /\ DemoIsWhole' = DemoIsWhole
  BY <1>1, ReadingSeedTries
<1>3. PICK y \in rows \cup pending[s] :
          y.key = AppKey(DemoSlug) /\ y.id = app[s]
  BY <1>1 DEF Found
<1>4. Found(s)'
  BY <1>1, <1>3 DEF Found
<1>5. step # "insert_application"
  BY DEF step
<1>6. ASSUME step = "insert_environment" PROVE failures[s] <= 1
  <2>1. Visible(s, EnvKey(app[s], DemoName)) = {}
    BY <1>6 DEF step
  <2>2. ASSUME DemoIsWhole PROVE FALSE
    <3>1. PICK x \in rows : x.key = AppKey(DemoSlug) /\ HasProduction(x.id)
      BY <2>2 DEF DemoIsWhole
    <3>2. y \in rows
      BY <1>1, <1>3, <3>1 DEF KeysApart
    <3>3. x = y
      BY <1>1, <1>3, <3>1, <3>2 DEF OneRowPerKey
    <3>4. HasProduction(app[s])
      BY <1>3, <3>1, <3>3
    <3> QED BY <2>1, <3>4 DEF HasProduction, Visible
  <2> QED BY <1>1, <1>2, <2>2 DEF Tried
<1>7. Tried(s)'
  BY <1>1, <1>2, <1>5, <1>6 DEF Tried
<1> QED BY <1>2, <1>4, <1>7

\* An INSERT of a seed that succeeds, and leaves its counter alone.
LEMMA InsertingSeedTries ==
    ASSUME TriesInv, NEW s \in Seeders, NEW k, NEW id \in Ids, IsNew(id),
           Insert(s, k, id), NEW step \in Steps, Goto(s, step),
           \A a \in Ids : IsEnvironmentOf(k, a) =>
               HasId(rows \cup pending[s], a),
           \A other \in Seeders \ {s} : app'[other] = app[other],
           UNCHANGED <<rows, key, failures>>
    PROVE  /\ IdsApart' /\ ParentsExist' /\ StepOfOne(s)
           /\ pc'[s] = step /\ failures'[s] = failures[s]
           /\ Taken(AppKey(DemoSlug))' = Taken(AppKey(DemoSlug))
           /\ DemoIsWhole' = DemoIsWhole
<1>1. /\ s \in Processes /\ RowTypes /\ IdsApart /\ ParentsExist
      /\ pc \in [Processes -> Steps]
  BY PlacesOf DEF TriesInv, SeedInv, KeyInv, CatalogueTypeOK, RowTypes
<1>2. IdsApart' /\ ParentsExist'
  BY <1>1, InsertKeepsIds
<1>3. pc'[s] = step /\ \A q \in Processes \ {s} : pc'[q] = pc[q]
  BY <1>1 DEF Goto
<1>4. \A q \in Processes \ {s} : pending'[q] = pending[q]
  BY <1>1, InsertHolds
<1>5. /\ Taken(AppKey(DemoSlug))' = Taken(AppKey(DemoSlug))
      /\ DemoIsWhole' = DemoIsWhole
  BY DEF Taken, DemoIsWhole, HasProduction
<1> QED BY <1>1, <1>2, <1>3, <1>4, <1>5 DEF StepOfOne

\* seed() inserts the application it has not found, or fails for the first
\* time.
LEMMA InsertDemoTries ==
    ASSUME TriesInv, NEW s \in Seeders, InsertDemo(s)
    PROVE  /\ IdsApart' /\ ParentsExist' /\ StepOfOne(s)
           /\ Found(s)' /\ Tried(s)'
<1>1. /\ s \in Processes /\ RowTypes /\ Tried(s) /\ pc[s] = "insert_application"
      /\ UNCHANGED <<rows, key, answer>> /\ app \in [Seeders -> Ids \cup {NoId}]
  BY PlacesOf
     DEF InsertDemo, TriesInv, SeedInv, KeyInv, CatalogueTypeOK, RowTypes
<1>2. failures[s] = 0
  BY <1>1 DEF Tried
<1>3. CASE SeedFails(s, AppKey(DemoSlug))
  <2>1. Taken(AppKey(DemoSlug))
    BY <1>3 DEF SeedFails, InsertFails
  <2> QED BY <1>1, <1>2, <1>3, <2>1, FailedSeedTries
<1>4. CASE \E id \in Ids : /\ IsNew(id)
                           /\ Insert(s, AppKey(DemoSlug), id)
                           /\ app' = [app EXCEPT ![s] = id]
                           /\ Goto(s, "find_environment")
                           /\ UNCHANGED failures
  <2>1. PICK id \in Ids : /\ IsNew(id)
                          /\ Insert(s, AppKey(DemoSlug), id)
                          /\ app' = [app EXCEPT ![s] = id]
                          /\ Goto(s, "find_environment")
                          /\ UNCHANGED failures
    BY <1>4
  <2>2. \A a \in Ids : ~IsEnvironmentOf(AppKey(DemoSlug), a)
    BY KeysDiffer DEF IsEnvironmentOf
  <2>3. /\ \A other \in Seeders \ {s} : app'[other] = app[other]
        /\ app'[s] = id
    BY <1>1, <2>1
  <2>4. "find_environment" \in Steps
    BY DEF Steps
  <2>5. /\ IdsApart' /\ ParentsExist' /\ StepOfOne(s)
        /\ pc'[s] = "find_environment" /\ failures'[s] = failures[s]
    BY <1>1, <2>1, <2>2, <2>3, <2>4, InsertingSeedTries
  <2>6. Found(s)'
    <3> DEFINE new == [id |-> id, key |-> AppKey(DemoSlug), by |-> s]
    <3>1. new \in pending'[s]
      BY <1>1, <2>1, InsertHolds
    <3>2. new.key = AppKey(DemoSlug) /\ new.id = id
      OBVIOUS
    <3> HIDE DEF new
    <3> QED BY <2>3, <3>1, <3>2 DEF Found
  <2>7. Tried(s)'
    BY <1>2, <2>5 DEF Tried
  <2> QED BY <2>5, <2>6, <2>7
<1> QED BY <1>3, <1>4 DEF InsertDemo

\* seed() inserts the environment, or fails: under an application nobody else
\* can see there is no environment, so the one it has found is committed.
LEMMA InsertProductionTries ==
    ASSUME TriesInv, NEW s \in Seeders, InsertProduction(s)
    PROVE  /\ IdsApart' /\ ParentsExist' /\ StepOfOne(s)
           /\ Found(s)' /\ Tried(s)'
<1> DEFINE k == EnvKey(app[s], DemoName)
<1>1. /\ s \in Processes /\ RowTypes /\ Tried(s) /\ Found(s)
      /\ pc[s] = "insert_environment" /\ IdsApart /\ ParentsExist
      /\ UNCHANGED <<rows, key, answer>> /\ app[s] \in Ids
  BY PlacesOf
     DEF InsertProduction, TriesInv, SeedInv, KeyInv, CatalogueTypeOK,
         RowTypes, Positions
<1>2. failures[s] <= 1
  BY <1>1 DEF Tried
<1>3. PICK y \in rows \cup pending[s] :
          y.key = AppKey(DemoSlug) /\ y.id = app[s]
  BY <1>1 DEF Found
<1>4. \A a \in Ids : IsEnvironmentOf(k, a) => a = app[s]
  BY DEF IsEnvironmentOf, EnvKey
<1>5. IsEnvironmentOf(k, app[s])
  BY CatalogueAssumption DEF IsEnvironmentOf
<1>6. (InsertProduction(s) /\ ~SeedFails(s, k)) =>
          /\ \E id \in Ids : IsNew(id) /\ Insert(s, k, id)
          /\ Goto(s, "commit") /\ UNCHANGED <<app, failures>>
  BY DEF InsertProduction
<1> HIDE DEF k
<1>7. CASE SeedFails(s, k)
  <2>1. PICK e \in rows : e.key = k
    BY <1>7 DEF SeedFails, InsertFails, Taken
  <2>2. HasId(rows, app[s])
    BY <1>1, <1>5, <2>1 DEF ParentsExist
  <2>3. y \in rows
    BY <1>1, <1>3, <2>2 DEF HasId, IdsApart
  <2>4. Taken(AppKey(DemoSlug))
    BY <1>3, <2>3 DEF Taken
  <2>5. DemoIsWhole
    BY <1>3, <2>1, <2>3 DEF DemoIsWhole, HasProduction, k
  <2> QED BY <1>1, <1>2, <1>7, <2>4, <2>5, FailedSeedTries
<1>8. CASE ~SeedFails(s, k)
  <2>1. PICK id \in Ids : IsNew(id) /\ Insert(s, k, id)
    BY <1>6, <1>8
  <2>2. Goto(s, "commit") /\ UNCHANGED <<app, failures>>
    BY <1>6, <1>8
  <2>3. \A a \in Ids : IsEnvironmentOf(k, a) => HasId(rows \cup pending[s], a)
    BY <1>3, <1>4 DEF HasId
  <2>4. "commit" \in Steps
    BY DEF Steps
  <2>5. /\ IdsApart' /\ ParentsExist' /\ StepOfOne(s)
        /\ pc'[s] = "commit" /\ failures'[s] = failures[s]
        /\ Taken(AppKey(DemoSlug))' = Taken(AppKey(DemoSlug))
        /\ DemoIsWhole' = DemoIsWhole
    BY <1>1, <2>1, <2>2, <2>3, <2>4, InsertingSeedTries
  <2>6. Found(s)'
    BY <2>5 DEF Found
  <2>7. Tried(s)'
    BY <1>1, <2>5 DEF Tried
  <2> QED BY <2>5, <2>6, <2>7
<1> QED BY <1>7, <1>8

\* seed() commits: it is done, whatever it counted.
LEMMA CommitSeedTries ==
    ASSUME TriesInv, NEW s \in Seeders, CommitSeed(s)
    PROVE  /\ IdsApart' /\ ParentsExist' /\ StepOfOne(s)
           /\ Found(s)' /\ Tried(s)'
<1>1. /\ s \in Processes /\ RowTypes /\ IdsApart /\ ParentsExist /\ Tried(s)
      /\ pc \in [Processes -> Steps]
      /\ CommitRows(s) /\ UNCHANGED <<key, app, failures>>
  BY PlacesOf
     DEF CommitSeed, TriesInv, SeedInv, KeyInv, CatalogueTypeOK, RowTypes
<1>2. IdsApart' /\ ParentsExist'
  BY <1>1, CommitKeepsIds
<1>3. pc'[s] = "seeded" /\ \A q \in Processes \ {s} : pc'[q] = pc[q]
  BY <1>1 DEF CommitSeed, Goto
<1>4. /\ rows \subseteq rows'
      /\ \A q \in Processes \ {s} : pending'[q] = pending[q]
  BY <1>1 DEF CommitRows, RowTypes
<1>5. /\ Taken(AppKey(DemoSlug)) => Taken(AppKey(DemoSlug))'
      /\ DemoIsWhole => DemoIsWhole'
  BY <1>4 DEF Taken, DemoIsWhole, HasProduction
<1>6. Found(s)'
  BY <1>3 DEF Found
<1>7. Tried(s)'
  BY <1>1, <1>3, <1>5 DEF Tried
<1> QED BY <1>1, <1>2, <1>3, <1>4, <1>6, <1>7 DEF StepOfOne

\* A run of seed() begins with what the earlier ones have left.
LEMMA StartSeedTries ==
    ASSUME TriesInv, NEW s \in Seeders, StartSeed(s)
    PROVE  /\ IdsApart' /\ ParentsExist' /\ StepOfOne(s)
           /\ Found(s)' /\ Tried(s)'
<1>1. /\ Tried(s) /\ Goto(s, "find_application")
      /\ UNCHANGED <<rows, key, pending, failures>>
      /\ \A other \in Seeders \ {s} : app'[other] = app[other]
      /\ "find_application" \in Steps
  BY DEF StartSeed, TriesInv, SeedInv, KeyInv, CatalogueTypeOK, Steps
<1>2. /\ IdsApart' /\ ParentsExist' /\ StepOfOne(s)
      /\ pc'[s] = "find_application" /\ failures'[s] = failures[s]
      /\ Taken(AppKey(DemoSlug))' = Taken(AppKey(DemoSlug))
      /\ DemoIsWhole' = DemoIsWhole
  BY <1>1, ReadingSeedTries
<1> QED BY <1>1, <1>2 DEF Found, Tried

\* A process that is gone knows nothing it would need, and a seed's errors
\* stay counted.
LEMMA CrashTries ==
    ASSUME TriesInv, NEW p \in Processes, Crash(p)
    PROVE  /\ IdsApart' /\ ParentsExist' /\ StepOfOne(p)
           /\ p \in Workers => Asked(p)'
           /\ p \in Seeders => Found(p)' /\ Tried(p)'
<1>1. /\ RowTypes /\ IdsApart /\ ParentsExist /\ pc \in [Processes -> Steps]
      /\ key \in [Processes -> UniqueKeys \cup {NoKey}]
      /\ p \in Seeders => Tried(p)
  BY DEF TriesInv, SeedInv, KeyInv, CatalogueTypeOK, RowTypes
<1>2. /\ pc' = [pc EXCEPT ![p] = "idle"]
      /\ pending' = [pending EXCEPT ![p] = {}]
      /\ key' = [key EXCEPT ![p] = NoKey]
      /\ UNCHANGED <<rows, app, failures>>
  BY DEF Crash, Goto
<1>3. IdsApart' /\ ParentsExist'
  BY <1>1, <1>2, DropKeepsIds
<1>4. /\ pc'[p] = "idle"
      /\ \A q \in Processes \ {p} :
             pending'[q] = pending[q] /\ pc'[q] = pc[q] /\ key'[q] = key[q]
  BY <1>1, <1>2 DEF RowTypes
<1>5. /\ Taken(AppKey(DemoSlug))' = Taken(AppKey(DemoSlug))
      /\ DemoIsWhole' = DemoIsWhole
  BY <1>2 DEF Taken, DemoIsWhole, HasProduction
<1>6. StepOfOne(p)
  BY <1>2, <1>4 DEF StepOfOne
<1> QED BY <1>1, <1>2, <1>3, <1>4, <1>5, <1>6 DEF Asked, Found, Tried

\* A request begins: one that is inserted at once is for an application.
LEMMA ReceiveTries ==
    ASSUME TriesInv, NEW w \in Workers, NEW k, NEW step, Receive(w, k, step),
           step = "insert" => \A a \in Ids : ~IsEnvironmentOf(k, a)
    PROVE  IdsApart' /\ ParentsExist' /\ StepOfOne(w) /\ Asked(w)'
<1>1. /\ w \in Processes /\ RowTypes /\ IdsApart /\ ParentsExist
      /\ pc \in [Processes -> Steps]
      /\ key \in [Processes -> UniqueKeys \cup {NoKey}]
  BY PlacesOf DEF TriesInv, SeedInv, KeyInv, CatalogueTypeOK, RowTypes
<1>2. /\ pc' = [pc EXCEPT ![w] = step] /\ key' = [key EXCEPT ![w] = k]
      /\ UNCHANGED <<rows, app, pending, failures>>
  BY DEF Receive, Goto
<1>3. IdsApart' /\ ParentsExist'
  BY <1>1, <1>2, DropKeepsIds
<1>4. pc'[w] = step /\ key'[w] = k
  BY <1>1, <1>2
<1>5. Asked(w)'
  BY <1>4 DEF Asked
<1>6. StepOfOne(w)
  BY <1>1, <1>2 DEF StepOfOne
<1> QED BY <1>3, <1>5, <1>6

\* A process whose own knowledge its step keeps up keeps up everyone's.
LEMMA OneKeepsTries ==
    ASSUME TriesInv, NEW p \in Processes, SeedInv', StepOfOne(p),
           IdsApart', ParentsExist',
           p \in Workers => Asked(p)',
           p \in Seeders => Found(p)' /\ Tried(p)'
    PROVE  TriesInv'
<1>1. /\ \A w \in Workers \ {p} : Asked(w)'
      /\ \A s \in Seeders \ {p} : Found(s)' /\ Tried(s)'
  BY OthersKnow
<1>2. \A w \in Workers : Asked(w)'
  BY <1>1
<1>3. \A s \in Seeders : Found(s)' /\ Tried(s)'
  BY <1>1
<1> QED BY <1>2, <1>3 DEF TriesInv

\* Before the first seed nobody has failed.
LEMMA InitTries == CatalogueInit => TriesInv
<1> SUFFICES ASSUME CatalogueInit PROVE TriesInv
  OBVIOUS
<1>1. IdsApart /\ ParentsExist
  BY DEF CatalogueInit, IdsApart, ParentsExist
<1>2. /\ \A w \in Workers : pc[w] = "idle"
      /\ \A s \in Seeders : pc[s] = "idle" /\ failures[s] = 0
  BY PlacesOf DEF CatalogueInit
<1>3. \A w \in Workers : Asked(w)
  BY <1>2 DEF Asked
<1>4. \A s \in Seeders : Found(s) /\ Tried(s)
  BY <1>2 DEF Found, Tried
<1> QED BY <1>1, <1>3, <1>4, InitSeeds DEF TriesInv

\* Every step keeps what seeds have learnt from their errors.
LEMMA TriesStep == TriesInv /\ [CatalogueNext]_catalogueVars => TriesInv'
<1> SUFFICES ASSUME TriesInv, [CatalogueNext]_catalogueVars PROVE TriesInv'
  OBVIOUS
<1>1. SeedInv'
  BY SeedStep DEF TriesInv
<1>2. CASE \E w \in Workers, slug \in Slugs : CreateApplication(w, slug)
  <2>1. PICK w \in Workers, slug \in Slugs : Receive(w, AppKey(slug), "insert")
    BY <1>2 DEF CreateApplication
  <2>2. w \in Processes /\ w \notin Seeders
    BY PlacesOf
  <2>3. \A a \in Ids : ~IsEnvironmentOf(AppKey(slug), a)
    BY KeysDiffer DEF IsEnvironmentOf
  <2>4. IdsApart' /\ ParentsExist' /\ StepOfOne(w) /\ Asked(w)'
    BY <2>1, <2>3, ReceiveTries
  <2> QED BY <1>1, <2>2, <2>4, OneKeepsTries
<1>3. CASE \E w \in Workers, a \in Ids, name \in Names :
               CreateEnvironment(w, a, name)
  <2>1. PICK w \in Workers, a \in Ids, name \in Names :
            Receive(w, EnvKey(a, name), "find_application")
    BY <1>3 DEF CreateEnvironment
  <2>2. w \in Processes /\ w \notin Seeders
    BY PlacesOf
  <2>3. IdsApart' /\ ParentsExist' /\ StepOfOne(w) /\ Asked(w)'
    BY <2>1, ReceiveTries
  <2> QED BY <1>1, <2>2, <2>3, OneKeepsTries
<1>4. CASE \E s \in Seeders : StartSeed(s)
  <2>1. PICK s \in Seeders : StartSeed(s)
    BY <1>4
  <2> QED BY <1>1, <2>1, PlacesOf, StartSeedTries, OneKeepsTries
<1>5. CASE \E p \in Processes : Continue(p)
  <2>1. PICK p \in Processes : Continue(p)
    BY <1>5
  <2>2. CASE p \in Workers
    <3>1. p \notin Seeders
      BY <2>2, PlacesOf
    <3>2. CASE GetApplication(p) \/ InsertRow(p) \/ CommitRow(p)
      BY <1>1, <2>2, <3>1, <3>2, RequestTries, OneKeepsTries
    <3>3. ~InsertDemo(p) /\ ~FindProduction(p) /\ ~InsertProduction(p)
      BY <2>2, <3>1
         DEF TriesInv, SeedInv, KeyInv, Positions, WorkerSteps, InsertDemo,
             FindProduction, InsertProduction
    <3> QED BY <2>1, <3>1, <3>2, <3>3 DEF Continue, FindDemo, CommitSeed
  <2>3. CASE p \in Seeders
    <3>1. p \notin Workers
      BY <2>3, PlacesOf
    <3>2. CASE FindDemo(p)
      BY <1>1, <2>3, <3>1, <3>2, FindDemoTries, OneKeepsTries
    <3>3. CASE InsertDemo(p)
      BY <1>1, <2>3, <3>1, <3>3, InsertDemoTries, OneKeepsTries
    <3>4. CASE FindProduction(p)
      BY <1>1, <2>3, <3>1, <3>4, FindProductionTries, OneKeepsTries
    <3>5. CASE InsertProduction(p)
      BY <1>1, <2>3, <3>1, <3>5, InsertProductionTries, OneKeepsTries
    <3>6. CASE CommitSeed(p)
      BY <1>1, <2>3, <3>1, <3>6, CommitSeedTries, OneKeepsTries
    <3> QED BY <2>1, <3>1, <3>2, <3>3, <3>4, <3>5, <3>6
            DEF Continue, GetApplication, InsertRow, CommitRow
  <2> QED BY <2>2, <2>3 DEF Processes
<1>6. CASE \E p \in Processes : Crash(p)
  BY <1>1, <1>6, CrashTries, OneKeepsTries
<1>7. CASE UNCHANGED catalogueVars
  <2>1. UNCHANGED <<rows, pc, key, app, pending, failures>>
    BY <1>7 DEF catalogueVars
  <2>2. IdsApart' /\ ParentsExist'
    BY <2>1 DEF TriesInv, IdsApart, ParentsExist
  <2>3. \A w \in Workers : Asked(w)'
    BY <2>1 DEF TriesInv, Asked
  <2>4. \A s \in Seeders : Found(s)' /\ Tried(s)'
    <3>1. /\ Taken(AppKey(DemoSlug))' = Taken(AppKey(DemoSlug))
          /\ DemoIsWhole' = DemoIsWhole
      BY <2>1 DEF Taken, DemoIsWhole, HasProduction
    <3> QED BY <2>1, <3>1 DEF TriesInv, Found, Tried
  <2> QED BY <1>1, <2>2, <2>3, <2>4 DEF TriesInv
<1> QED BY <1>2, <1>3, <1>4, <1>5, <1>6, <1>7 DEF CatalogueNext

\* No seed fails more than twice, however often it is run and whoever else
\* creates the two rows or other ones: each error leaves a row it finds.
THEOREM SeedsFailAtMostTwice == CatalogueSpec => []SeedFailsTwice
<1>1. TriesInv => SeedFailsTwice
  BY DEF TriesInv, Tried, SeedFailsTwice
<1> QED BY <1>1, InitTries, TriesStep, PTL DEF CatalogueSpec
===============================================================================
