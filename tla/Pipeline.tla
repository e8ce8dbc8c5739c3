------------------------------- MODULE Pipeline -------------------------------
(***************************************************************************)
(* CI as a client of ReleaseGuard.  An application is created with a list  *)
(* of gate names (ApplicationCreate of schemas.py); CI runs these gates    *)
(* for every release and notifies each result, again and again until it is *)
(* recorded.  A notification is a GateWebhook of schemas.py, which has     *)
(* limits of its own for the name.                                         *)
(*                                                                         *)
(* A name on the list is an item: `raw`, what the request says; `name`,    *)
(* the same stripped and in lower case, which is what CI calls the gate;   *)
(* `length`, the characters of the name; and `wellFormed`, whether it      *)
(* begins with a letter and goes on with letters, digits, _ and -.         *)
(***************************************************************************)
EXTENDS LedgerProperties

CONSTANT
    Asked       \* the list in the request that created each environment's
                \* application

\* Mutant: the names are kept as they were written.
RawName(item) == item.raw

\* item.strip().lower()
Normalized(item) == item.name

\* unique_gates(), and the length of the list.
AcceptsGates(items) ==
    /\ Len(items) \in 1..10
    /\ \A i \in DOMAIN items : items[i].length > 0 /\ items[i].wellFormed
    /\ \A i, j \in DOMAIN items :
           Normalized(items[i]) = Normalized(items[j]) => i = j

\* applications.required_gates
RequiredGates(items) == {Normalized(items[i]) : i \in DOMAIN items}

\* GateWebhook: the length of the name of a gate.
AcceptsReport(item) == item.length \in 2..80

Items(e) == {Asked[e][i] : i \in DOMAIN Asked[e]}

ASSUME PipelineAssumption ==
    \A e \in Envs :
        /\ AcceptsGates(Asked[e])
        /\ Policy[e].required_gates = RequiredGates(Asked[e])
        /\ \A r \in Releases, item \in Items(e) : <<r, item.name>> \in EventIds

-------------------------------------------------------------------------------
\* CI notifies its result for a gate of release r: one event_id for the two.
Notification(r, item, result, det) ==
    [event |-> <<r, item.name>>, release |-> r, gate |-> item.name,
     status |-> result, details |-> det]

\* A notification that is not accepted gets 422, 409 or 404 and changes nothing.
Notify(r, item) ==
    /\ AcceptsReport(item)
    /\ \E result \in GateStatus, det \in Details :
           ReceiveWebhook(Notification(r, item, result, det))

PipelineNext ==
    \/ ClientNext
    \/ \E r \in Releases :
           Exists(r) /\ \E item \in Items(envOf[r]) : Notify(r, item)
    \/ ReconcilerNext

\* CI runs every gate of every release, and repeats what was not accepted; the
\* reconciler goes on.
PipelineFairness ==
    /\ \A r \in Releases, e \in Envs : \A item \in Items(e) :
           WF_ledgerVars(Exists(r) /\ envOf[r] = e /\ Notify(r, item))
    /\ ReconcilerRuns

\* From an empty database, or from one an older version has left.
PipelineSpec ==
    /\ LedgerInit \/ LegacyInit
    /\ [][PipelineNext]_ledgerVars
    /\ PipelineFairness

-------------------------------------------------------------------------------
CanBeReported(e) == \A item \in Items(e) : AcceptsReport(item)

\* The release is decided once CI has reported: the last required result, in
\* whatever order they come, ends the evaluation, so that waiting for CI, as
\* docs/runbooks/operator-decisions.md tells the operator of an evaluating
\* release, is enough, provided that CI can report every gate.
EvaluationEnds ==
    \A r \in Releases, e \in Envs :
        CanBeReported(e) =>
            (envOf[r] = e /\ status[r] = "evaluating")
                ~> status[r] # "evaluating"

\* An application may ask for a gate that CI cannot report.  Its releases are
\* then not let through: they leave evaluation by a failed gate or by an
\* operator who cancels them, and only so.
UnreportableIsNeverAdmitted ==
    [][\A r \in Releases :
           /\ status[r] = "evaluating"
           /\ status'[r] \notin {"evaluating", "blocked", "cancelled"}
           => CanBeReported(envOf[r])]_ledgerVars
===============================================================================
