-------------------------------- MODULE Clocks --------------------------------
(***************************************************************************)
(* The clocks behind the ledger.  Events and the start of a canary are     *)
(* stamped with the clock of the process that writes them (utcnow() of     *)
(* models.py), the deadline of a canary with that of the reconciler, and   *)
(* the journal is returned in the order of the stamps                      *)
(* (list_release_events).  Replicas of the API and the reconciler run on   *)
(* different hosts: a reading is off by up to Skew.                        *)
(*                                                                         *)
(* Every step takes one unit of time.  A handler writes its rows within    *)
(* the unit: its events may have equal stamps, which ORDER BY created_at   *)
(* returns in any order.                                                   *)
(***************************************************************************)
EXTENDS LedgerProperties

CONSTANTS
    Skew,       \* a clock differs from real time by no more
    Timeout,    \* CANARY_TIMEOUT_SECONDS
    MaxTime     \* bound: the time the model runs for

ASSUME ClocksAssumption == Skew \in Nat /\ Timeout \in Nat /\ MaxTime \in Nat

VARIABLES
    now,        \* real time
    stamps,     \* release_events.created_at, for each event of journal
    started,    \* releases.canary_started_at
    written     \* history: the real time each event was written at

clockVars == <<now, stamps, started, written>>
timedVars == <<ledgerVars, clockVars>>

\* Mutant: the handler takes the time before it waits for the rows.
ReadingsOnArrival == (now - 3)..now

\* What utcnow() may return.
Readings == (now - Skew)..(now + Skew)

\* Mutant: the timeout runs from the creation of the release.
OverdueSinceCreation(r, reading) ==
    Exists(r) /\ stamps[r][1] < reading - Timeout

\* canary_started_at < deadline
Overdue(r, reading) == started[r] < reading - Timeout

\* The canaries this step begins.
Begun == {r \in Releases : status[r] = "approved" /\ status'[r] = "canary"}

\* One value for each event this step adds to the journal.
Appended(column, value) ==
    [r \in Releases |-> column[r] \o
         [i \in 1..(Len(journal'[r]) - Len(journal[r])) |-> value]]

\* The rows a handler adds are stamped with one clock.
Stamp(reading) ==
    /\ stamps' = Appended(stamps, reading)
    /\ written' = Appended(written, now)
    /\ started' =
           [r \in Releases |-> IF r \in Begun THEN reading ELSE started[r]]

\* One transaction of the API or of the reconciler.
Commit ==
    /\ \/ ClientNext
       \/ \E w \in Webhooks : ReceiveWebhook(w)
       \/ \E batch \in SUBSET Due : Reconcile(batch)
    /\ \E reading \in Readings : Stamp(reading)

\* The reconciler reads its clock and finds r to be overdue.
FindOverdue(r) ==
    /\ \E reading \in Readings : Overdue(r, reading)
    /\ Expire(r)
    /\ UNCHANGED <<stamps, started, written>>

Wait == UNCHANGED <<ledgerVars, stamps, started, written>>

ClocksInit ==
    /\ LedgerInit
    /\ now = 0
    /\ stamps = [r \in Releases |-> <<>>]
    /\ written = [r \in Releases |-> <<>>]
    /\ started = [r \in Releases |-> 0]

ClocksNext ==
    /\ now < MaxTime
    /\ now' = now + 1
    /\ \/ Commit
       \/ \E r \in Releases : FindOverdue(r)
       \/ Wait

ClocksSpec == ClocksInit /\ [][ClocksNext]_timedVars

-------------------------------------------------------------------------------
\* list_release_events() may return event i of release r before event j.
MayPrecede(r, i, j) == stamps[r][i] <= stamps[r][j]

\* Whoever reads the journal in the order it is returned sees the changes of
\* status in the order they were made, but for changes that follow each other
\* faster than the clocks of two hosts differ.
ReadingReplays ==
    \A r \in Releases : \A i, j \in StatusChanges(journal[r]) :
        i < j /\ MayPrecede(r, j, i) =>
            written[r][j] - written[r][i] <= 2 * Skew

\* No canary is timed out before its time, but for what the clocks of the API
\* and of the reconciler differ: the operator who set the timeout has at least
\* that long to observe it.
NoEarlyTimeout ==
    [][\A r \in Releases :
           /\ status[r] = "canary" /\ status'[r] = "rolled_back"
           /\ reason'[r].kind = "timeout"
           => \A i \in StatusChanges(journal[r]) :
                  journal[r][i].to = "canary" =>
                      now - written[r][i] > Timeout - 2 * Skew]_timedVars
===============================================================================
