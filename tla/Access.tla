------------------------------- MODULE Access -------------------------------
(***************************************************************************)
(* Who may do what: the clients configured in API_CLIENTS (config.py),     *)
(* the key a request presents and the role its route asks for (auth.py).   *)
(* The name of the client becomes the actor of the event and, for an       *)
(* approval, approved_by.                                                  *)
(*                                                                         *)
(* The configuration is read once by each process; all processes of one    *)
(* deployment have the same.  It is any list of clients Settings accepts.  *)
(***************************************************************************)
EXTENDS LedgerProperties

CONSTANTS
    Names,      \* names of clients
    Secrets,    \* keys a client may be given
    ShortKeys,  \* those of fewer than 16 characters
    MaxClients  \* bound: clients in API_CLIENTS

VARIABLE apiClients     \* settings.api_clients, in the order of the dictionary

accessVars == <<ledgerVars, apiClients>>

Roles == {"admin", "approver", "observer", "viewer"}

ClientLists ==
    UNION {[1..n -> [name : Names, key : Secrets, role : Roles]] :
               n \in 0..MaxClients}

\* validate_clients(); the length of a name is left out.
ValidClients(clients) ==
    /\ \A i \in DOMAIN clients : clients[i].key \notin ShortKeys
    /\ \A i, j \in DOMAIN clients : clients[i].key = clients[j].key => i = j

\* The names are the keys of a dictionary.
IsDictionary(clients) ==
    \A i, j \in DOMAIN clients : clients[i].name = clients[j].name => i = j

Nobody == [name |-> Null, role |-> "none"]

\* authenticate(): the first client with the key that was presented.
Authenticate(key) ==
    LET holders == {i \in DOMAIN apiClients : apiClients[i].key = key}
    IN  IF holders = {} THEN Nobody
        ELSE LET first == CHOOSE i \in holders : \A j \in holders : i <= j
             IN  [name |-> apiClients[first].name,
                  role |-> apiClients[first].role]

IsAdmin(principal) == principal.role = "admin"
IsApprover(principal) == principal.role = "approver"
IsObserver(principal) == principal.role = "observer"

\* A request that presents `key`; without the role it gets 401 or 403.
Request(key) ==
    LET p == Authenticate(key)
    IN  \/ /\ IsAdmin(p)
           /\ \/ \E r \in Releases, e \in Envs, k \in Keys, a \in Artifacts :
                     Create(r, e, k, a, p.name)
              \/ \E r \in Releases : Cancel(r, p.name)
              \/ \E r \in Releases, c \in CanaryPercents : Deploy(r, c, p.name)
              \/ \E r \in Releases : Rollback(r, p.name)
        \/ IsApprover(p) /\ \E r \in Releases : Approve(r, p.name)
        \/ /\ IsObserver(p)
           /\ \E r \in Releases, o \in Observations : Observe(r, o, p.name)

AccessInit ==
    /\ LedgerInit
    /\ apiClients \in {clients \in ClientLists :
                           IsDictionary(clients) /\ ValidClients(clients)}

AccessNext ==
    /\ \/ \E key \in Secrets : Request(key)
       \/ \E w \in Webhooks : ReceiveWebhook(w)
       \/ ReconcilerNext
    /\ UNCHANGED apiClients

AccessSpec == AccessInit /\ [][AccessNext]_accessVars

-------------------------------------------------------------------------------
\* Every configured client is itself: its key gives its own name and role and
\* no other client's, wherever it stands in the list.
EveryClientIsItself ==
    \A i \in DOMAIN apiClients :
        Authenticate(apiClients[i].key) =
            [name |-> apiClients[i].name, role |-> apiClients[i].role]

\* docs/architecture.md: an administrator cannot act as approver with the same
\* key.  The approver a release names is neither who created it nor anyone who
\* started, cancelled or rolled back a release.
FourEyes ==
    \A r \in Releases : approvedBy[r] # Null =>
        \A s \in Releases : \A i \in DOMAIN journal[s] :
            journal[s][i].actor = approvedBy[r] =>
                /\ journal[s][i].from = "awaiting_approval"
                /\ journal[s][i].to = "approved"
===============================================================================
