----------------------------- MODULE VersionStack -----------------------------
(***************************************************************************)
(* What ReleaseGuard promises about the versions of an environment: they   *)
(* form a stack.  At most one candidate is tried at a time; it is put on   *)
(* top or thrown away, and only the top version can be undone, when no     *)
(* candidate is on trial.  The version that serves is the top.             *)
(***************************************************************************)
EXTENDS Integers, Sequences

CONSTANTS Envs, Versions, NoVersion

VARIABLES
    proposed,    \* the versions ever tried, in any environment
    candidate,   \* the one on trial in each environment, or NoVersion
    stack,       \* the versions that were accepted, oldest first
    serving      \* the version each environment runs

stackVars == <<proposed, candidate, stack, serving>>

Top(s) == IF s = <<>> THEN NoVersion ELSE s[Len(s)]

Init ==
    /\ proposed = {}
    /\ candidate = [e \in Envs |-> NoVersion]
    /\ stack = [e \in Envs |-> <<>>]
    /\ serving = [e \in Envs |-> NoVersion]

Propose(e, v) ==
    /\ candidate[e] = NoVersion
    /\ v \notin proposed
    /\ proposed' = proposed \cup {v}
    /\ candidate' = [candidate EXCEPT ![e] = v]
    /\ UNCHANGED <<stack, serving>>

\* The reconciler may throw away the candidates of several environments.
Discard(E) ==
    /\ \A e \in E : candidate[e] # NoVersion
    /\ candidate' = [e \in Envs |-> IF e \in E THEN NoVersion
                                    ELSE candidate[e]]
    /\ UNCHANGED <<proposed, stack, serving>>

Accept(e) ==
    /\ candidate[e] # NoVersion
    /\ stack' = [stack EXCEPT ![e] = Append(@, candidate[e])]
    /\ serving' = [serving EXCEPT ![e] = candidate[e]]
    /\ candidate' = [candidate EXCEPT ![e] = NoVersion]
    /\ UNCHANGED proposed

Undo(e) ==
    /\ candidate[e] = NoVersion
    /\ stack[e] # <<>>
    /\ stack' = [stack EXCEPT ![e] = SubSeq(@, 1, Len(@) - 1)]
    /\ serving' = [serving EXCEPT ![e] = Top(stack'[e])]
    /\ UNCHANGED <<proposed, candidate>>

Next ==
    \/ \E e \in Envs, v \in Versions : Propose(e, v)
    \/ \E E \in SUBSET Envs : Discard(E)
    \/ \E e \in Envs : Accept(e) \/ Undo(e)

Spec == Init /\ [][Next]_stackVars
===============================================================================
