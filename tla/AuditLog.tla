------------------------------ MODULE AuditLog ------------------------------
(***************************************************************************)
(* What the audit trail promises, whatever carries it: what happened is    *)
(* written once, at the end of its tenant's log, and stays where it is.    *)
(***************************************************************************)
EXTENDS Sequences

CONSTANTS Event, Chain, TenantOf

VARIABLES
    happened,   \* events committed by a service or noticed by the gateway
    log         \* per chain, what is on record, in order

logVars == <<happened, log>>

Written(e) == \E k \in Chain : \E i \in DOMAIN log[k] : log[k][i] = e

Init == happened = {} /\ log = [k \in Chain |-> <<>>]

Happen == \E e \in Event : happened' = happened \cup {e} /\ UNCHANGED log

Record ==
    \E e \in happened :
        /\ ~Written(e)
        /\ TenantOf[e] \in Chain
        /\ log' = [log EXCEPT ![TenantOf[e]] = Append(@, e)]
        /\ UNCHANGED happened

Spec == Init /\ [][Happen \/ Record]_logVars
=============================================================================
