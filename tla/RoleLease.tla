------------------------------ MODULE RoleLease ------------------------------
(***************************************************************************)
(* What the controller promises about its leases, without the file, the    *)
(* ticks or the processes that make it true: a role is held or free, at    *)
(* most one worker is at work for a role, and it works only while the role *)
(* stays held.  Every durable snapshot the controller writes is one step.  *)
(***************************************************************************)
EXTENDS Naturals

CONSTANT Roles

VARIABLES
    held,     \* roles with an unresolved lease
    working   \* number of workers in each role's workspace

vars == <<held, working>>

Init ==
    /\ held = {}
    /\ working = [r \in Roles |-> 0]

\* Leases are granted and ended, never one that a worker depends on.
Reassign ==
    /\ held' \in SUBSET Roles
    /\ \A r \in Roles : working[r] > 0 => r \in held'
    /\ UNCHANGED working

\* A worker starts under a lease that was granted before.
Begin(r) ==
    /\ r \in held
    /\ working[r] = 0
    /\ working' = [working EXCEPT ![r] = 1]
    /\ UNCHANGED held

End(r) ==
    /\ working[r] = 1
    /\ working' = [working EXCEPT ![r] = 0]
    /\ UNCHANGED held

Next == Reassign \/ \E r \in Roles : Begin(r) \/ End(r)

Spec == Init /\ [][Next]_vars
=============================================================================
