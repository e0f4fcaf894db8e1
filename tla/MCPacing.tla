------------------------------ MODULE MCPacing ------------------------------
(***************************************************************************)
(* One dev agent with two assignments, and an unblock pass.                *)
(***************************************************************************)
EXTENDS Pacing

CONSTANTS d, a, b, u

Start(k, pass, limits, n, again, more) ==
    [wants |-> [r \in Roles |-> IF r = d THEN k ELSE pass],
     metered |-> limits, changes |-> n, restarts |-> again, approvals |-> more]

MCStarts ==
    {Start(a, None, FALSE, 2, 0, 0), Start(a, None, TRUE, 1, 0, 0),
     Start(a, None, TRUE, 0, 1, 1), Start(a, u, TRUE, 0, 0, 0)}

MCKeysOf == [r \in Roles |-> IF r = d THEN {a, b} ELSE {u}]
=============================================================================
