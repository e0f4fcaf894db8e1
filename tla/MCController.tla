---------------------------- MODULE MCController ----------------------------
(***************************************************************************)
(* Small instances of Controller for TLC.                                  *)
(***************************************************************************)
EXTENDS ControllerInvariant, TLC

CONSTANTS dev, lead, a, b, c, x, y, op1, op2

\* One developer lane that can work on a, on b, or on c, a continuation of a.
\* x is Team Lead coordination, y a Team Lead unblock pass.
MCRoleOf ==
    [id \in LeaseIDs |-> IF id \in {x, y} THEN lead ELSE dev]
MCTaskOf == [id \in LeaseIDs |-> IF id = c THEN a ELSE id]
MCContinueAfter == [id \in LeaseIDs |-> IF id = c THEN a ELSE None]
MCPlainOf == [id \in LeaseIDs |-> IF id = c THEN a ELSE id]

\* Any board: each role is asked for one of its assignments or for none.
AnyBoard ==
    {board \in [Roles -> LeaseIDs \union {None}] :
       \A r \in Roles : board[r] # None => RoleOf[board[r]] = r}

\* A board that asks the developer for the continuation c, and nothing else.
ContinuationBoard == {[r \in Roles |-> c]}

\* A board that always asks every role for the same assignment.
ConstantBoard == {board \in AnyBoard : \A r \in Roles : board[r] # None}

\* a and b are interchangeable where the board may ask for either.
Assignments == Permutations({a, b})
=============================================================================
