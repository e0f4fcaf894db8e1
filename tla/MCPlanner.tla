------------------------------ MODULE MCPlanner ------------------------------
(***************************************************************************)
(* Small boards for Planner.                                               *)
(***************************************************************************)
EXTENDS Planner

CONSTANTS a, b, c, d1, d2

Unwritten == [place |-> [t \in Tasks |-> "nowhere"], deps |-> [t \in Tasks |-> {}]]

\* a is at work and b is ready.
AtWork == [Unwritten EXCEPT !.place[a] = d1, !.place[b] = "backlog"]

\* a is blocked by something that nobody owns, and b is ready.
Orphan == [Unwritten EXCEPT !.place[a] = "blocked", !.deps[a] = {c}, !.place[b] = "backlog"]

\* How the system starts, and how many board changes and restarts follow.
Start(m, idle, first, n, again) ==
    [mode |-> m, audits |-> idle, board |-> first, changes |-> n, restarts |-> again]

MCStarts ==
    {Start("planner", TRUE, Orphan, 1, 0), Start("planner", TRUE, AtWork, 0, 1),
     Start("planner", FALSE, AtWork, 1, 0), Start("agent", FALSE, AtWork, 0, 0)}

\* The work of d1 fails until its retries are used up, while d2 is free.
FailingStart == {Start("planner", TRUE, AtWork, 0, 0)}
=============================================================================
