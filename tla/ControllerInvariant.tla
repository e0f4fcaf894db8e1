------------------------ MODULE ControllerInvariant ------------------------
(***************************************************************************)
(* The inductive invariant behind the lease properties of Controller, and  *)
(* the refinement of RoleLease that it supports.                           *)
(*                                                                         *)
(* No single lock protects a lease.  It stays unresolved while its worker  *)
(* lives because each writer of the snapshot works from a copy that cannot *)
(* end it: a tick's copy knows every unresolved lease (CopyKnowsHeld), and *)
(* the snapshot an operator's command read earlier is too old for the      *)
(* validator (SnapshotIsOlder), since a launch is later than all of them   *)
(* (BeatsArePast).                                                         *)
(***************************************************************************)
EXTENDS Controller

\* Something of role r depends on its lease: a worker, or a session that has
\* a result to report.
Live(r) == alive[r] > 0 \/ session[r].stage \in Stages \ {"reported"}

TypeInv ==
    /\ TypeOK
    /\ \A r \in todo : desired[r] \in LeaseIDs

\* A session that has ended knows its result.
ResultKnown ==
    \A r \in Roles : session[r].stage = "ended" => session[r].outcome \in Outcomes

\* A worker belongs to the session of its role or to no session at all.
WorkersCounted ==
    \A r \in Roles :
       /\ alive[r] <= 1
       /\ session[r].stage \in {"started", "running"} => alive[r] = 1
       /\ session[r].stage \in Stages \ {"started", "running"} => alive[r] = 0

LiveLeaseHeld == \A r \in Roles : Live(r) => Unresolved(disk.lease[r])

SessionsMatch ==
    \A r \in Roles :
       session[r].stage \in Stages \ {"reported"} => disk.lease[r].id = session[r].id

DownHasNoSession == phase = "down" => \A r \in Roles : session[r] = NoSession

\* The tick's copy misses an unresolved lease only when its own first lease of
\* a role reached the file although the commit reported an error; the tick is
\* done with that role then.
CopyKnowsHeld ==
    phase \in Ticking =>
       \A r \in Roles :
          Unresolved(disk.lease[r]) =>
             \/ Unresolved(durable.lease[r])
             \/ durable.lease[r] = NoLease /\ phase = "launch" /\ r \notin todo

BeatsArePast ==
    \A r \in Roles :
       /\ disk.lease[r].beat <= now
       /\ durable.lease[r].beat <= now
       /\ \A o \in Operators : cli[o].snap.lease[r].beat <= now

\* An operator's snapshot that shows the live attempt of a role as ended was
\* read before that attempt was resumed.
SnapshotIsOlder ==
    \A o \in Operators, r \in Roles :
       LET seen == cli[o].snap.lease[r] IN
       /\ Live(r)
       /\ cli[o].stage = "loaded"
       /\ Ended(seen)
       /\ seen.id = disk.lease[r].id
       /\ seen.attempt = disk.lease[r].attempt
       => seen.beat < disk.lease[r].beat

\* Inductive invariant: the strengthening of OneWorkerPerRole, WorkerHoldsLease
\* and SessionOwnsLease that every step of the controller, its sessions and the
\* operators' commands preserves.
LeaseInv ==
    /\ TypeInv
    /\ ResultKnown
    /\ WorkersCounted
    /\ LiveLeaseHeld
    /\ SessionsMatch
    /\ DownHasNoSession
    /\ CopyKnowsHeld
    /\ BeatsArePast
    /\ SnapshotIsOlder

-----------------------------------------------------------------------------
(* What every snapshot tells, be it the file, the tick's copy or the one an *)
(* operator's command has read.                                             *)

LeaseOfItsRole(s) ==
    \A r \in Roles : s.lease[r] = NoLease \/ RoleOf[s.lease[r].id] = r

\* History holds, for each assignment, a terminal lease of that assignment.
HistoryByLease(s) ==
    \A id \in LeaseIDs :
       s.history[id] = NoLease \/ (s.history[id].id = id /\ Ended(s.history[id]))

\* A role that has never held a lease has no results.
ResultsHaveRole(s) ==
    \A id \in LeaseIDs :
       s.lease[RoleOf[id]] = NoLease =>
          s.history[id] = NoLease /\ \A l \in s.past : l.id # id

Rerunnable(s) == s.rationale \union UnblockPasses

\* A completed result that its assignment has been started over was overridden
\* by an operator, or was an unblock pass.
CompletedOverridden(s) ==
    /\ \A l \in s.past : l.outcome = "completed" => l.id \in Rerunnable(s)
    /\ \A id \in LeaseIDs :
          /\ s.history[id].outcome = "completed"
          /\ s.lease[RoleOf[id]].id = id
          /\ s.lease[RoleOf[id]].outcome # "completed"
          => id \in Rerunnable(s)

Coherent(s) ==
    /\ LeaseOfItsRole(s)
    /\ HistoryByLease(s)
    /\ ResultsHaveRole(s)
    /\ s.approvals \subseteq s.rationale
    /\ CompletedOverridden(s)

SnapshotsCoherent ==
    /\ Coherent(disk)
    /\ Coherent(durable)
    /\ \A o \in Operators : Coherent(cli[o].snap)

-----------------------------------------------------------------------------
(* How far the tick's copy may be from the file.                            *)

\* The copy tells of role r what the file tells.
SameRole(r) ==
    /\ durable.lease[r] = disk.lease[r]
    /\ \A id \in LeaseIDs : RoleOf[id] = r => durable.history[id] = disk.history[id]

\* A role is still to be looked at by this tick.
Pending(r) == phase = "launch" => r \in todo

TodoOfThisTick ==
    \A r \in todo : phase = "launch" /\ RoleOf[desired[r]] = r

\* A failed commit makes the copy differ for the role it was about, and the
\* tick is done with that role then.
CopySame == \A r \in Roles : Pending(r) => SameRole(r)

\* What the copy says of any role could be committed, and it counts at least
\* as many attempts, unless it has lost the role's first lease.
CopyAhead ==
    \A r \in Roles :
       \/ durable.lease[r] = NoLease
       \/ /\ LeaseMoves(disk.lease[r], durable.lease[r])
          /\ \A id \in LeaseIDs :
                RoleOf[id] = r => Attempts(durable, id) >= Attempts(disk, id)

CopyApprovals == durable.approvals \subseteq disk.approvals \union batch

CopyRationale ==
    (phase = "launch" => todo # {}) => disk.rationale \subseteq durable.rationale

\* Inductive invariant, together with LeaseInv: what OwnCommitsAccepted,
\* NoLaunchOverHeldRole, AttemptCountRetained and CompletedNotRerun rest on.
HistoryInv ==
    /\ SnapshotsCoherent
    /\ TodoOfThisTick
    /\ phase \in Ticking => CopySame /\ CopyAhead /\ CopyApprovals /\ CopyRationale

-----------------------------------------------------------------------------
(* The retry budget.  An attempt above the budget was paid for by an         *)
(* approval or by a write that failed; so is every use an approval still has.*)

\* Commands that have not yet queued or committed their approval.
Active == {o \in Operators : cli[o] # NoCommand}

Budget == MaxFailedSessionRetries + 1

\* What approvals and failed writes allow on top of the budget.
Spare == granted + faults - Cardinality(Active)

\* Assignment id may be attempted n times more without exceeding the budget
\* and k attempts on top of it.
Fits(s, id, n, k) ==
    /\ n <= k
    /\ \A l \in {s.lease[RoleOf[id]], s.history[id]} :
          l.id = id => l.attempt + n <= Budget + k

One(b) == IF b THEN 1 ELSE 0

\* How often the approvals of assignment id can still be used: once, be they
\* queued, read, in the snapshot or all of it, until the tick is past the
\* commit of the queue; what is queued then, or still queued because that
\* commit failed, counts on its own.
Uses(s, id) ==
    IF phase \in {"plan", "launch"}
    THEN One(id \in s.approvals) + One(id \in queue)
    ELSE One(id \in s.approvals \union queue \union batch)

BudgetKept(s) == \A id \in LeaseIDs : Fits(s, id, Uses(s, id), Spare)

\* A command adds one approval to the snapshot it has read.
SnapshotBudget ==
    \A o \in Operators, id \in LeaseIDs :
       cli[o].stage = "loaded" => Fits(cli[o].snap, id, 0, Spare)

\* Inductive invariant, together with LeaseInv and HistoryInv, behind
\* AttemptBudget.
BudgetInv ==
    /\ IsFiniteSet(Active)
    /\ BudgetKept(disk)
    /\ BudgetKept(durable)
    /\ SnapshotBudget

-----------------------------------------------------------------------------
HeldRoles == {r \in Roles : Unresolved(disk.lease[r])}

Abstract == INSTANCE RoleLease WITH held <- HeldRoles, working <- alive

\* The controller, its sessions and the recover command together implement the
\* lease discipline of RoleLease: no write of the snapshot frees a role whose
\* worker lives, and a worker starts only under a lease granted earlier.
LeaseDiscipline == Abstract!Spec
=============================================================================
