--------------------------- MODULE ControllerState ---------------------------
(***************************************************************************)
(* The durable snapshot of the slopboss controller                         *)
(* (workspaces/controller-state.json) and the pure functions over it:      *)
(* the validator that guards every commit, the decision that a role may be *)
(* launched, and the snapshots its writers propose.  The module has no     *)
(* variables; Controller.tla is the state machine that uses it.            *)
(*                                                                         *)
(* A lease identifies one assignment of one role: LeaseID is a hash of the *)
(* role, the task and the board key, so a retry reuses it and a changed    *)
(* board entry makes a new one.  Here a lease ID is an opaque value, and   *)
(* RoleOf, TaskOf and ContinueAfter say what the hash was made from.       *)
(***************************************************************************)
EXTENDS Naturals

CONSTANTS
    Roles,           \* the worker roles of the board
    TeamLead,        \* the Team Lead's role (it may be outside Roles)
    LeaseIDs,        \* the assignments the board can ask for
    None,            \* "no lease ID": a value outside LeaseIDs
    RoleOf,          \* the role an assignment belongs to
    TaskOf,          \* the task an assignment works on
    ContinueAfter,   \* the lease a continuation cites (None: not one)
    PlainOf,         \* the same board entry without its continuation
    UnblockPasses,   \* Team Lead assignments whose key starts with "unblock"
    MaxFailedSessionRetries

(***************************************************************************)
(* Every assignment belongs to one role, and a board entry keeps its role  *)
(* and its task when the continuation is taken away from it.               *)
(***************************************************************************)
ASSUME StateAssumption ==
    /\ None \notin LeaseIDs
    /\ RoleOf \in [LeaseIDs -> Roles]
    /\ ContinueAfter \in [LeaseIDs -> LeaseIDs \union {None}]
    /\ PlainOf \in [LeaseIDs -> LeaseIDs]
    /\ \A id \in LeaseIDs : RoleOf[PlainOf[id]] = RoleOf[id]
    /\ UnblockPasses \subseteq LeaseIDs
    /\ MaxFailedSessionRetries \in Nat

-----------------------------------------------------------------------------
(* Leases.  "unresolved" is a lease whose Terminal is nil.  beat is         *)
(* HeartbeatAt: the launch time, overwritten with FinishedAt when the lease *)
(* ends.  process is the recorded identity of the provider process, 0 when  *)
(* none is recorded.                                                        *)

Outcomes == {"completed", "failed", "blocked", "cancelled", "usage-limited"}

Lease == [id : LeaseIDs, attempt : Nat \ {0}, beat : Nat, process : Nat,
          outcome : Outcomes \union {"unresolved"}]

NoLease == [id |-> None, attempt |-> 0, beat |-> 0, process |-> 0, outcome |-> "none"]

Ended(l) == l.outcome \in Outcomes
Unresolved(l) == l.outcome = "unresolved"

\* Cancelled and usage-limited runs do not count against the retry budget.
Uncounted == {"cancelled", "usage-limited"}

(***************************************************************************)
(* The snapshot: at most one lease per role, the last terminal lease of    *)
(* every assignment (History), the one-use retry approvals, the earlier    *)
(* results of assignments that were run again (PastResults) and the        *)
(* rationale of every approval (RetryHistory).                             *)
(***************************************************************************)
State == [lease : [Roles -> Lease \union {NoLease}],
          history : [LeaseIDs -> Lease \union {NoLease}],
          approvals : SUBSET LeaseIDs,
          past : SUBSET Lease,
          rationale : SUBSET LeaseIDs]

EmptyState == [lease |-> [r \in Roles |-> NoLease],
               history |-> [id \in LeaseIDs |-> NoLease],
               approvals |-> {}, past |-> {}, rationale |-> {}]

-----------------------------------------------------------------------------
(* Commit refuses a candidate that breaks the lifecycle of a lease.         *)

\* A different assignment may take over a role whose lease has ended.
Replaces(old, new) ==
    /\ new.id # old.id
    /\ Ended(old)
    /\ Unresolved(new)

\* A run that was cancelled or hit a usage limit resumes at its attempt.
Resumes(old, new) ==
    /\ new.attempt = old.attempt
    /\ old.outcome \in Uncounted
    /\ Unresolved(new)

Retries(old, new) ==
    /\ new.attempt = old.attempt + 1
    /\ Ended(old)
    /\ Unresolved(new)

\* The same attempt goes on: its process and its result never change.
Observes(old, new) ==
    /\ new.attempt = old.attempt
    /\ old.process # 0 => new.process = old.process
    /\ new.beat >= old.beat
    /\ Ended(old) => new.outcome = old.outcome /\ new.beat = old.beat

LeaseMoves(old, new) ==
    \/ old.id = None
    \/ new.id # None /\ Replaces(old, new)
    \/ /\ new.id = old.id
       /\ Resumes(old, new) \/ Retries(old, new) \/ Observes(old, new)

ValidTransition(prev, cand) ==
    \A r \in Roles : LeaseMoves(prev.lease[r], cand.lease[r])

-----------------------------------------------------------------------------
(* The launch decision.                                                     *)

\* A Team Lead pass that completes while its unblock key is still desired.
CompletedUnblockPass(l) == l.id \in UnblockPasses /\ l.outcome = "completed"

\* Mutant: every result may be run again.
RetryableAnyResult(l) == Ended(l)

RetryableResult(l) == l.outcome \in {"failed"} \union Uncounted

\* Mutant: any approval lets a blocked role go on.
AwaitsAnyReview(s, r) == s.lease[r].outcome = "blocked" /\ s.approvals = {}

\* A blocked result holds its role, for every assignment, until approved.
AwaitsReview(s, r) ==
    s.lease[r].outcome = "blocked" /\ s.lease[r].id \notin s.approvals

\* Mutant: History is not asked.
ConsideredCurrent(s, r, id) == s.lease[r]

\* The lease the decision is about: the role's own, or the one in History
\* when the role's lease ended with another assignment.
Considered(s, r, id) ==
    IF /\ Ended(s.lease[r])
       /\ s.lease[r].id # id
       /\ ~AwaitsReview(s, r)
       /\ s.history[id] # NoLease
    THEN s.history[id]
    ELSE s.lease[r]

\* Mutants: one retry too many; an approval does not lift the budget.
MayRerunOnceMore(s, l) ==
    \/ l.id \in s.approvals
    \/ /\ RetryableResult(l) \/ CompletedUnblockPass(l)
       /\ l.attempt <= MaxFailedSessionRetries + 1 \/ l.outcome \in Uncounted

MayRerunInBudget(s, l) ==
    /\ RetryableResult(l) \/ CompletedUnblockPass(l)
    /\ l.attempt <= MaxFailedSessionRetries \/ l.outcome \in Uncounted

MayRerun(s, l) ==
    \/ l.id \in s.approvals
    \/ /\ RetryableResult(l) \/ CompletedUnblockPass(l)
       /\ l.attempt <= MaxFailedSessionRetries \/ l.outcome \in Uncounted

MayLaunch(s, r, id) ==
    \/ s.lease[r] = NoLease
    \/ /\ Ended(s.lease[r])
       /\ ~AwaitsReview(s, r)
       /\ LET l == Considered(s, r, id)
          IN  l.id # id \/ MayRerun(s, l)

\* Mutants: attempts count from zero; a retry keeps its attempt.
NextAttemptFromZero(s, r, id) ==
    LET l == Considered(s, r, id) IN IF l.id # id THEN 0 ELSE l.attempt + 1

NextAttemptUnchanged(s, r, id) ==
    LET l == Considered(s, r, id) IN IF l.id # id THEN 1 ELSE l.attempt

NextAttempt(s, r, id) ==
    LET l == Considered(s, r, id)
    IN  IF l.id # id THEN 1
        ELSE IF l.outcome \in Uncounted THEN l.attempt
        ELSE l.attempt + 1

NewLease(s, r, id, at) ==
    [id |-> id, attempt |-> NextAttempt(s, r, id), beat |-> at,
     process |-> 0, outcome |-> "unresolved"]

\* Mutant: only a completed lease can be continued.
ContinuationOfCompleted(s, id) ==
    LET prior == ContinueAfter[id]
    IN  IF prior = None \/ s.history[prior].outcome = "completed" THEN id ELSE PlainOf[id]

\* A continuation counts only while the lease it cites is terminal evidence
\* for the same role and task; otherwise the plain board entry is meant.
ContinuationKey(s, id) ==
    LET prior == ContinueAfter[id]
        cited == IF s.history[prior] # NoLease THEN s.history[prior]
                 ELSE s.lease[RoleOf[id]]
    IN  IF \/ prior = None
           \/ /\ cited.id = prior
              /\ Ended(cited)
              /\ RoleOf[prior] = RoleOf[id]
              /\ TaskOf[prior] = TaskOf[id]
        THEN id ELSE PlainOf[id]

-----------------------------------------------------------------------------
(* The snapshots the writers propose.                                       *)

Archive(s, l) == IF Ended(l) THEN [s.history EXCEPT ![l.id] = l] ELSE s.history

\* commitRecoveryLease: the role's lease becomes an unresolved one for id.
\* An earlier result of the same assignment moves to PastResults, and the
\* approvals of both assignments are used up.
Granted(s, r, id, at) ==
    LET old == s.lease[r] IN
    [lease |-> [s.lease EXCEPT ![r] = NewLease(s, r, id, at)],
     history |-> Archive(s, old),
     approvals |-> s.approvals \ ({id} \union (IF Ended(old) THEN {old.id} ELSE {})),
     past |-> s.past \union (IF Ended(old) /\ old.id = id THEN {old} ELSE {}),
     rationale |-> s.rationale]

\* What a refused grant leaves in the tick's own copy: commitRecoveryLease
\* edits the shared maps and the shared lease slice before it commits, while
\* a slice that grew (a role's first lease, PastResults) is lost.
RefusedGrant(s, r, id, at) ==
    LET g == Granted(s, r, id, at) IN
    [g EXCEPT !.past = s.past,
              !.lease = IF s.lease[r] = NoLease THEN s.lease ELSE g.lease]

\* reportSessionTerminal and RecoverStoppedRole: the role's lease ends.
WithResult(s, r, outcome, at) ==
    LET l == [s.lease[r] EXCEPT !.outcome = outcome, !.beat = at] IN
    [s EXCEPT !.lease[r] = l, !.history[l.id] = l]

WithProcess(s, r, process) == [s EXCEPT !.lease[r].process = process]

\* consumePendingRetryRequestsLocked and ApproveTerminalRetry.
WithApprovals(s, ids) ==
    [s EXCEPT !.approvals = @ \union ids, !.rationale = @ \union ids]

\* FindControllerLeaseByTarget, for an operator who names id's role or task:
\* the current lease of the role or task first, else one in History.
FindLease(s, id) ==
    IF s.lease[RoleOf[id]].id = id THEN s.lease[RoleOf[id]]
    ELSE IF \A r \in Roles :
               s.lease[r].id = None \/ TaskOf[s.lease[r].id] # TaskOf[id]
    THEN s.history[id]
    ELSE NoLease

\* Every terminal result the snapshot still tells of.
Evidence(s) ==
    {l \in {s.lease[r] : r \in Roles} : Ended(l)}
      \union {l \in {s.history[id] : id \in LeaseIDs} : Ended(l)}
      \union s.past
=============================================================================
