----------------------------- MODULE Controller -----------------------------
(***************************************************************************)
(* The slopboss controller: the poll tick that grants leases and starts    *)
(* sessions, the session goroutines that report results, the crash or the  *)
(* shutdown of the process, and the operators' recover command.            *)
(*                                                                         *)
(* controllerMu makes a tick exclusive with the session goroutines' writes *)
(* to the snapshot, and controller.lock makes a running controller         *)
(* exclusive with recovery; both are guards on phase.  Operators in other  *)
(* processes and the provider processes are excluded by neither.           *)
(*                                                                         *)
(* Time is a logical clock that advances with every attempt to launch: a   *)
(* later launch has a later HeartbeatAt, two events between two launches   *)
(* may share one.  Pacing (retry delay, circuit breaker, usage pause, a    *)
(* missing workspace, the cancel grace period) is the choice to act now or *)
(* not yet.                                                                *)
(***************************************************************************)
EXTENDS ControllerState, FiniteSets

CONSTANTS
    Operators,      \* people who run "slopboss recover --retry"
    Boards,         \* what a poll may read: the assignment each lane asks for
    MaxLaunches,    \* bound: attempts to launch a session
    MaxCrashes,     \* bound: deaths of the controller process
    MaxFaults,      \* bound: commits that return an I/O error
    MaxApprovals    \* bound: retry approvals operators start

(***************************************************************************)
(* A board asks each role for one of its own assignments, or for none; a   *)
(* role with several In Progress tasks is refused and asks for none.       *)
(***************************************************************************)
ASSUME ControllerAssumption ==
    /\ Boards \subseteq [Roles -> LeaseIDs \union {None}]
    /\ \A b \in Boards, r \in Roles : b[r] # None => RoleOf[b[r]] = r
    /\ {MaxLaunches, MaxCrashes, MaxFaults, MaxApprovals} \subseteq Nat

VARIABLES
    disk,       \* the committed controller-state.json
    queue,      \* lease IDs in retry-requests.json
    phase,      \* what the controller process is doing
    durable,    \* the tick's own copy of the snapshot
    batch,      \* the retry requests the tick has read
    desired,    \* the assignment the tick wants for each role
    todo,       \* desired roles the tick has still to look at
    session,    \* the running map: one session goroutine per role
    finished,   \* the finished map: results held back from a relaunch
    alive,      \* number of provider processes alive in a role's workspace
    cli,        \* what each operator's retry command has read
    now, crashes, faults, granted

tickVars == <<phase, durable, batch, desired, todo>>
bounds == <<now, crashes, faults, granted>>
vars == <<disk, queue, tickVars, session, finished, alive, cli, bounds>>

-----------------------------------------------------------------------------
Ticking == {"consume", "remove", "plan", "launch"}
Phases == Ticking \union {"down", "idle", "stopping"}

\* A session has a provider process in the stages "started" and "running".
Stages == {"preparing", "started", "running", "landing", "ended", "reported"}
Session == [id : LeaseIDs, stage : Stages, cancelled : BOOLEAN,
            outcome : Outcomes \union {"unknown"}]
NoSession == [id |-> None, stage |-> "none", cancelled |-> FALSE, outcome |-> "unknown"]

Finish == [id : LeaseIDs, outcome : Outcomes]
NoFinish == [id |-> None, outcome |-> "none"]

Command == [stage : {"loaded", "queueing"}, id : LeaseIDs, snap : State,
            file : SUBSET LeaseIDs]
NoCommand == [stage |-> "none", id |-> None, snap |-> EmptyState, file |-> {}]

NoDesire == [r \in Roles |-> None]

Init ==
    /\ disk = EmptyState
    /\ queue = {}
    /\ phase = "down"
    /\ durable = EmptyState
    /\ batch = {}
    /\ desired = NoDesire
    /\ todo = {}
    /\ session = [r \in Roles |-> NoSession]
    /\ finished = [r \in Roles |-> NoFinish]
    /\ alive = [r \in Roles |-> 0]
    /\ cli = [o \in Operators |-> NoCommand]
    /\ now = 0 /\ crashes = 0 /\ faults = 0 /\ granted = 0

\* Mutant: a write that failed is reported as done.
CommitHidingErrors(cand, ok) ==
    /\ ok
    /\ disk' = disk \/ (ValidTransition(disk, cand) /\ disk' = cand)
    /\ UNCHANGED faults

(***************************************************************************)
(* Commit validates the candidate against the file and replaces the file   *)
(* with one rename.  An I/O error before the rename leaves the old file,   *)
(* one after it (the directory sync) leaves the new one.                   *)
(***************************************************************************)
Commit(cand, ok) ==
    \/ /\ ok
       /\ ValidTransition(disk, cand)
       /\ disk' = cand
       /\ UNCHANGED faults
    \/ /\ ~ok
       /\ ~ValidTransition(disk, cand)
       /\ UNCHANGED <<disk, faults>>
    \/ /\ ~ok
       /\ faults < MaxFaults
       /\ faults' = faults + 1
       /\ \/ disk' = disk
          \/ ValidTransition(disk, cand) /\ disk' = cand

-----------------------------------------------------------------------------
(* The controller process.                                                  *)

\* RunLoop takes controller.lock and starts with empty session maps.
Start ==
    /\ phase = "down"
    /\ phase' = "idle"
    /\ UNCHANGED <<disk, queue, durable, batch, desired, todo, session,
                   finished, alive, cli, bounds>>

\* Everything in memory goes; provider processes may outlive it.
Stop ==
    /\ phase' = "down"
    /\ durable' = EmptyState
    /\ batch' = {}
    /\ desired' = NoDesire
    /\ todo' = {}
    /\ session' = [r \in Roles |-> NoSession]
    /\ finished' = [r \in Roles |-> NoFinish]
    /\ UNCHANGED <<disk, queue, alive, cli, now, faults, granted>>

Crash ==
    /\ phase # "down"
    /\ crashes < MaxCrashes
    /\ crashes' = crashes + 1
    /\ Stop

\* Cancelling the context matters to a session whose provider has not exited.
Cancelled(roles) ==
    [r \in Roles |->
       IF r \in roles /\ session[r].stage \in {"preparing", "started", "running"}
       THEN [session[r] EXCEPT !.cancelled = TRUE]
       ELSE session[r]]

\* The dashboard exits: no tick runs any more and every session is cancelled.
Shutdown ==
    /\ phase = "idle"
    /\ phase' = "stopping"
    /\ session' = Cancelled(Roles)
    /\ UNCHANGED <<disk, queue, durable, batch, desired, todo, finished,
                   alive, cli, bounds>>

\* shutdownSessions returns when the sessions are gone or when its grace
\* period has elapsed, and the process exits.
Exit ==
    /\ phase = "stopping"
    /\ UNCHANGED crashes
    /\ Stop

-----------------------------------------------------------------------------
(* One poll: load the snapshot, consume the queued approvals, plan, launch. *)

TickLoad ==
    /\ phase = "idle"
    /\ durable' = disk
    /\ batch' = queue
    /\ phase' = IF queue = {} THEN "plan" ELSE "consume"
    /\ UNCHANGED <<disk, queue, desired, todo, session, finished, alive, cli, bounds>>

\* The approvals stay in the tick's copy even when they are not committed.
TickConsume ==
    /\ phase = "consume"
    /\ durable' = WithApprovals(durable, batch)
    /\ \E ok \in BOOLEAN :
          /\ Commit(durable', ok)
          /\ phase' = IF ok THEN "remove" ELSE "plan"
    /\ UNCHANGED <<queue, batch, desired, todo, session, finished, alive, cli,
                   now, crashes, granted>>

TickRemove ==
    /\ phase = "remove"
    /\ queue' = {}
    /\ phase' = "plan"
    /\ UNCHANGED <<disk, durable, batch, desired, todo, session, finished,
                   alive, cli, bounds>>

\* The board decides what each role should run; sessions it no longer asks
\* for are cancelled, at once or in a later tick (the Team Lead's never is).
TickPlan ==
    /\ phase = "plan"
    /\ \E board \in Boards :
          desired' = [r \in Roles |-> IF board[r] = None THEN None
                                      ELSE ContinuationKey(durable, board[r])]
    /\ todo' = {r \in Roles : desired'[r] # None}
    /\ finished' = [r \in Roles |-> IF r \in todo' THEN finished[r] ELSE NoFinish]
    /\ \E stale \in SUBSET {r \in Roles \ {TeamLead} : session[r].id # desired'[r]} :
          session' = Cancelled(stale)
    /\ phase' = "launch"
    /\ UNCHANGED <<disk, queue, durable, batch, alive, cli, bounds>>

\* The finished entry of r after the tick has shown it the considered lease.
Remembered(r) ==
    LET l == Considered(durable, r, desired[r]) IN
    IF /\ l.id = desired[r]
       /\ Ended(l)
       /\ \/ l.outcome = "failed"
          \/ CompletedUnblockPass(l)
          \/ ~MayLaunch(durable, r, desired[r])
       /\ finished[r].id # desired[r]
    THEN [id |-> l.id, outcome |-> l.outcome]
    ELSE finished[r]

\* Mutant: a failure holds its assignment back for good.
ExpiresUnlessFailed(f, id) ==
    f.id # id \/ f.outcome = "usage-limited" \/ CompletedUnblockPass(f)

\* Only a failure, a completed unblock pass or a usage limit stops holding
\* its own assignment back once its delay has passed.
Expires(f, id) ==
    \/ f.id # id
    \/ f.outcome \in {"failed", "usage-limited"}
    \/ CompletedUnblockPass(f)

Launchable(r) ==
    /\ phase = "launch"
    /\ r \in todo
    /\ session[r] = NoSession
    /\ MayLaunch(durable, r, desired[r])
    /\ Expires(Remembered(r), desired[r])

\* The lease is committed before the session starts, and a failed commit
\* starts nothing; a good one is read back for the roles that follow.
Launch(r) ==
    /\ Launchable(r)
    /\ now < MaxLaunches
    /\ now' = now + 1
    /\ \E ok \in BOOLEAN :
          /\ Commit(Granted(durable, r, desired[r], now'), ok)
          /\ IF ok
             THEN /\ durable' = disk'
                  /\ session' = [session EXCEPT ![r] =
                        [id |-> desired[r], stage |-> "preparing",
                         cancelled |-> FALSE, outcome |-> "unknown"]]
             ELSE /\ durable' = RefusedGrant(durable, r, desired[r], now')
                  /\ UNCHANGED session
    /\ finished' = [finished EXCEPT ![r] = NoFinish]
    /\ todo' = todo \ {r}
    /\ UNCHANGED <<queue, phase, batch, desired, alive, cli, crashes, granted>>

\* The committed snapshot cannot be read back: the lease stands but nothing
\* was started for it, and the empty copy lets no other role commit.
ReloadFails(r) ==
    /\ Launchable(r)
    /\ now < MaxLaunches
    /\ faults < MaxFaults
    /\ now' = now + 1
    /\ faults' = faults + 1
    /\ LET cand == Granted(durable, r, desired[r], now') IN
          /\ ValidTransition(disk, cand)
          /\ disk' = cand
    /\ durable' = EmptyState
    /\ todo' = {}
    /\ \E gone \in SUBSET {q \in todo : Expires(finished[q], desired[q])} :
          finished' = [q \in Roles |-> IF q \in gone \union {r} THEN NoFinish
                                       ELSE finished[q]]
    /\ UNCHANGED <<queue, phase, batch, desired, session, alive, cli, crashes, granted>>

\* A delay has not passed, the circuit is open, launches are paused or the
\* workspace is missing.
Delay(r) ==
    /\ Launchable(r)
    /\ finished' \in {[finished EXCEPT ![r] = f] : f \in {Remembered(r), NoFinish}}
    /\ todo' = todo \ {r}
    /\ UNCHANGED <<disk, queue, phase, durable, batch, desired, session, alive,
                   cli, bounds>>

Skip(r) ==
    /\ phase = "launch"
    /\ r \in todo
    /\ ~Launchable(r)
    /\ finished' = IF session[r] # NoSession THEN finished
                   ELSE [finished EXCEPT ![r] = Remembered(r)]
    /\ todo' = todo \ {r}
    /\ UNCHANGED <<disk, queue, phase, durable, batch, desired, session, alive,
                   cli, bounds>>

TickEnd ==
    /\ phase = "launch"
    /\ todo = {}
    /\ phase' = "idle"
    /\ durable' = EmptyState
    /\ batch' = {}
    /\ desired' = NoDesire
    /\ UNCHANGED <<disk, queue, todo, session, finished, alive, cli, bounds>>

-----------------------------------------------------------------------------
(* The session goroutine of role r.                                         *)

Ends(r, outcome) ==
    session' = [session EXCEPT ![r].stage = "ended", ![r].outcome = outcome]

CanBlock(r) == r = TeamLead /\ session[r].id \notin UnblockPasses

\* The branch, the report file or the provider cannot be set up.
PrepareFails(r) ==
    /\ session[r].stage = "preparing"
    /\ \E outcome \in {"failed"}
                        \union (IF CanBlock(r) THEN {"blocked"} ELSE {})
                        \union (IF session[r].cancelled THEN {"cancelled"} ELSE {}) :
          Ends(r, outcome)
    /\ UNCHANGED <<disk, queue, tickVars, finished, alive, cli, bounds>>

StartWorker(r) ==
    /\ session[r].stage = "preparing"
    /\ ~session[r].cancelled
    /\ session' = [session EXCEPT ![r].stage = "started"]
    /\ alive' = [alive EXCEPT ![r] = @ + 1]
    /\ UNCHANGED <<disk, queue, tickVars, finished, cli, bounds>>

\* recordWorkerProcess: a failure is only logged.
RecordProcess(r) ==
    LET held == disk.lease[r] IN
    /\ phase \notin Ticking
    /\ session[r].stage = "started"
    /\ session' = [session EXCEPT ![r].stage = "running"]
    /\ IF held.id = session[r].id /\ Unresolved(held)
       THEN \E ok \in BOOLEAN : Commit(WithProcess(disk, r, held.beat), ok)
       ELSE UNCHANGED <<disk, faults>>
    /\ UNCHANGED <<queue, tickVars, finished, alive, cli, now, crashes, granted>>

\* The provider exits, or its process group is killed on cancellation.  A
\* developer's completed run still has to be landed by the merge train.
WorkerExits(r) ==
    /\ session[r].stage = "running"
    /\ alive' = [alive EXCEPT ![r] = @ - 1]
    /\ IF session[r].cancelled
       THEN Ends(r, "cancelled")
       ELSE \/ \E outcome \in {"failed", "usage-limited"} : Ends(r, outcome)
            \/ r = TeamLead /\ Ends(r, "completed")
            \/ CanBlock(r) /\ Ends(r, "blocked")
            \/ r # TeamLead /\ session' = [session EXCEPT ![r].stage = "landing"]
    /\ UNCHANGED <<disk, queue, tickVars, finished, cli, bounds>>

Land(r) ==
    /\ session[r].stage = "landing"
    /\ \E outcome \in {"completed", "failed"} : Ends(r, outcome)
    /\ UNCHANGED <<disk, queue, tickVars, finished, alive, cli, bounds>>

\* Mutant: a usage limit is not reported, as an unknown outcome is not.
ReportCounted(r) ==
    LET held == disk.lease[r] IN
    /\ phase \notin Ticking
    /\ session[r].stage = "ended"
    /\ session' = [session EXCEPT ![r].stage = "reported"]
    /\ IF session[r].outcome # "usage-limited" /\ held.id = session[r].id
       THEN \E ok \in BOOLEAN : Commit(WithResult(disk, r, session[r].outcome, now), ok)
       ELSE UNCHANGED <<disk, faults>>
    /\ UNCHANGED <<queue, tickVars, finished, alive, cli, now, crashes, granted>>

\* reportSessionTerminal: the result is written once, to the lease the
\* session was launched with; an error is only logged.
Report(r) ==
    LET held == disk.lease[r] IN
    /\ phase \notin Ticking
    /\ session[r].stage = "ended"
    /\ session' = [session EXCEPT ![r].stage = "reported"]
    /\ IF held.id = session[r].id /\ Unresolved(held)
       THEN \E ok \in BOOLEAN : Commit(WithResult(disk, r, session[r].outcome, now), ok)
       ELSE UNCHANGED <<disk, faults>>
    /\ UNCHANGED <<queue, tickVars, finished, alive, cli, now, crashes, granted>>

Deregister(r) ==
    /\ session[r].stage = "reported"
    /\ session' = [session EXCEPT ![r] = NoSession]
    /\ UNCHANGED <<disk, queue, tickVars, finished, alive, cli, bounds>>

\* Provider processes of role r that a session goroutine still waits for.
Owned(r) == IF session[r].stage \in {"started", "running"} THEN 1 ELSE 0

\* A provider process that outlived its controller stops on its own.
OrphanExits(r) ==
    /\ alive[r] > Owned(r)
    /\ alive' = [alive EXCEPT ![r] = @ - 1]
    /\ UNCHANGED <<disk, queue, tickVars, session, finished, cli, bounds>>

-----------------------------------------------------------------------------
(* Operators.                                                               *)

\* Mutants: recovery without controller.lock, or of a role that still works.
RecoverWithoutLock(r) ==
    /\ Unresolved(disk.lease[r])
    /\ alive[r] = 0
    /\ \E ok \in BOOLEAN : Commit(WithResult(disk, r, "cancelled", now), ok)
    /\ UNCHANGED <<queue, tickVars, session, finished, alive, cli, now, crashes, granted>>

RecoverUnverified(r) ==
    /\ phase = "down"
    /\ Unresolved(disk.lease[r])
    /\ \E ok \in BOOLEAN : Commit(WithResult(disk, r, "cancelled", now), ok)
    /\ UNCHANGED <<queue, tickVars, session, finished, alive, cli, now, crashes, granted>>

\* "recover --confirm-stopped" needs controller.lock; the operator has
\* checked that no worker of the role is left.
Recover(r) ==
    /\ phase = "down"
    /\ Unresolved(disk.lease[r])
    /\ alive[r] = 0
    /\ \E ok \in BOOLEAN : Commit(WithResult(disk, r, "cancelled", now), ok)
    /\ UNCHANGED <<queue, tickVars, session, finished, alive, cli, now, crashes, granted>>

\* "recover --retry" reads the snapshot before it tries the lock.
ApproveLoad(o, id) ==
    /\ cli[o] = NoCommand
    /\ granted < MaxApprovals
    /\ FindLease(disk, id).outcome \in {"blocked", "failed"}
    /\ granted' = granted + 1
    /\ cli' = [cli EXCEPT ![o] = [stage |-> "loaded", id |-> id,
                                  snap |-> disk, file |-> {}]]
    /\ UNCHANGED <<disk, queue, tickVars, session, finished, alive, now, crashes, faults>>

\* The lock is free: the snapshot that was read is committed.
ApproveCommit(o) ==
    /\ cli[o].stage = "loaded"
    /\ phase = "down"
    /\ \E ok \in BOOLEAN : Commit(WithApprovals(cli[o].snap, {cli[o].id}), ok)
    /\ cli' = [cli EXCEPT ![o] = NoCommand]
    /\ UNCHANGED <<queue, tickVars, session, finished, alive, now, crashes, granted>>

\* A controller holds it: the request file is read, then replaced.
QueueRead(o) ==
    /\ cli[o].stage = "loaded"
    /\ phase # "down"
    /\ cli' = [cli EXCEPT ![o].stage = "queueing", ![o].snap = EmptyState,
                          ![o].file = queue]
    /\ UNCHANGED <<disk, queue, tickVars, session, finished, alive, bounds>>

QueueWrite(o) ==
    /\ cli[o].stage = "queueing"
    /\ queue' = cli[o].file \union {cli[o].id}
    /\ cli' = [cli EXCEPT ![o] = NoCommand]
    /\ UNCHANGED <<disk, tickVars, session, finished, alive, bounds>>

-----------------------------------------------------------------------------
Tick ==
    \/ TickLoad \/ TickConsume \/ TickRemove \/ TickPlan \/ TickEnd
    \/ \E r \in Roles : Launch(r) \/ ReloadFails(r) \/ Delay(r) \/ Skip(r)

SessionStep(r) ==
    \/ PrepareFails(r) \/ StartWorker(r) \/ RecordProcess(r)
    \/ WorkerExits(r) \/ Land(r) \/ Report(r) \/ Deregister(r)

OperatorStep ==
    \/ \E r \in Roles : Recover(r)
    \/ \E o \in Operators, id \in LeaseIDs : ApproveLoad(o, id)
    \/ \E o \in Operators : ApproveCommit(o) \/ QueueRead(o) \/ QueueWrite(o)

Next ==
    \/ Start \/ Crash \/ Shutdown \/ Exit
    \/ Tick
    \/ \E r \in Roles : SessionStep(r) \/ OrphanExits(r)
    \/ OperatorStep

Spec == Init /\ [][Next]_vars
-----------------------------------------------------------------------------
(* Safety.                                                                  *)

\* Type invariant: every variable holds a value the code could hold.
TypeOK ==
    /\ disk \in State
    /\ durable \in State
    /\ queue \subseteq LeaseIDs
    /\ batch \subseteq LeaseIDs
    /\ phase \in Phases
    /\ desired \in [Roles -> LeaseIDs \union {None}]
    /\ todo \subseteq Roles
    /\ session \in [Roles -> Session \union {NoSession}]
    /\ finished \in [Roles -> Finish \union {NoFinish}]
    /\ alive \in [Roles -> Nat]
    /\ cli \in [Operators -> Command \union {NoCommand}]
    /\ {now, crashes, faults, granted} \subseteq Nat

\* Two provider processes never work in one role's workspace, whatever crash,
\* failed commit, restart, manual recovery or approval happened in between:
\* the purpose of the lease that Launch commits before a session starts.
OneWorkerPerRole == \A r \in Roles : alive[r] <= 1

\* While a provider process lives, its role's lease on disk is unresolved, so
\* a controller started after a crash refuses the role until an operator has
\* confirmed that the worker stopped (recoveryLeaseDecision, RecoverStoppedRole).
WorkerHoldsLease == \A r \in Roles : alive[r] > 0 => Unresolved(disk.lease[r])

\* A session that still has a result to report finds its own lease on disk,
\* unresolved: reportSessionTerminal never meets its "not found" or "already
\* has terminal result" errors.
SessionOwnsLease ==
    \A r \in Roles :
       session[r].stage \in Stages \ {"reported"} =>
          disk.lease[r].id = session[r].id /\ Unresolved(disk.lease[r])

\* The attempt count and the result that the scheduler writes always pass
\* ValidateControllerTransition, also for an assignment that comes back from
\* History and after a commit that failed earlier in the same tick.  The one
\* exception: a role's first lease reached the file although its commit
\* reported an error, and the tick's copy does not know of it.
OwnCommitsAccepted ==
    (\A r \in Roles : durable.lease[r] = NoLease => disk.lease[r] = NoLease) =>
       \A r \in todo :
          Launchable(r) =>
             ValidTransition(disk, Granted(durable, r, desired[r], now + 1))

\* The tick's own copy, which may differ from the file after a failed commit,
\* never hands on a role whose lease on disk is unresolved, or is blocked
\* without an approval in the file or among the requests the tick has read.
NoLaunchOverHeldRole ==
    \A r \in todo :
       Launchable(r) =>
          /\ ~Unresolved(disk.lease[r])
          /\ disk.lease[r].outcome = "blocked" =>
                disk.lease[r].id \in disk.approvals \union batch

\* Retries are bounded: an assignment is attempted at most
\* MaxFailedSessionRetries + 1 times, plus once per operator approval and once
\* per write that failed: an approval whose commit failed counts in this tick
\* and, because its request file stays, in the next one too.
AttemptBudget ==
    \A r \in Roles :
       disk.lease[r].attempt <= MaxFailedSessionRetries + 1 + granted + faults

-----------------------------------------------------------------------------
(* What a step may never do.                                                *)

Attempts(s, id) ==
    IF s.lease[RoleOf[id]].id = id THEN s.lease[RoleOf[id]].attempt
    ELSE s.history[id].attempt

\* Operator o commits, or tries to commit, the snapshot it read earlier.
CommitsOldSnapshot(o) ==
    cli[o].stage = "loaded" /\ cli'[o] = NoCommand

\* The attempt count of an assignment never goes back, also when the role
\* works on something else in between ("retaining any prior attempt count").
\* Only the snapshot an operator read before it had the lock brings an earlier
\* count back, and no other than the one it read.
AttemptCountRetained ==
    [][\A id \in LeaseIDs :
         \/ Attempts(disk', id) >= Attempts(disk, id)
         \/ \E o \in Operators :
               /\ CommitsOldSnapshot(o)
               /\ Attempts(disk', id) = Attempts(cli[o].snap, id)]_vars

\* An assignment with a completed result is not launched again.  The Team
\* Lead's unblock pass is the exception the scheduler makes, an assignment a
\* retry was approved for the one the operator makes: the approval may have
\* been queued while the assignment still ran.
CompletedNotRerun ==
    [][\A r \in Roles :
         session[r] = NoSession /\ session'[r] # NoSession =>
           \/ session'[r].id \in UnblockPasses \union disk'.rationale
           \/ \A l \in Evidence(disk) :
                 l.id = session'[r].id => l.outcome # "completed"]_vars

\* Approving a retry does not erase terminal evidence (ApproveTerminalRetry).
ApprovalKeepsEvidence ==
    [][\A o \in Operators :
         CommitsOldSnapshot(o) => Evidence(disk) \subseteq Evidence(disk')]_vars

-----------------------------------------------------------------------------
(* Liveness.  The poll loop runs forever, a provider process ends (it has a  *)
(* turn limit), and a goroutine gets controllerMu because a tick releases it *)
(* for a whole poll interval.  Every pacing delay is finite, so a role that  *)
(* may be launched in every tick is launched in one of them.  Operators,     *)
(* crashes and shutdowns are never obliged to happen.                        *)

Fairness ==
    /\ WF_vars(TickLoad) /\ WF_vars(TickConsume) /\ WF_vars(TickRemove)
    /\ WF_vars(TickPlan) /\ WF_vars(TickEnd)
    /\ \A r \in Roles :
          /\ WF_vars(Delay(r) \/ Skip(r) \/ Launch(r)) /\ SF_vars(Launch(r))
          /\ WF_vars(PrepareFails(r) \/ StartWorker(r))
          /\ WF_vars(WorkerExits(r)) /\ WF_vars(Land(r)) /\ WF_vars(Deregister(r))
          /\ SF_vars(RecordProcess(r)) /\ SF_vars(Report(r))

FairSpec == Spec /\ Fairness

Up == phase \notin {"down", "stopping"}

\* A session that the controller runs ends with a terminal result on disk.
EverySessionReported ==
    \A r \in Roles :
       session[r] # NoSession ~> (Ended(disk.lease[r]) \/ ~Up)

\* A failed run is attempted again while its budget lasts and the board keeps
\* asking for it.
FailedRunRetried ==
    \A r \in Roles :
       (/\ disk.lease[r].outcome = "failed"
        /\ disk.lease[r].attempt <= MaxFailedSessionRetries
        /\ \A b \in Boards : b[r] = disk.lease[r].id)
         ~> (Unresolved(disk.lease[r]) \/ ~Up \/ now = MaxLaunches)

\* A continuation that the board keeps asking for runs once the lease it cites
\* has ended.
ContinuationRuns ==
    \A id \in LeaseIDs :
       (/\ ContinueAfter[id] # None
        /\ Ended(disk.history[ContinueAfter[id]])
        /\ \A b \in Boards : b[RoleOf[id]] = id)
         ~> (disk.lease[RoleOf[id]].id = id \/ ~Up \/ now = MaxLaunches)

\* A failed assignment that an operator approved is attempted once more,
\* however often it failed, as long as the board keeps asking for it.
ApprovedFailureRuns ==
    \A r \in Roles :
       (/\ disk.lease[r].outcome = "failed" /\ disk.lease[r].id \in disk.approvals
        /\ \A b \in Boards : b[r] = disk.lease[r].id)
         ~> (Unresolved(disk.lease[r]) \/ ~Up \/ now = MaxLaunches)

\* An approval that is in the snapshot of a running controller is used, be it
\* for a failed or for a blocked result, as long as the board keeps asking for
\* that assignment.
ApprovedRetryRuns ==
    \A id \in LeaseIDs :
       (id \in disk.approvals /\ \A b \in Boards : b[RoleOf[id]] = id)
         ~> (id \notin disk.approvals \/ ~Up \/ now = MaxLaunches)
=============================================================================
