------------------------------- MODULE Planner -------------------------------
(***************************************************************************)
(* What the Team Lead is asked to do: the poll loop reads the board, and   *)
(* some seconds later, after a git fetch, plans one session for every      *)
(* role.  Leases are those of ControllerState; a lease ID is a hash of the *)
(* role and the key, and a key is a record of what it was made from.       *)
(***************************************************************************)
EXTENDS Naturals, FiniteSets, FiniteSetsExt

CONSTANTS
    Tasks,
    Human,           \* the tasks of category HITL
    Devs,            \* the dev-agent roles, one lane each
    Lead,            \* the Team Lead's role
    None,
    MaxFailedSessionRetries,
    Starts           \* how the system may start: mode, audits, board, and how
                     \* often the board changes and the controller restarts

Roles == Devs \cup {Lead}
Places == {"nowhere", "backlog", "blocked", "archive"} \cup Devs
Board == [place : [Tasks -> Places], deps : [Tasks -> SUBSET Tasks]]

ASSUME PlannerAssumption ==
    /\ IsFiniteSet(Tasks) /\ IsFiniteSet(Devs)
    /\ Human \subseteq Tasks /\ Lead \notin Devs
    /\ MaxFailedSessionRetries \in Nat /\ None \notin Board
    /\ Starts \subseteq [mode : {"planner", "agent"}, audits : BOOLEAN, board : Board,
                         changes : Nat, restarts : Nat]

VARIABLES
    mode,       \* --team-lead-mode
    audits,     \* "Idle audits" of CONFIG.md
    board,      \* the board files
    merged,     \* the tasks whose squash commit is on the base branch
    read,       \* the board as the tick read it, None between ticks
    session,    \* running: the key a role works on, and whether it was cancelled
    before,     \* the board when the Team Lead's session began
    lease,      \* the role's lease in the controller's snapshot
    history,    \* the last ended lease of every key
    finished,   \* the results remembered in memory
    audited,    \* lastAuditedBoardHash
    due,        \* the quiet interval since the last Team Lead launch is over
    rested,     \* the roles whose retry delay is over
    changes, restarts       \* how many are left

memory == <<finished, audited, due>>
durable == <<lease, history>>
settings == <<mode, audits, restarts>>
vars == <<settings, board, merged, read, session, before, durable, memory, rested, changes>>

-----------------------------------------------------------------------------
(* The board.                                                              *)

InLane(b, d) == {t \in Tasks : b.place[t] = d}
Listed(b) == {t \in Tasks : b.place[t] \notin {"nowhere", "archive"}}
Done == {t \in Tasks : board.place[t] = "archive"} \cup merged
Ready(b, t, done) == b.deps[t] \subseteq done

\* More than one task in a lane: its role is not started.
InvalidRoles(b) == {d \in Devs : Cardinality(InLane(b, d)) > 1}
FreeLanes(b) == {d \in Devs : InLane(b, d) = {}}
LanesBusy(b) == \A d \in Devs : Cardinality(InLane(b, d)) = 1

\* UnblockedBlockedTask and FirstBacklogTask: the candidates to be first.
Unblockable(b, done) == {t \in Tasks : b.place[t] = "blocked" /\ Ready(b, t, done)}
Assignable(b, done) ==
    {t \in Tasks \ Human : b.place[t] = "backlog" /\ Ready(b, t, done)}

\* BlockedBacklogIDs.
Waiting(b, done) ==
    {t \in Tasks : \/ b.place[t] = "blocked"
                   \/ b.place[t] = "backlog" /\ ~Ready(b, t, done)}

Owned(b, t) ==
    \/ \E u \in Listed(b) \ {t} : t \in b.deps[u]
    \/ b.deps[t] \cap (Listed(b) \ {t}) # {}

HasOrphanBlocker(b) ==
    \E t \in Tasks \ Human : b.place[t] = "blocked" /\ ~Owned(b, t)

-----------------------------------------------------------------------------
(* Keys.                                                                   *)

\* The fingerprint of a task that sits in a lane.
Work(b, t) == [pass |-> "work", task |-> t, place |-> b.place[t]]
Lanes(b) == {Work(b, t) : t \in {u \in Tasks : b.place[u] \in Devs}}

\* teamLeadScheduleKey.
Schedule(pass, b, t, done) ==
    [pass |-> pass, task |-> t, place |-> b.place[t], lanes |-> Lanes(b), done |-> done]

\* decompositionTaskForBoard: the waiting tasks, and which dependencies hold.
Decompose(b, done) ==
    [pass |-> "decompose",
     waiting |-> {[task |-> t, place |-> b.place[t], deps |-> b.deps[t],
                   held |-> b.deps[t] \cap done] : t \in Waiting(b, done)}]

\* Mutant: only completed sessions are followed up.
EndedDevsCompleted == {d \in Devs : finished[d].outcome = "completed"}

\* completionFollowUpTask.
EndedDevs == {d \in Devs : finished[d].outcome \in {"completed", "failed"}}
FollowUp == [pass |-> "follow-up", ended |-> {<<d, finished[d]>> : d \in EndedDevs}]

\* idleAuditTask: the key names the hour.
Audit == [pass |-> "audit", hour |-> "this"]
PastAudit == [pass |-> "audit", hour |-> "past"]

\* coordinationAction.
Coordinate(b, done) ==
    [pass |-> "coordinate", place |-> [t \in Listed(b) |-> b.place[t]],
     deps |-> [t \in Listed(b) |-> b.deps[t]], done |-> done,
     workers |-> {lease[d] : d \in Devs}]

PassOf(key) == IF key = None THEN "none" ELSE key.pass

-----------------------------------------------------------------------------
(* The snapshot of the controller, as ControllerState sees it.             *)

\* Every key the snapshot tells of.
Known == DOMAIN history \cup ({lease[r].id : r \in Roles} \ {None})

Durable == INSTANCE ControllerState WITH
    TeamLead <- Lead, LeaseIDs <- Known, MaxFailedSessionRetries <- MaxFailedSessionRetries,
    RoleOf <- <<>>, TaskOf <- <<>>, ContinueAfter <- <<>>, PlainOf <- <<>>,
    UnblockPasses <- {k \in Known : k.pass = "unblock"}

NoLease == Durable!NoLease
Snapshot(key) ==
    [lease |-> lease, approvals |-> {},
     history |-> [k \in Known \cup {key} |-> IF k \in DOMAIN history THEN history[k] ELSE NoLease]]

MayLaunch(r, key) == Durable!MayLaunch(Snapshot(key), r, key)
Considered(r, key) == Durable!Considered(Snapshot(key), r, key)

\* A completed unblock pass is repeated like a failed run.
Repeatable(f) ==
    \/ f.outcome = "failed"
    \/ f.outcome = "completed" /\ PassOf(f.id) = "unblock"

-----------------------------------------------------------------------------
(* planTeamLeadAction.                                                     *)

\* A pass for these blockers has ended, at least once.
PassEnded(key) == key \in DOMAIN history

\* A pass for these blockers has completed, or its retries are used up.
PassOver(key) ==
    /\ PassEnded(key)
    /\ LET l == history[key]
       IN  \/ l.outcome = "completed"
           \/ l.outcome = "failed" /\ l.attempt > MaxFailedSessionRetries

\* Mutant: an orphan blocker holds everything up for as long as it stands.
NextWorkBehindOrphan(b, done) ==
    IF HasOrphanBlocker(b) \/ Assignable(b, done) = {} THEN None
    ELSE Schedule("groom", b, CHOOSE t \in Assignable(b, done) : TRUE, done)

\* The unblock or grooming pass the board calls for: unblocking first.  An
\* orphan blocker comes before it, once.
NextWork(b, done) ==
    IF HasOrphanBlocker(b) /\ ~PassEnded(Decompose(b, done)) THEN None
    ELSE IF Unblockable(b, done) # {}
    THEN Schedule("unblock", b, CHOOSE t \in Unblockable(b, done) : TRUE, done)
    ELSE IF Assignable(b, done) # {}
    THEN Schedule("groom", b, CHOOSE t \in Assignable(b, done) : TRUE, done)
    ELSE None

MayAssign(b) == InvalidRoles(b) = {} /\ ~LanesBusy(b)

\* The decomposition pass for what waits on something else.
Candidate(b, done) ==
    IF InvalidRoles(b) = {} /\ Waiting(b, done) # {} THEN Decompose(b, done) ELSE None

AuditRuns == lease[Lead].outcome = "unresolved" /\ PassOf(lease[Lead].id) = "audit"

\* The rest of the plan, when there is no ready work: decomposition or audit.
IdleWork(b, done) ==
    LET candidate == Candidate(b, done)
        over == candidate = None \/ PassOver(candidate)
    IN  IF ~audits THEN None
        ELSE IF ~over THEN candidate
        ELSE IF AuditRuns THEN lease[Lead].id
        ELSE IF due /\ audited # board THEN Audit
        ELSE None

Plan(b, done) ==
    IF EndedDevs # {} THEN FollowUp
    ELSE IF NextWork(b, done) # None /\ MayAssign(b) THEN NextWork(b, done)
    ELSE IdleWork(b, done)

\* What the plan asks of every role.
Desired(b, done) ==
    [r \in Roles |->
        IF r = Lead
        THEN IF mode = "agent" THEN Coordinate(b, done) ELSE Plan(b, done)
        ELSE IF r \notin InvalidRoles(b) /\ InLane(b, r) # {}
        THEN Work(b, CHOOSE t \in InLane(b, r) : TRUE)
        ELSE None]

-----------------------------------------------------------------------------
(* The tick.                                                               *)

NoSession == [id |-> None, cancelled |-> FALSE]
NoFinish == [id |-> None, outcome |-> "none"]
Idle(r) == session[r] = NoSession
Running == {r \in Roles : ~Idle(r)}

ReadBoard ==
    /\ read = None
    /\ read' = board
    /\ UNCHANGED <<settings, board, merged, session, before, durable, memory, rested, changes>>

\* A dev session that the board no longer asks for, and whose task is not
\* done, may be cancelled; the Team Lead's pass is left to finish.
Mismatched(desired, done) ==
    {d \in Devs \cap Running : session[d].id # desired[d] /\ session[d].id.task \notin done}

\* What the loop over the desired roles remembers of ended leases.
Restored(desired, r) ==
    LET f == IF desired[r] = None THEN NoFinish ELSE finished[r]
        l == Considered(r, desired[r])
        shown == \/ l.outcome = "failed"
                 \/ l.outcome = "completed" /\ PassOf(l.id) = "unblock"
                 \/ ~MayLaunch(r, desired[r])
    IN  IF desired[r] = None \/ r \in Running THEN f
        ELSE IF l.id = desired[r] /\ Durable!Ended(l) /\ shown /\ f.id # l.id
        THEN [id |-> l.id, outcome |-> l.outcome]
        ELSE f

\* Mutant: a remembered result keeps its role from any other key, too.
LaunchedUnlessFinished(desired) ==
    {r \in Roles \ Running :
        /\ desired[r] # None
        /\ MayLaunch(r, desired[r])
        /\ LET f == Restored(desired, r)
           IN  f # NoFinish => Repeatable(f) /\ r \in rested}

\* A remembered result keeps its role from being launched for the same key,
\* unless it may be repeated and the delay is over.
Launched(desired) ==
    {r \in Roles \ Running :
        /\ desired[r] # None
        /\ MayLaunch(r, desired[r])
        /\ LET f == Restored(desired, r)
           IN  f.id = desired[r] => Repeatable(f) /\ r \in rested}

\* When the board is unchanged since the last audit the interval starts anew.
AuditSkipped(b, done) ==
    /\ mode = "planner" /\ audits /\ due /\ audited = board
    /\ Plan(b, done) = None

Reconcile ==
    LET done == Done
        desired == Desired(read, done)
        launched == Launched(desired)
    IN  /\ read # None
        /\ read' = None
        /\ \E stopped \in SUBSET Mismatched(desired, done) :
              session' = [r \in Roles |->
                 IF r \in launched THEN [id |-> desired[r], cancelled |-> FALSE]
                 ELSE IF r \in stopped THEN [session[r] EXCEPT !.cancelled = TRUE]
                 ELSE session[r]]
        /\ finished' = [r \in Roles |->
                 IF r \in launched THEN NoFinish ELSE Restored(desired, r)]
        /\ lease' = [r \in Roles |->
                 IF r \in launched
                 THEN Durable!NewLease(Snapshot(desired[r]), r, desired[r], 0)
                 ELSE lease[r]]
        /\ before' = IF Lead \in launched THEN board ELSE before
        /\ due' = (due /\ Lead \notin launched /\ ~AuditSkipped(read, done))
        /\ UNCHANGED <<settings, board, merged, history, audited, rested, changes>>

-----------------------------------------------------------------------------
(* Sessions end.                                                           *)

Report(r, outcome) ==
    LET l == [lease[r] EXCEPT !.outcome = outcome]
    IN  /\ lease' = [lease EXCEPT ![r] = l]
        /\ history' = [k \in DOMAIN history \cup {l.id} |-> IF k = l.id THEN l ELSE history[k]]
        /\ session' = [session EXCEPT ![r] = NoSession]
        /\ rested' = IF Repeatable(l) THEN rested \ {r} ELSE rested

\* A session that was cancelled may have failed before, or while it landed.
DevFails(d) ==
    /\ ~Idle(d)
    /\ \E outcome \in {"failed", "cancelled"} :
          /\ outcome = "cancelled" => session[d].cancelled
          /\ Report(d, outcome)
    /\ UNCHANGED <<settings, board, merged, read, before, memory, changes>>

\* The merge train has landed the task; the archive may not have been written.
\* A landing that has begun goes on when its session is cancelled.
DevLands(d) ==
    LET t == session[d].id.task
    IN  /\ ~Idle(d)
        /\ Report(d, "completed")
        /\ merged' = merged \cup {t}
        /\ board' \in {board, [board EXCEPT !.place[t] = "archive"]}
        /\ UNCHANGED <<settings, read, before, memory, changes>>

\* runTeamLead: a pass that changed nothing is a failure, but for an audit; a
\* coordination pass reports for itself.
LeadEnds(outcome) ==
    LET pass == PassOf(session[Lead].id)
        judged == IF /\ outcome = "completed" /\ board = before
                     /\ pass \notin {"audit", "coordinate"}
                  THEN "failed" ELSE outcome
    IN  /\ ~Idle(Lead)
        /\ outcome = "blocked" => pass = "coordinate"
        /\ Report(Lead, judged)
        /\ audited' = IF pass = "audit" /\ outcome = "completed" THEN board ELSE audited
        /\ before' = None
        /\ UNCHANGED <<settings, board, merged, read, finished, due, changes>>

-----------------------------------------------------------------------------
(* What happens meanwhile.                                                 *)

\* Board commands, given by agents and by people: assign, block, requeue,
\* archive, and the creation of a task that another one is to wait for.
Commands(b) ==
    {[b EXCEPT !.place[t] = d] :
        t \in {u \in Tasks : b.place[u] \in {"backlog", "blocked"} /\ Ready(b, u, Done)},
        d \in FreeLanes(b)}
    \cup {[b EXCEPT !.place[t] = p] : t \in Listed(b), p \in {"blocked", "backlog", "archive"}}
    \cup UNION {{[b EXCEPT !.place[o] = "backlog", !.deps[t] = @ \cup {o}] :
                    t \in {u \in Tasks : b.place[u] = "blocked"}} :
                    o \in {u \in Tasks : b.place[u] = "nowhere"}}

\* A person may also put a second task into a lane.
Edits(b) == {[b EXCEPT !.place[t] = d] : t \in Listed(b), d \in Devs}

BoardChanges ==
    /\ changes > 0
    /\ board' \in (Commands(board) \cup Edits(board)) \ {board}
    /\ changes' = changes - 1
    /\ UNCHANGED <<settings, merged, read, session, before, durable, memory, rested>>

RetryDelayPasses(r) ==
    /\ r \notin rested
    /\ rested' = rested \cup {r}
    /\ UNCHANGED <<settings, board, merged, read, session, before, durable, memory, changes>>

\* The quiet interval since the last launch of the Team Lead is over, and with
\* it the hour that the last audit was named after.  Only audits depend on it.
HourPasses ==
    /\ audits /\ ~due
    /\ due' = TRUE
    /\ LET past(k) == IF k = Audit THEN PastAudit ELSE k
           aged(l) == [l EXCEPT !.id = past(l.id)]
       IN  /\ lease' = [lease EXCEPT ![Lead] = aged(lease[Lead])]
           /\ session' = [session EXCEPT ![Lead].id = past(session[Lead].id)]
           /\ finished' = [finished EXCEPT ![Lead].id = past(finished[Lead].id)]
           /\ history' = [k \in DOMAIN history \ {Audit, PastAudit} |-> history[k]]
    /\ UNCHANGED <<mode, audits, restarts, board, merged, read, before, audited, rested, changes>>

\* The controller was stopped when no session ran, and starts again.
Restart ==
    /\ Running = {} /\ read = None /\ restarts > 0
    /\ restarts' = restarts - 1
    /\ finished' = [r \in Roles |-> NoFinish]
    /\ audited' = None
    /\ due' = FALSE
    /\ UNCHANGED <<mode, audits, board, merged, read, session, before, durable, rested, changes>>

Init ==
    /\ \E s \in Starts :
          /\ mode = s.mode /\ audits = s.audits /\ board = s.board
          /\ changes = s.changes /\ restarts = s.restarts
    /\ merged = {} /\ rested = Roles
    /\ read = None /\ before = None
    /\ session = [r \in Roles |-> NoSession]
    /\ lease = [r \in Roles |-> NoLease] /\ history = <<>>
    /\ finished = [r \in Roles |-> NoFinish]
    /\ audited = None /\ due = FALSE

DevStep(d) == DevFails(d) \/ DevLands(d)
LeadStep == \E outcome \in {"completed", "failed", "blocked"} : LeadEnds(outcome)

Next ==
    \/ ReadBoard
    \/ Reconcile
    \/ \E d \in Devs : DevStep(d)
    \/ LeadStep
    \/ \E r \in Roles : RetryDelayPasses(r)
    \/ BoardChanges \/ HourPasses \/ Restart

Spec == Init /\ [][Next]_vars

\* The poll loop runs for ever, sessions have a turn limit, and time passes.
Polls ==
    \/ read = None /\ read' = board
    \/ read # None /\ read' = None

FairSpec ==
    /\ Spec
    /\ WF_read(Polls) /\ WF_due(HourPasses)
    /\ \A r \in Roles : WF_rested(RetryDelayPasses(r))
    /\ WF_session(LeadStep)
    /\ \A d \in Devs : WF_session(DevStep(d))

-----------------------------------------------------------------------------
(* Properties.                                                             *)

\* A role is held by the lease of its session, attempts stay in the budget, and
\* the history tells of ended leases (session.go:74-93, scheduler.go:33-57).
TypeOK ==
    /\ board \in Board /\ merged \subseteq Tasks
    /\ read \in {None} \cup Board
    /\ \A r \in Roles :
          /\ session[r].id # None => lease[r].id = session[r].id
          /\ session[r].id # None <=> Durable!Unresolved(lease[r])
          /\ lease[r].attempt \in 0 .. MaxFailedSessionRetries + 1
    /\ \A k \in DOMAIN history : history[k].id = k /\ Durable!Ended(history[k])

\* The pass that ready work calls for, whatever else the planner has to do.
ReadyTasks == Unblockable(board, Done) \cup Assignable(board, Done)
ReadyPass ==
    IF Unblockable(board, Done) # {}
    THEN Schedule("unblock", board, CHOOSE t \in Unblockable(board, Done) : TRUE, Done)
    ELSE Schedule("groom", board, CHOOSE t \in Assignable(board, Done) : TRUE, Done)
WorkWaits ==
    mode = "planner" /\ ReadyTasks # {} /\ MayAssign(board) /\ ReadyPass \notin Known

\* Ready work with a free lane does not wait for ever for its pass, also behind
\* an orphan blocker that stays (scheduler.go:289-305), while audits are on and
\* no ended session is left in a lane.
ReadyWorkReached == []<>(WorkWaits => ~audits \/ EndedDevs # {})

\* Every result that is remembered for a lane comes before the Team Lead, or
\* goes away (scheduler.go:307-311, 575-640).
EndedSessionsFollowedUp ==
    \A d \in Devs :
        []<>(mode = "planner" /\ finished[d].outcome \in {"completed", "failed"} =>
                \E k \in Known : k.pass = "follow-up" /\ <<d, finished[d]>> \in k.ended)

\* In agent mode a changed snapshot triggers another session, unless the Team
\* Lead's last result awaits review (README.md:114, team_lead_agent.go:36-78).
ChangesCoordinated ==
    []<>(mode = "agent" /\ lease[Lead].outcome # "blocked" => Coordinate(board, Done) \in Known)

Ends(r) == ~Idle(r) /\ session'[r] = NoSession
LeadStarts == Idle(Lead) /\ session'[Lead] # NoSession

\* A failed audit is repeated in the next hour, under another key, for ever.
Activity ==
    \/ board' # board
    \/ Ends(Lead) /\ PassOf(session[Lead].id) = "audit" /\ lease'[Lead].outcome = "failed"

\* The Team Lead is not started over and over for a board that nobody changes,
\* however its passes end: those that change nothing are failures and use up
\* their retries, and an audit that was completed stands for its board
\* (scheduler.go:336-376, session.go:192-200).  Only failing audits go on.
QuietBoard == []<><<LeadStarts>>_vars => []<><<Activity>>_vars

-----------------------------------------------------------------------------
(* What a comment says, and the code does not do.                          *)

\* The follow-up "gives the Team Lead one bounded pass to close the loop before
\* more work is assigned" (scheduler.go:223-225): once that pass has ended, ready
\* work does not wait for ever behind it.
FollowUpYields == []<>(WorkWaits /\ PassEnded(FollowUp) => ~audits)
=============================================================================
