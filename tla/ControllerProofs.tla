-------------------------- MODULE ControllerProofs --------------------------
(***************************************************************************)
(* Proofs about Controller: type correctness, the lease properties from    *)
(* the inductive invariant of ControllerInvariant, and the refinement of   *)
(* RoleLease, for every value of the constants.                            *)
(***************************************************************************)
EXTENDS ControllerInvariant, TLAPS

-----------------------------------------------------------------------------
(* Facts about the pure functions of ControllerState.                       *)

\* A role with an unresolved lease is never launched (recoveryLeaseDecision).
LEMMA HeldRoleRefused ==
    ASSUME NEW s \in State, NEW r \in Roles, NEW id \in LeaseIDs, MayLaunch(s, r, id)
    PROVE  ~Unresolved(s.lease[r])
BY DEF MayLaunch, NoLease, Ended, Unresolved, Outcomes

\* The lease a launch decision is about is a lease of the snapshot.
LEMMA ConsideredType ==
    ASSUME NEW s \in State, NEW r \in Roles, NEW id \in LeaseIDs
    PROVE  Considered(s, r, id) \in Lease \union {NoLease}
BY DEF Considered, State

LEMMA NewLeaseType ==
    ASSUME NEW s \in State, NEW r \in Roles, NEW id \in LeaseIDs, NEW at \in Nat
    PROVE  NewLease(s, r, id, at) \in Lease
<1> DEFINE l == Considered(s, r, id)
<1>1. l \in Lease \union {NoLease}
  BY ConsideredType
<1>2. l.id = id => l \in Lease
  BY <1>1, StateAssumption DEF NoLease
<1>3. NextAttempt(s, r, id) \in Nat \ {0}
  <2>1. CASE l.id # id
    BY <2>1 DEF NextAttempt
  <2>2. CASE l.id = id
    <3>1. l.attempt \in Nat \ {0}
      BY <1>2, <2>2 DEF Lease
    <3> QED
      BY <2>2, <3>1 DEF NextAttempt
  <2> QED
    BY <2>1, <2>2
<1> QED
  BY <1>3 DEF NewLease, Lease, Outcomes

LEMMA EmptyStateType == EmptyState \in State
BY DEF EmptyState, State

LEMMA EndedIsLease ==
    ASSUME NEW l \in Lease \union {NoLease}, Ended(l)
    PROVE  l \in Lease
BY DEF Ended, NoLease, Outcomes

LEMMA ArchiveType ==
    ASSUME NEW s \in State, NEW l \in Lease \union {NoLease}
    PROVE  Archive(s, l) \in [LeaseIDs -> Lease \union {NoLease}]
<1>1. s.history \in [LeaseIDs -> Lease \union {NoLease}]
  BY DEF State
<1>2. CASE Ended(l)
  <2>1. l \in Lease
    BY <1>2, EndedIsLease
  <2>2. l.id \in LeaseIDs
    BY <2>1 DEF Lease
  <2> QED
    BY <1>1, <1>2, <2>1, <2>2 DEF Archive
<1>3. CASE ~Ended(l)
  BY <1>1, <1>3 DEF Archive
<1> QED
  BY <1>2, <1>3

\* The snapshot a launch proposes is well formed.
LEMMA GrantedType ==
    ASSUME NEW s \in State, NEW r \in Roles, NEW id \in LeaseIDs, NEW at \in Nat
    PROVE  /\ Granted(s, r, id, at) \in State
           /\ RefusedGrant(s, r, id, at) \in State
<1> DEFINE g == Granted(s, r, id, at)
<1>1. NewLease(s, r, id, at) \in Lease
  BY NewLeaseType
<1>2. s.lease[r] \in Lease \union {NoLease}
  BY DEF State
<1>3. g.lease \in [Roles -> Lease \union {NoLease}]
  BY <1>1 DEF Granted, State
<1>4. g.history \in [LeaseIDs -> Lease \union {NoLease}]
  BY <1>2, ArchiveType DEF Granted
<1>5. g.approvals \in SUBSET LeaseIDs
  BY DEF Granted, State
<1>6. g.past \in SUBSET Lease
  BY <1>2, EndedIsLease DEF Granted, State
<1>7. g.rationale \in SUBSET LeaseIDs
  BY DEF Granted, State
<1>8. g \in State
  BY <1>3, <1>4, <1>5, <1>6, <1>7 DEF Granted, State
<1>9. RefusedGrant(s, r, id, at) \in State
  BY <1>8 DEF RefusedGrant, State
<1> QED
  BY <1>8, <1>9

LEMMA WithResultType ==
    ASSUME NEW s \in State, NEW r \in Roles, Unresolved(s.lease[r]),
           NEW outcome \in Outcomes, NEW at \in Nat
    PROVE  WithResult(s, r, outcome, at) \in State
<1> DEFINE l == [s.lease[r] EXCEPT !.outcome = outcome, !.beat = at]
<1>1. s.lease[r] \in Lease
  BY DEF State, Unresolved, NoLease
<1>2. l \in Lease /\ l.id \in LeaseIDs
  BY <1>1 DEF Lease
<1> QED
  BY <1>2 DEF WithResult, State

\* A result touches the lease of its own role only.
LEMMA ResultLeases ==
    ASSUME NEW s \in State, NEW r \in Roles, Unresolved(s.lease[r]),
           NEW outcome \in Outcomes, NEW at \in Nat
    PROVE  /\ \A q \in Roles \ {r} : WithResult(s, r, outcome, at).lease[q] = s.lease[q]
           /\ WithResult(s, r, outcome, at).lease[r].outcome = outcome
           /\ WithResult(s, r, outcome, at).lease[r].beat = at
<1> DEFINE l == [s.lease[r] EXCEPT !.outcome = outcome, !.beat = at]
<1>1. s.lease[r] \in Lease
  BY DEF State, Unresolved, NoLease
<1>2. l.outcome = outcome /\ l.beat = at
  BY <1>1 DEF Lease
<1>3. WithResult(s, r, outcome, at).lease = [s.lease EXCEPT ![r] = l]
  BY DEF WithResult, State
<1> HIDE DEF l
<1> QED
  BY <1>2, <1>3 DEF State

LEMMA WithProcessType ==
    ASSUME NEW s \in State, NEW r \in Roles, Unresolved(s.lease[r]), NEW p \in Nat
    PROVE  WithProcess(s, r, p) \in State
<1>1. s.lease[r] \in Lease
  BY DEF State, Unresolved, NoLease
<1>2. [s.lease[r] EXCEPT !.process = p] \in Lease
  BY <1>1 DEF Lease
<1> QED
  BY <1>2 DEF WithProcess, State

LEMMA WithApprovalsType ==
    ASSUME NEW s \in State, NEW ids \in SUBSET LeaseIDs
    PROVE  /\ WithApprovals(s, ids) \in State
           /\ WithApprovals(s, ids).lease = s.lease
BY DEF WithApprovals, State

\* ValidateControllerTransition lets an unresolved lease only go on: the same
\* assignment and attempt, and no earlier heartbeat.
LEMMA UnresolvedGoesOn ==
    ASSUME NEW s \in State, NEW t \in State, NEW r \in Roles,
           ValidTransition(s, t), Unresolved(s.lease[r])
    PROVE  /\ t.lease[r] \in Lease
           /\ t.lease[r].id = s.lease[r].id
           /\ t.lease[r].attempt = s.lease[r].attempt
           /\ t.lease[r].beat >= s.lease[r].beat
<1> DEFINE old == s.lease[r]
<1> DEFINE new == t.lease[r]
<1>1. old \in Lease
  BY DEF State, Unresolved, NoLease
<1>2. old.id # None /\ ~Ended(old) /\ old.outcome \notin Uncounted
  BY <1>1, StateAssumption DEF Lease, Ended, Unresolved, Outcomes, Uncounted
<1>3. new.id = old.id /\ Observes(old, new)
  BY <1>2 DEF ValidTransition, LeaseMoves, Replaces, Resumes, Retries
<1>4. new \in Lease
  BY <1>2, <1>3 DEF State, NoLease
<1> QED
  BY <1>3, <1>4 DEF Observes

-----------------------------------------------------------------------------
(* Type correctness.                                                        *)

\* The values that stand for "nothing" and the defaults are well typed.
LEMMA Defaults ==
    /\ EmptyState \in State
    /\ NoDesire \in [Roles -> LeaseIDs \union {None}]
    /\ [r \in Roles |-> NoSession] \in [Roles -> Session \union {NoSession}]
    /\ [r \in Roles |-> NoFinish] \in [Roles -> Finish \union {NoFinish}]
BY EmptyStateType DEF NoDesire

LEMMA TypeInit == Init => TypeInv
<1> SUFFICES ASSUME Init PROVE TypeInv
  OBVIOUS
<1>1. cli \in [Operators -> Command \union {NoCommand}]
  BY DEF Init
<1>2. {now, crashes, faults, granted} \subseteq Nat
  BY DEF Init
<1>3. alive \in [Roles -> Nat]
  BY DEF Init
<1> QED
  BY <1>1, <1>2, <1>3, Defaults DEF Init, TypeInv, TypeOK, Phases

\* Commit leaves the old snapshot or, if it is valid, the candidate; a commit
\* that reports success has written the candidate.
LEMMA CommitOutcome ==
    ASSUME NEW ACTION cand, NEW ok \in BOOLEAN, Commit(cand, ok),
           faults \in Nat, MaxFaults \in Nat
    PROVE  /\ disk' = disk \/ (ValidTransition(disk, cand) /\ disk' = cand)
           /\ ok => ValidTransition(disk, cand) /\ disk' = cand
           /\ faults' \in Nat
BY DEF Commit

\* Cancelling sessions changes neither their assignment nor their stage, and
\* nothing of a session that has ended.
LEMMA CancelledStays ==
    ASSUME session \in [Roles -> Session \union {NoSession}],
           NEW roles \in SUBSET Roles, NEW r \in Roles
    PROVE  /\ Cancelled(roles)[r] \in Session \union {NoSession}
           /\ Cancelled(roles)[r].stage = session[r].stage
           /\ Cancelled(roles)[r].id = session[r].id
           /\ session[r].stage = "ended" => Cancelled(roles)[r] = session[r]
<1> DEFINE cancelling == r \in roles /\ session[r].stage \in {"preparing", "started", "running"}
<1>1. Cancelled(roles)[r] = IF cancelling THEN [session[r] EXCEPT !.cancelled = TRUE]
                            ELSE session[r]
  BY DEF Cancelled
<1>2. CASE cancelling
  <2>1. session[r] # NoSession /\ session[r] \in Session
    BY <1>2 DEF NoSession
  <2>2. [session[r] EXCEPT !.cancelled = TRUE] \in Session
    BY <2>1 DEF Session
  <2> QED
    BY <1>1, <1>2, <2>1, <2>2 DEF Session
<1>3. CASE ~cancelling
  BY <1>1, <1>3
<1> QED
  BY <1>2, <1>3

LEMMA CancelledType ==
    ASSUME session \in [Roles -> Session \union {NoSession}],
           NEW roles \in SUBSET Roles
    PROVE  Cancelled(roles) \in [Roles -> Session \union {NoSession}]
<1>1. \A r \in Roles : Cancelled(roles)[r] \in Session \union {NoSession}
  BY CancelledStays
<1> QED
  BY <1>1 DEF Cancelled

Sessions == [Roles -> Session \union {NoSession}]

\* A session that changes stage is still a session.
LEMMA SessionMoves ==
    ASSUME session \in Sessions, NEW r \in Roles, session[r].stage \in Stages,
           NEW stage \in Stages
    PROVE  [session EXCEPT ![r].stage = stage] \in Sessions
<1>1. session[r] \in Session
  BY DEF Sessions, NoSession, Stages
<1>2. [session[r] EXCEPT !.stage = stage] \in Session
  BY <1>1 DEF Session
<1> QED
  BY <1>2 DEF Sessions

LEMMA EndsType ==
    ASSUME session \in Sessions, NEW r \in Roles, session[r].stage \in Stages,
           NEW outcome \in Outcomes, Ends(r, outcome)
    PROVE  /\ session' \in Sessions
           /\ session'[r].stage = "ended"
           /\ session'[r].outcome = outcome
           /\ session'[r].id = session[r].id
           /\ \A q \in Roles \ {r} : session'[q] = session[q]
<1>1. session[r] \in Session
  BY DEF Sessions, NoSession, Stages
<1>2. session' = [session EXCEPT ![r] = [session[r] EXCEPT !.stage = "ended", !.outcome = outcome]]
  BY DEF Ends, Sessions
<1>3. [session[r] EXCEPT !.stage = "ended", !.outcome = outcome] \in Session
  BY <1>1 DEF Session, Stages
<1> QED
  BY <1>1, <1>2, <1>3 DEF Sessions, Session

\* What the finished map remembers of a role is the result of a lease.
LEMMA RememberedType ==
    ASSUME TypeInv, NEW r \in todo
    PROVE  Remembered(r) \in Finish \union {NoFinish}
<1> DEFINE l == Considered(durable, r, desired[r])
<1>1. /\ durable \in State
      /\ r \in Roles
      /\ desired[r] \in LeaseIDs
      /\ finished[r] \in Finish \union {NoFinish}
  BY DEF TypeInv, TypeOK
<1>2. l \in Lease \union {NoLease}
  BY <1>1, ConsideredType
<1>3. Ended(l) => [id |-> l.id, outcome |-> l.outcome] \in Finish
  BY <1>2, EndedIsLease DEF Ended, Lease, Finish
<1> QED
  BY <1>1, <1>3 DEF Remembered

\* Type correctness of one step.
LEMMA TypeStep == LeaseInv /\ [Next]_vars => TypeInv'
<1> SUFFICES ASSUME TypeInv, WorkersCounted, ResultKnown, [Next]_vars PROVE TypeInv'
  BY DEF LeaseInv
<1> USE ControllerAssumption DEF TypeInv, TypeOK, bounds, tickVars
<1>1. CASE Start
  BY <1>1 DEF Start, Phases
<1>2. CASE Crash
  BY <1>2, Defaults DEF Crash, Stop, Phases
<1>3. CASE Shutdown
  BY <1>3, CancelledType DEF Shutdown, Phases
<1>4. CASE Exit
  BY <1>4, Defaults DEF Exit, Stop, Phases
<1>5. CASE TickLoad
  BY <1>5 DEF TickLoad, Phases, Ticking
<1>6. CASE TickConsume
  BY <1>6, WithApprovalsType, CommitOutcome DEF TickConsume, Phases, Ticking
<1>7. CASE TickRemove
  BY <1>7 DEF TickRemove, Phases, Ticking
<1>8. CASE TickPlan
  <2>1. PICK board \in Boards :
          desired' = [r \in Roles |-> IF board[r] = None THEN None
                                      ELSE ContinuationKey(durable, board[r])]
    BY <1>8 DEF TickPlan
  <2>2. \A r \in Roles : board[r] \in LeaseIDs \union {None}
    OBVIOUS
  <2>3. \A id \in LeaseIDs : ContinuationKey(durable, id) \in LeaseIDs
    BY StateAssumption DEF ContinuationKey
  <2>4. desired' \in [Roles -> LeaseIDs \union {None}]
    BY <2>1, <2>2, <2>3
  <2>5. todo' \subseteq Roles /\ \A r \in todo' : desired'[r] \in LeaseIDs
    BY <1>8, <2>4 DEF TickPlan
  <2>6. finished' \in [Roles -> Finish \union {NoFinish}]
    BY <1>8 DEF TickPlan
  <2>7. session' \in Sessions
    <3>1. PICK stale \in SUBSET Roles : session' = Cancelled(stale)
      BY <1>8 DEF TickPlan
    <3> QED
      BY <3>1, CancelledType DEF Sessions
  <2> QED
    BY <1>8, <2>4, <2>5, <2>6, <2>7 DEF TickPlan, Phases, Ticking, Sessions
<1>9. CASE TickEnd
  BY <1>9, Defaults DEF TickEnd, Phases
<1>10. ASSUME NEW r \in Roles, Launch(r) PROVE TypeInv'
  <2>1. r \in todo /\ desired[r] \in LeaseIDs /\ now' = now + 1 /\ now' \in Nat
    BY <1>10 DEF Launch, Launchable
  <2> DEFINE cand == Granted(durable, r, desired[r], now')
  <2>2. cand \in State /\ RefusedGrant(durable, r, desired[r], now') \in State
    BY <2>1, GrantedType
  <2>3. disk' \in State /\ faults' \in Nat
    BY <1>10, <2>2, CommitOutcome DEF Launch
  <2>4. durable' \in State
    BY <1>10, <2>2, <2>3 DEF Launch
  <2>5. session' \in Sessions
    <3>1. [id |-> desired[r], stage |-> "preparing", cancelled |-> FALSE,
           outcome |-> "unknown"] \in Session
      BY <2>1 DEF Session, Stages
    <3> QED
      BY <1>10, <3>1 DEF Launch, Sessions
  <2>6. finished' \in [Roles -> Finish \union {NoFinish}]
    BY <1>10 DEF Launch
  <2> QED
    BY <1>10, <2>1, <2>3, <2>4, <2>5, <2>6 DEF Launch, Sessions
<1>11. ASSUME NEW r \in Roles, ReloadFails(r) PROVE TypeInv'
  <2>1. r \in todo /\ desired[r] \in LeaseIDs /\ now' = now + 1 /\ now' \in Nat
    BY <1>11 DEF ReloadFails, Launchable
  <2>2. disk' \in State /\ durable' \in State
    BY <1>11, <2>1, GrantedType, Defaults DEF ReloadFails
  <2>3. finished' \in [Roles -> Finish \union {NoFinish}]
    BY <1>11 DEF ReloadFails
  <2> QED
    BY <1>11, <2>1, <2>2, <2>3 DEF ReloadFails
<1>12. ASSUME NEW r \in Roles, Delay(r) PROVE TypeInv'
  <2>1. Remembered(r) \in Finish \union {NoFinish}
    BY <1>12, RememberedType DEF Delay, Launchable
  <2>2. finished' \in [Roles -> Finish \union {NoFinish}]
    BY <1>12, <2>1 DEF Delay
  <2> QED
    BY <1>12, <2>2 DEF Delay
<1>13. ASSUME NEW r \in Roles, Skip(r) PROVE TypeInv'
  <2>1. Remembered(r) \in Finish \union {NoFinish}
    BY <1>13, RememberedType DEF Skip
  <2>2. finished' \in [Roles -> Finish \union {NoFinish}]
    BY <1>13, <2>1 DEF Skip
  <2> QED
    BY <1>13, <2>2 DEF Skip
<1>14. ASSUME NEW r \in Roles, PrepareFails(r) PROVE TypeInv'
  <2>1. session' \in Sessions
    <3>1. PICK outcome \in Outcomes : Ends(r, outcome)
      BY <1>14 DEF PrepareFails, Outcomes
    <3> QED
      BY <1>14, <3>1, EndsType DEF PrepareFails, Stages, Sessions
  <2> QED
    BY <1>14, <2>1 DEF PrepareFails, Sessions
<1>15. ASSUME NEW r \in Roles, StartWorker(r) PROVE TypeInv'
  <2>1. session' \in Sessions
    BY <1>15, SessionMoves DEF StartWorker, Sessions, Stages
  <2>2. alive' \in [Roles -> Nat]
    BY <1>15 DEF StartWorker
  <2> QED
    BY <1>15, <2>1, <2>2 DEF StartWorker, Sessions
<1>16. ASSUME NEW r \in Roles, RecordProcess(r) PROVE TypeInv'
  <2>1. session' \in Sessions
    BY <1>16, SessionMoves DEF RecordProcess, Sessions, Stages
  <2>2. disk' \in State /\ faults' \in Nat
    <3>1. CASE disk.lease[r].id = session[r].id /\ Unresolved(disk.lease[r])
      <4>1. disk.lease[r].beat \in Nat
        BY DEF State, Lease, NoLease
      <4>2. WithProcess(disk, r, disk.lease[r].beat) \in State
        BY <3>1, <4>1, WithProcessType
      <4> QED
        BY <1>16, <3>1, <4>2, CommitOutcome DEF RecordProcess
    <3>2. CASE ~(disk.lease[r].id = session[r].id /\ Unresolved(disk.lease[r]))
      BY <1>16, <3>2 DEF RecordProcess
    <3> QED
      BY <3>1, <3>2
  <2> QED
    BY <1>16, <2>1, <2>2 DEF RecordProcess, Sessions
<1>17. ASSUME NEW r \in Roles, WorkerExits(r) PROVE TypeInv'
  <2>1. session' \in Sessions
    <3>1. session' = [session EXCEPT ![r].stage = "landing"]
            \/ \E outcome \in Outcomes : Ends(r, outcome)
      BY <1>17 DEF WorkerExits, Outcomes
    <3>2. session \in Sessions /\ session[r].stage \in Stages
      BY <1>17 DEF WorkerExits, Sessions, Stages
    <3>3. CASE session' = [session EXCEPT ![r].stage = "landing"]
      BY <3>2, <3>3, SessionMoves DEF Stages
    <3>4. ASSUME NEW outcome \in Outcomes, Ends(r, outcome) PROVE session' \in Sessions
      BY <3>2, <3>4, EndsType
    <3> QED
      BY <3>1, <3>3, <3>4
  <2>2. alive' \in [Roles -> Nat]
    BY <1>17 DEF WorkerExits, WorkersCounted
  <2> QED
    BY <1>17, <2>1, <2>2 DEF WorkerExits, Sessions
<1>18. ASSUME NEW r \in Roles, Land(r) PROVE TypeInv'
  <2>1. session' \in Sessions
    <3>1. PICK outcome \in Outcomes : Ends(r, outcome)
      BY <1>18 DEF Land, Outcomes
    <3> QED
      BY <1>18, <3>1, EndsType DEF Land, Stages, Sessions
  <2> QED
    BY <1>18, <2>1 DEF Land, Sessions
<1>19. ASSUME NEW r \in Roles, Report(r) PROVE TypeInv'
  <2>1. session' \in Sessions
    BY <1>19, SessionMoves DEF Report, Sessions, Stages
  <2>2. disk' \in State /\ faults' \in Nat
    <3>1. CASE disk.lease[r].id = session[r].id /\ Unresolved(disk.lease[r])
      <4>1. WithResult(disk, r, session[r].outcome, now) \in State
        BY <1>19, <3>1, WithResultType DEF Report, ResultKnown
      <4> QED
        BY <1>19, <3>1, <4>1, CommitOutcome DEF Report
    <3>2. CASE ~(disk.lease[r].id = session[r].id /\ Unresolved(disk.lease[r]))
      BY <1>19, <3>2 DEF Report
    <3> QED
      BY <3>1, <3>2
  <2> QED
    BY <1>19, <2>1, <2>2 DEF Report, Sessions
<1>20. ASSUME NEW r \in Roles, Deregister(r) PROVE TypeInv'
  BY <1>20 DEF Deregister
<1>21. ASSUME NEW r \in Roles, OrphanExits(r) PROVE TypeInv'
  BY <1>21 DEF OrphanExits, Owned
<1>22. ASSUME NEW r \in Roles, Recover(r) PROVE TypeInv'
  <2>1. WithResult(disk, r, "cancelled", now) \in State
    BY <1>22, WithResultType DEF Recover, Outcomes
  <2>2. disk' \in State /\ faults' \in Nat
    BY <1>22, <2>1, CommitOutcome DEF Recover
  <2> QED
    BY <1>22, <2>2 DEF Recover
<1>23. ASSUME NEW o \in Operators, NEW id \in LeaseIDs, ApproveLoad(o, id) PROVE TypeInv'
  BY <1>23 DEF ApproveLoad, Command
<1>24. ASSUME NEW o \in Operators, ApproveCommit(o) PROVE TypeInv'
  <2>1. cli[o] \in Command
    BY <1>24 DEF ApproveCommit, NoCommand
  <2>2. WithApprovals(cli[o].snap, {cli[o].id}) \in State
    BY <2>1, WithApprovalsType DEF Command
  <2>3. disk' \in State /\ faults' \in Nat
    BY <1>24, <2>2, CommitOutcome DEF ApproveCommit
  <2>4. cli' \in [Operators -> Command \union {NoCommand}]
    BY <1>24 DEF ApproveCommit
  <2> QED
    BY <1>24, <2>3, <2>4 DEF ApproveCommit
<1>25. ASSUME NEW o \in Operators, QueueRead(o) PROVE TypeInv'
  <2>1. cli[o] \in Command
    BY <1>25 DEF QueueRead, NoCommand
  <2>2. [cli[o] EXCEPT !.stage = "queueing", !.snap = EmptyState, !.file = queue] \in Command
    BY <2>1, Defaults DEF Command
  <2>3. cli' \in [Operators -> Command \union {NoCommand}]
    BY <1>25, <2>2 DEF QueueRead
  <2> QED
    BY <1>25, <2>3 DEF QueueRead
<1>26. ASSUME NEW o \in Operators, QueueWrite(o) PROVE TypeInv'
  <2>1. cli[o] \in Command
    BY <1>26 DEF QueueWrite, NoCommand
  <2>2. queue' \subseteq LeaseIDs
    BY <1>26, <2>1 DEF QueueWrite, Command
  <2>3. cli' \in [Operators -> Command \union {NoCommand}]
    BY <1>26 DEF QueueWrite
  <2> QED
    BY <1>26, <2>2, <2>3 DEF QueueWrite
<1>27. CASE UNCHANGED vars
  BY <1>27 DEF vars
<1> QED
  BY <1>1, <1>2, <1>3, <1>4, <1>5, <1>6, <1>7, <1>8, <1>9, <1>10, <1>11,
     <1>12, <1>13, <1>14, <1>15, <1>16, <1>17, <1>18, <1>19, <1>20, <1>21,
     <1>22, <1>23, <1>24, <1>25, <1>26, <1>27
     DEF Next, Tick, SessionStep, OperatorStep

-----------------------------------------------------------------------------
(* The lease of a live role survives every step.                            *)

Working == Stages \ {"reported"}

\* A step leaves role r the lease it has: unresolved, for the same attempt.
Kept(r) ==
    /\ Unresolved(disk'.lease[r])
    /\ disk'.lease[r].id = disk.lease[r].id
    /\ disk'.lease[r].attempt = disk.lease[r].attempt
    /\ disk'.lease[r].beat >= disk.lease[r].beat

LEMMA BeatType ==
    ASSUME NEW s \in State, NEW r \in Roles
    PROVE  s.lease[r].beat \in Nat
<1>1. s.lease[r] \in Lease \union {NoLease}
  BY DEF State
<1> QED
  BY <1>1 DEF Lease, NoLease

\* A commit whose candidate does not end the lease of a live role keeps it.
LEMMA CommitKeeps ==
    ASSUME LeaseInv, NEW ACTION cand, cand \in State,
           disk' = disk \/ (ValidTransition(disk, cand) /\ disk' = cand),
           NEW r \in Roles, Live(r), ~Ended(cand.lease[r])
    PROVE  Kept(r)
<1>1. disk \in State /\ Unresolved(disk.lease[r])
  BY DEF LeaseInv, TypeInv, TypeOK, LiveLeaseHeld
<1>2. disk.lease[r].beat \in Nat
  BY <1>1, BeatType
<1>3. CASE disk' = disk
  BY <1>1, <1>2, <1>3 DEF Kept
<1>4. CASE ValidTransition(disk, cand) /\ disk' = cand
  <2>1. /\ cand.lease[r] \in Lease
        /\ cand.lease[r].id = disk.lease[r].id
        /\ cand.lease[r].attempt = disk.lease[r].attempt
        /\ cand.lease[r].beat >= disk.lease[r].beat
    BY <1>1, <1>4, UnresolvedGoesOn
  <2>2. Unresolved(cand.lease[r])
    BY <2>1 DEF Lease, Ended, Unresolved
  <2> QED
    BY <1>4, <2>1, <2>2 DEF Kept
<1> QED
  BY <1>3, <1>4

\* What is left to show for a step that starts nothing and reads no snapshot:
\* the roles that stay live keep their leases.
LEMMA LiveStep ==
    ASSUME LeaseInv, TypeInv',
           \A r \in Roles : Live(r)' => Live(r) /\ Kept(r),
           \A r \in Roles : session'[r].stage \in Working =>
              session[r].stage \in Working /\ session'[r].id = session[r].id,
           \A o \in Operators : cli'[o].stage = "loaded" => cli'[o] = cli[o]
    PROVE  /\ LiveLeaseHeld'
           /\ SessionsMatch'
           /\ SnapshotIsOlder'
<1>1. LiveLeaseHeld'
  BY DEF LiveLeaseHeld, Kept
<1>2. SessionsMatch'
  <2> SUFFICES ASSUME NEW r \in Roles, session'[r].stage \in Working
               PROVE  disk'.lease[r].id = session'[r].id
    BY DEF SessionsMatch, Working
  <2>1. Live(r)'
    BY DEF Live, Working
  <2>2. disk'.lease[r].id = disk.lease[r].id
    BY <2>1 DEF Kept
  <2> QED
    BY <2>2 DEF LeaseInv, SessionsMatch, Working
<1>3. SnapshotIsOlder'
  <2> SUFFICES ASSUME NEW o \in Operators, NEW r \in Roles,
                      Live(r)', cli'[o].stage = "loaded",
                      Ended(cli'[o].snap.lease[r]),
                      cli'[o].snap.lease[r].id = disk'.lease[r].id,
                      cli'[o].snap.lease[r].attempt = disk'.lease[r].attempt
               PROVE  cli'[o].snap.lease[r].beat < disk'.lease[r].beat
    BY DEF SnapshotIsOlder
  <2>1. Live(r) /\ Kept(r) /\ cli'[o] = cli[o]
    OBVIOUS
  <2>2. cli[o].snap.lease[r].beat < disk.lease[r].beat
    BY <2>1 DEF LeaseInv, SnapshotIsOlder, Kept
  <2>3. /\ cli[o].snap \in State
        /\ disk \in State
        /\ disk' \in State
    BY DEF LeaseInv, TypeInv, TypeOK, Command, NoCommand
  <2>4. /\ cli[o].snap.lease[r].beat \in Nat
        /\ disk.lease[r].beat \in Nat
        /\ disk'.lease[r].beat \in Nat
    BY <2>3, BeatType
  <2> QED
    BY <2>1, <2>2, <2>4 DEF Kept
<1> QED
  BY <1>1, <1>2, <1>3

\* The inductive invariant holds at the start.
LEMMA LeaseInit == Init => LeaseInv
<1> SUFFICES ASSUME Init PROVE LeaseInv
  OBVIOUS
<1>1. TypeInv
  BY TypeInit
<1>2. ResultKnown /\ WorkersCounted /\ LiveLeaseHeld /\ SessionsMatch /\ DownHasNoSession
  BY DEF Init, ResultKnown, WorkersCounted, LiveLeaseHeld, Live, SessionsMatch,
         DownHasNoSession, NoSession, Stages
<1>3. CopyKnowsHeld
  BY DEF Init, CopyKnowsHeld, Ticking
<1>4. BeatsArePast
  <2>1. \A r \in Roles : EmptyState.lease[r].beat = 0
    BY DEF EmptyState, NoLease
  <2>2. disk = EmptyState /\ durable = EmptyState /\ now = 0
    BY DEF Init
  <2>3. \A o \in Operators : cli[o].snap = EmptyState
    BY DEF Init, NoCommand
  <2>4. 0 <= 0
    OBVIOUS
  <2> QED
    BY <2>1, <2>2, <2>3, <2>4 DEF BeatsArePast
<1>5. SnapshotIsOlder
  BY DEF Init, SnapshotIsOlder, NoCommand
<1> QED
  BY <1>1, <1>2, <1>3, <1>4, <1>5 DEF LeaseInv

\* A live role keeps its lease when the snapshot stays as it is.
LEMMA DiskStays ==
    ASSUME LeaseInv, UNCHANGED disk, NEW r \in Roles, Live(r)
    PROVE  Kept(r)
<1>1. Unresolved(disk.lease[r])
  BY DEF LeaseInv, LiveLeaseHeld
<1>2. disk.lease[r].beat \in Nat
  BY BeatType DEF LeaseInv, TypeInv, TypeOK
<1> QED
  BY <1>1, <1>2 DEF Kept

\* Steps of the controller that write nothing.
LEMMA QuietTickStep ==
    ASSUME LeaseInv, TypeInv',
           \/ Start \/ Crash \/ Shutdown \/ Exit \/ TickLoad \/ TickRemove
           \/ TickPlan \/ TickEnd \/ \E r \in Roles : Delay(r) \/ Skip(r)
    PROVE  LeaseInv'
<1> USE DEF LeaseInv, bounds, tickVars
<1> DEFINE Calm == /\ UNCHANGED <<disk, alive, cli, now>>
                   /\ \A r \in Roles :
                         /\ session'[r].stage \in Stages =>
                               /\ session'[r].stage = session[r].stage
                               /\ session'[r].id = session[r].id
                         /\ session'[r].stage = "ended" =>
                               session'[r].outcome = session[r].outcome
                   /\ phase' = "down" => \A r \in Roles : session'[r] = NoSession
<1>1. Calm => /\ LiveLeaseHeld'
              /\ SessionsMatch'
              /\ SnapshotIsOlder'
              /\ ResultKnown'
              /\ WorkersCounted'
              /\ DownHasNoSession'
  <2> SUFFICES ASSUME Calm
               PROVE  /\ LiveLeaseHeld' /\ SessionsMatch' /\ SnapshotIsOlder'
                      /\ ResultKnown' /\ WorkersCounted' /\ DownHasNoSession'
    OBVIOUS
  <2>1. \A r \in Roles : Live(r)' => Live(r) /\ Kept(r)
    BY DiskStays DEF Live
  <2>2. LiveLeaseHeld' /\ SessionsMatch' /\ SnapshotIsOlder'
    BY <2>1, LiveStep DEF Working
  <2>3. ResultKnown' /\ WorkersCounted'
    BY DEF ResultKnown, WorkersCounted, Stages
  <2>4. DownHasNoSession'
    BY DEF DownHasNoSession
  <2> QED
    BY <2>2, <2>3, <2>4
<1>2. ASSUME \/ Start \/ TickRemove \/ \E r \in Roles : Delay(r) \/ Skip(r)
      PROVE  LeaseInv'
  <2>1. UNCHANGED <<disk, durable, alive, cli, now, session>> /\ phase' # "down"
    BY <1>2 DEF Start, TickRemove, Delay, Skip, Launchable
  <2>2. CopyKnowsHeld'
    BY <1>2 DEF Start, TickRemove, Delay, Skip, Launchable, CopyKnowsHeld, Ticking
  <2>3. BeatsArePast'
    BY <2>1 DEF BeatsArePast
  <2>4. Calm
    BY <2>1
  <2> QED
    BY <1>1, <2>2, <2>3, <2>4
<1>3. ASSUME Crash \/ Exit PROVE LeaseInv'
  <2>1. Stop /\ phase' = "down"
    BY <1>3 DEF Crash, Exit, Stop
  <2>2. CopyKnowsHeld'
    BY <2>1 DEF CopyKnowsHeld, Ticking
  <2>3. BeatsArePast'
    BY <2>1 DEF Stop, BeatsArePast, EmptyState, NoLease, TypeInv, TypeOK
  <2>4. Calm
    BY <2>1 DEF Stop, NoSession, Stages
  <2> QED
    BY <1>1, <2>2, <2>3, <2>4
<1>4. CASE Shutdown
  <2>1. CopyKnowsHeld' /\ BeatsArePast'
    BY <1>4 DEF Shutdown, CopyKnowsHeld, Ticking, BeatsArePast
  <2>2. Calm
    BY <1>4, CancelledStays DEF Shutdown, TypeInv, TypeOK
  <2> QED
    BY <1>1, <2>1, <2>2
<1>5. CASE TickLoad
  <2>1. CopyKnowsHeld' /\ BeatsArePast'
    BY <1>5 DEF TickLoad, CopyKnowsHeld, BeatsArePast
  <2>2. Calm
    BY <1>5 DEF TickLoad
  <2> QED
    BY <1>1, <2>1, <2>2
<1>6. CASE TickPlan
  <2>1. CopyKnowsHeld' /\ BeatsArePast'
    BY <1>6 DEF TickPlan, CopyKnowsHeld, Ticking, BeatsArePast
  <2>2. Calm
    <3>1. PICK stale \in SUBSET Roles : session' = Cancelled(stale)
      BY <1>6 DEF TickPlan
    <3>2. \A r \in Roles : /\ session'[r].stage = session[r].stage
                           /\ session'[r].id = session[r].id
                           /\ session[r].stage = "ended" => session'[r] = session[r]
      BY <3>1, CancelledStays DEF TypeInv, TypeOK
    <3> QED
      BY <1>6, <3>2 DEF TickPlan
  <2> QED
    BY <1>1, <2>1, <2>2
<1>7. CASE TickEnd
  <2>1. CopyKnowsHeld' /\ BeatsArePast'
    BY <1>7 DEF TickEnd, CopyKnowsHeld, Ticking, BeatsArePast, EmptyState, NoLease,
                TypeInv, TypeOK
  <2>2. Calm
    BY <1>7 DEF TickEnd
  <2> QED
    BY <1>1, <2>1, <2>2
<1> QED
  BY <1>2, <1>3, <1>4, <1>5, <1>6, <1>7

\* Steps of a session goroutine, and of an orphan, that write nothing.
LEMMA QuietSessionStep ==
    ASSUME LeaseInv, TypeInv', NEW r \in Roles,
           \/ PrepareFails(r) \/ StartWorker(r) \/ WorkerExits(r) \/ Land(r)
           \/ Deregister(r) \/ OrphanExits(r)
    PROVE  LeaseInv'
<1> USE DEF LeaseInv, bounds, tickVars
<1>1. UNCHANGED <<disk, durable, phase, todo, cli, now>>
  BY DEF PrepareFails, StartWorker, WorkerExits, Land, Deregister, OrphanExits
<1>2. CopyKnowsHeld' /\ BeatsArePast'
  BY <1>1 DEF CopyKnowsHeld, BeatsArePast
<1>3. session \in Sessions /\ alive \in [Roles -> Nat]
  BY DEF TypeInv, TypeOK, Sessions
<1>4. \A q \in Roles \ {r} : session'[q] = session[q] /\ alive'[q] = alive[q]
  BY <1>3 DEF PrepareFails, StartWorker, WorkerExits, Land, Deregister, OrphanExits,
              Ends, Sessions
<1> DEFINE Mine == /\ Live(r)' => Live(r)
                   /\ session'[r].stage \in Working =>
                         /\ session[r].stage \in Working
                         /\ session'[r].id = session[r].id
                   /\ session'[r].stage = "ended" => session'[r].outcome \in Outcomes
                   /\ alive'[r] <= 1
                   /\ session'[r].stage \in {"started", "running"} => alive'[r] = 1
                   /\ session'[r].stage \in Stages \ {"started", "running"} =>
                         alive'[r] = 0
                   /\ session[r] = NoSession => session'[r] = NoSession
<1>5. Mine
  <2>1. CASE PrepareFails(r)
    <3>1. PICK outcome \in Outcomes : Ends(r, outcome)
      BY <2>1 DEF PrepareFails, Outcomes
    <3>2. session'[r].stage = "ended" /\ session'[r].outcome = outcome
            /\ session'[r].id = session[r].id
      BY <1>3, <2>1, <3>1, EndsType DEF PrepareFails, Stages
    <3> QED
      BY <2>1, <3>2 DEF PrepareFails, WorkersCounted, Working, Stages, Live, NoSession
  <2>2. CASE StartWorker(r)
    BY <1>3, <2>2 DEF StartWorker, WorkersCounted, Working, Stages, Live, NoSession,
                      Sessions, Session
  <2>3. CASE WorkerExits(r)
    <3>1. alive[r] = 1 /\ alive'[r] = 0 /\ session[r].stage = "running"
      BY <1>3, <2>3 DEF WorkerExits, WorkersCounted
    <3>2. CASE session' = [session EXCEPT ![r].stage = "landing"]
      BY <1>3, <3>1, <3>2 DEF Working, Stages, Live, NoSession, Sessions, Session
    <3>3. ASSUME NEW outcome \in Outcomes, Ends(r, outcome) PROVE Mine
      <4>1. session'[r].stage = "ended" /\ session'[r].outcome = outcome
              /\ session'[r].id = session[r].id
        BY <1>3, <3>1, <3>3, EndsType DEF Stages
      <4> QED
        BY <3>1, <4>1 DEF Working, Stages, Live, NoSession
    <3>4. session' = [session EXCEPT ![r].stage = "landing"]
            \/ \E outcome \in Outcomes : Ends(r, outcome)
      BY <2>3 DEF WorkerExits, Outcomes
    <3> QED
      BY <3>2, <3>3, <3>4
  <2>4. CASE Land(r)
    <3>1. PICK outcome \in Outcomes : Ends(r, outcome)
      BY <2>4 DEF Land, Outcomes
    <3>2. session'[r].stage = "ended" /\ session'[r].outcome = outcome
            /\ session'[r].id = session[r].id
      BY <1>3, <2>4, <3>1, EndsType DEF Land, Stages
    <3> QED
      BY <2>4, <3>2 DEF Land, WorkersCounted, Working, Stages, Live, NoSession
  <2>5. CASE Deregister(r)
    BY <1>3, <2>5 DEF Deregister, WorkersCounted, Working, Stages, Live, NoSession,
                      Sessions
  <2>6. CASE OrphanExits(r)
    BY <1>3, <2>6 DEF OrphanExits, Owned, WorkersCounted, ResultKnown, Working, Stages,
                      Live, Sessions
  <2> QED
    BY <2>1, <2>2, <2>3, <2>4, <2>5, <2>6
<1>6. \A q \in Roles : Live(q)' => Live(q) /\ Kept(q)
  <2>1. \A q \in Roles : Live(q)' => Live(q)
    BY <1>4, <1>5 DEF Live
  <2> QED
    BY <1>1, <2>1, DiskStays
<1>7. LiveLeaseHeld' /\ SessionsMatch' /\ SnapshotIsOlder'
  BY <1>1, <1>4, <1>5, <1>6, LiveStep
<1>8. ResultKnown' /\ WorkersCounted'
  BY <1>4, <1>5 DEF ResultKnown, WorkersCounted
<1>9. DownHasNoSession'
  BY <1>1, <1>4, <1>5 DEF DownHasNoSession
<1> QED
  BY <1>2, <1>7, <1>8, <1>9

\* Steps of an operator that write no snapshot.
LEMMA QuietOperatorStep ==
    ASSUME LeaseInv, TypeInv', NEW o \in Operators,
           \/ \E id \in LeaseIDs : ApproveLoad(o, id)
           \/ QueueRead(o) \/ QueueWrite(o)
    PROVE  LeaseInv'
<1> USE DEF LeaseInv, bounds, tickVars
<1>1. UNCHANGED <<disk, durable, phase, todo, session, alive, now>>
  BY DEF ApproveLoad, QueueRead, QueueWrite
<1>2. /\ ResultKnown' /\ WorkersCounted' /\ DownHasNoSession' /\ CopyKnowsHeld'
      /\ LiveLeaseHeld' /\ SessionsMatch'
  BY <1>1 DEF ResultKnown, WorkersCounted, DownHasNoSession, CopyKnowsHeld,
              LiveLeaseHeld, Live, SessionsMatch
<1>3. cli \in [Operators -> Command \union {NoCommand}]
  BY DEF TypeInv, TypeOK
<1>4. \A p \in Operators \ {o} : cli'[p] = cli[p]
  BY <1>3 DEF ApproveLoad, QueueRead, QueueWrite
<1>5. \/ cli'[o].snap = disk
      \/ cli'[o].snap = EmptyState /\ cli'[o].stage # "loaded"
  <2>1. CASE \E id \in LeaseIDs : ApproveLoad(o, id)
    BY <1>3, <2>1 DEF ApproveLoad
  <2>2. CASE QueueRead(o)
    <3>1. cli[o] \in Command
      BY <1>3, <2>2 DEF QueueRead, NoCommand
    <3> QED
      BY <1>3, <2>2, <3>1 DEF QueueRead, Command
  <2>3. CASE QueueWrite(o)
    BY <1>3, <2>3 DEF QueueWrite, NoCommand
  <2> QED
    BY <2>1, <2>2, <2>3
<1>6. BeatsArePast'
  <2>1. \A r \in Roles : EmptyState.lease[r].beat = 0 /\ 0 <= now
    BY DEF EmptyState, NoLease, TypeInv, TypeOK
  <2>2. \A r \in Roles : cli'[o].snap.lease[r].beat <= now
    BY <1>5, <2>1 DEF BeatsArePast
  <2> QED
    BY <1>1, <1>4, <2>2 DEF BeatsArePast
<1>7. SnapshotIsOlder'
  <2>1. \A r \in Roles : Live(r) => ~Ended(disk.lease[r])
    BY DEF LiveLeaseHeld, Unresolved, Ended, Outcomes
  <2> QED
    BY <1>1, <1>4, <1>5, <2>1 DEF SnapshotIsOlder, Live
<1> QED
  BY <1>2, <1>6, <1>7

\* Steps that commit a snapshot and launch nothing.
LEMMA CommitStep ==
    ASSUME LeaseInv, TypeInv',
           \/ TickConsume
           \/ \E r \in Roles : RecordProcess(r) \/ Report(r) \/ Recover(r)
           \/ \E o \in Operators : ApproveCommit(o)
    PROVE  LeaseInv'
<1> USE DEF LeaseInv, bounds, tickVars
<1>1. /\ disk \in State /\ durable \in State /\ session \in Sessions
      /\ alive \in [Roles -> Nat] /\ now \in Nat /\ faults \in Nat /\ MaxFaults \in Nat
      /\ batch \in SUBSET LeaseIDs
      /\ cli \in [Operators -> Command \union {NoCommand}]
  BY ControllerAssumption DEF TypeInv, TypeOK, Sessions
<1>2. CASE TickConsume
  <2> DEFINE cand == WithApprovals(durable, batch)
  <2>1. cand \in State /\ cand.lease = durable.lease
    BY <1>1, WithApprovalsType
  <2>2. /\ disk' = disk \/ (ValidTransition(disk, cand) /\ disk' = cand)
        /\ durable' = cand
        /\ phase' \in {"remove", "plan"}
        /\ UNCHANGED <<session, alive, cli, now>>
    BY <1>1, <1>2, CommitOutcome DEF TickConsume
  <2>3. \A r \in Roles : Unresolved(disk.lease[r]) => Unresolved(durable.lease[r])
    BY <1>2 DEF TickConsume, CopyKnowsHeld, Ticking
  <2>4. \A r \in Roles : Live(r)' => Live(r) /\ Kept(r)
    <3> SUFFICES ASSUME NEW r \in Roles, Live(r) PROVE Kept(r)
      BY <2>2 DEF Live
    <3>1. ~Ended(cand.lease[r])
      BY <2>1, <2>3 DEF LiveLeaseHeld, Unresolved, Ended, Outcomes
    <3> QED
      BY <2>1, <2>2, <3>1, CommitKeeps
  <2>5. LiveLeaseHeld' /\ SessionsMatch' /\ SnapshotIsOlder'
    BY <2>2, <2>4, LiveStep
  <2>6. CopyKnowsHeld'
    BY <2>1, <2>2, <2>3 DEF CopyKnowsHeld
  <2>7. BeatsArePast'
    BY <2>1, <2>2 DEF BeatsArePast
  <2>8. ResultKnown' /\ WorkersCounted' /\ DownHasNoSession'
    BY <2>2 DEF ResultKnown, WorkersCounted, DownHasNoSession
  <2> QED
    BY <2>5, <2>6, <2>7, <2>8
<1>3. ASSUME NEW r \in Roles, RecordProcess(r) PROVE LeaseInv'
  <2>1. /\ UNCHANGED <<durable, phase, todo, alive, cli, now>>
        /\ phase \notin Ticking /\ phase # "down"
        /\ session[r].stage = "started" /\ session'[r].stage = "running"
        /\ session'[r].id = session[r].id
        /\ \A q \in Roles \ {r} : session'[q] = session[q]
    BY <1>1, <1>3 DEF RecordProcess, DownHasNoSession, NoSession, Sessions
  <2>2. Unresolved(disk.lease[r]) /\ disk.lease[r].id = session[r].id
    BY <2>1 DEF LiveLeaseHeld, Live, SessionsMatch, Stages
  <2> DEFINE cand == WithProcess(disk, r, disk.lease[r].beat)
  <2>3. cand \in State
    BY <1>1, <2>2, BeatType, WithProcessType
  <2>4. disk' = disk \/ (ValidTransition(disk, cand) /\ disk' = cand)
    BY <1>1, <1>3, <2>2, CommitOutcome DEF RecordProcess
  <2>5. \A q \in Roles : /\ cand.lease[q].outcome = disk.lease[q].outcome
                         /\ cand.lease[q].beat = disk.lease[q].beat
    BY <1>1 DEF WithProcess, State, Lease, NoLease
  <2>6. \A q \in Roles : Live(q)' => Live(q) /\ Kept(q)
    <3> SUFFICES ASSUME NEW q \in Roles, Live(q)' PROVE Live(q) /\ Kept(q)
      OBVIOUS
    <3>1. Live(q)
      BY <2>1 DEF Live, Stages
    <3>2. ~Ended(cand.lease[q])
      BY <2>5, <3>1 DEF LiveLeaseHeld, Unresolved, Ended, Outcomes
    <3> QED
      BY <2>3, <2>4, <3>1, <3>2, CommitKeeps
  <2>7. LiveLeaseHeld' /\ SessionsMatch' /\ SnapshotIsOlder'
    BY <2>1, <2>6, LiveStep DEF Working, Stages
  <2>8. BeatsArePast'
    BY <2>1, <2>4, <2>5 DEF BeatsArePast
  <2>9. ResultKnown' /\ WorkersCounted' /\ DownHasNoSession' /\ CopyKnowsHeld'
    BY <2>1 DEF ResultKnown, WorkersCounted, DownHasNoSession, CopyKnowsHeld, Stages
  <2> QED
    BY <2>7, <2>8, <2>9
<1>4. ASSUME NEW r \in Roles, Report(r) PROVE LeaseInv'
  <2>1. /\ UNCHANGED <<durable, phase, todo, alive, cli, now>>
        /\ phase \notin Ticking /\ phase # "down"
        /\ session[r].stage = "ended" /\ session'[r].stage = "reported"
        /\ \A q \in Roles \ {r} : session'[q] = session[q]
        /\ alive[r] = 0
    BY <1>1, <1>4 DEF Report, DownHasNoSession, NoSession, Sessions, WorkersCounted, Stages
  <2>2. Unresolved(disk.lease[r]) /\ disk.lease[r].id = session[r].id
    BY <2>1 DEF LiveLeaseHeld, Live, SessionsMatch, Stages
  <2>3. session[r].outcome \in Outcomes
    BY <2>1 DEF ResultKnown
  <2> DEFINE cand == WithResult(disk, r, session[r].outcome, now)
  <2>4. cand \in State
    BY <1>1, <2>2, <2>3, WithResultType
  <2>5. disk' = disk \/ (ValidTransition(disk, cand) /\ disk' = cand)
    BY <1>1, <1>4, <2>2, CommitOutcome DEF Report
  <2>6. /\ \A q \in Roles \ {r} : cand.lease[q] = disk.lease[q]
        /\ cand.lease[r].beat = now
    BY <1>1, <2>2, <2>3, ResultLeases
  <2>7. \A q \in Roles : Live(q)' => Live(q) /\ Kept(q)
    <3> SUFFICES ASSUME NEW q \in Roles, Live(q)' PROVE Live(q) /\ Kept(q)
      OBVIOUS
    <3>1. q # r /\ Live(q)
      BY <2>1 DEF Live, Stages
    <3>2. ~Ended(cand.lease[q])
      BY <2>6, <3>1 DEF LiveLeaseHeld, Unresolved, Ended, Outcomes
    <3> QED
      BY <2>4, <2>5, <3>1, <3>2, CommitKeeps
  <2>8. LiveLeaseHeld' /\ SessionsMatch' /\ SnapshotIsOlder'
    BY <2>1, <2>7, LiveStep DEF Working, Stages
  <2>9. BeatsArePast'
    BY <1>1, <2>1, <2>5, <2>6 DEF BeatsArePast
  <2>10. ResultKnown' /\ WorkersCounted' /\ DownHasNoSession' /\ CopyKnowsHeld'
    BY <2>1 DEF ResultKnown, WorkersCounted, DownHasNoSession, CopyKnowsHeld, Stages
  <2> QED
    BY <2>8, <2>9, <2>10
<1>5. ASSUME NEW r \in Roles, Recover(r) PROVE LeaseInv'
  <2>1. /\ UNCHANGED <<durable, phase, todo, session, alive, cli, now>>
        /\ phase = "down" /\ alive[r] = 0 /\ session[r] = NoSession
        /\ Unresolved(disk.lease[r])
    BY <1>5 DEF Recover, DownHasNoSession
  <2> DEFINE cand == WithResult(disk, r, "cancelled", now)
  <2>2. cand \in State
    BY <1>1, <2>1, WithResultType DEF Outcomes
  <2>3. disk' = disk \/ (ValidTransition(disk, cand) /\ disk' = cand)
    BY <1>1, <1>5, CommitOutcome DEF Recover
  <2>4. /\ \A q \in Roles \ {r} : cand.lease[q] = disk.lease[q]
        /\ cand.lease[r].beat = now
    BY <1>1, <2>1, ResultLeases DEF Outcomes
  <2>5. \A q \in Roles : Live(q)' => Live(q) /\ Kept(q)
    <3> SUFFICES ASSUME NEW q \in Roles, Live(q)' PROVE Live(q) /\ Kept(q)
      OBVIOUS
    <3>1. q # r /\ Live(q)
      BY <2>1 DEF Live, Stages, NoSession
    <3>2. ~Ended(cand.lease[q])
      BY <2>4, <3>1 DEF LiveLeaseHeld, Unresolved, Ended, Outcomes
    <3> QED
      BY <2>2, <2>3, <3>1, <3>2, CommitKeeps
  <2>6. LiveLeaseHeld' /\ SessionsMatch' /\ SnapshotIsOlder'
    BY <2>1, <2>5, LiveStep
  <2>7. BeatsArePast'
    BY <1>1, <2>1, <2>3, <2>4 DEF BeatsArePast
  <2>8. ResultKnown' /\ WorkersCounted' /\ DownHasNoSession' /\ CopyKnowsHeld'
    BY <2>1 DEF ResultKnown, WorkersCounted, DownHasNoSession, CopyKnowsHeld, Ticking
  <2> QED
    BY <2>6, <2>7, <2>8
<1>6. ASSUME NEW o \in Operators, ApproveCommit(o) PROVE LeaseInv'
  <2>1. /\ UNCHANGED <<durable, phase, todo, session, alive, now>>
        /\ phase = "down" /\ cli[o].stage = "loaded"
        /\ cli' = [cli EXCEPT ![o] = NoCommand]
    BY <1>6 DEF ApproveCommit
  <2>2. cli[o] \in Command
    BY <1>1, <2>1 DEF NoCommand
  <2> DEFINE cand == WithApprovals(cli[o].snap, {cli[o].id})
  <2>3. cli[o].snap \in State /\ cand \in State /\ cand.lease = cli[o].snap.lease
    BY <2>2, WithApprovalsType DEF Command
  <2>4. disk' = disk \/ (ValidTransition(disk, cand) /\ disk' = cand)
    BY <1>1, <1>6, CommitOutcome DEF ApproveCommit
  <2>5. \A q \in Roles : Live(q)' => Live(q) /\ Kept(q)
    <3> SUFFICES ASSUME NEW q \in Roles, Live(q) PROVE Kept(q)
      BY <2>1 DEF Live
    <3>1. CASE disk' = disk
      BY <3>1, DiskStays
    <3>2. CASE ValidTransition(disk, cand) /\ disk' = cand
      <4>1. /\ cand.lease[q].id = disk.lease[q].id
            /\ cand.lease[q].attempt = disk.lease[q].attempt
            /\ cand.lease[q].beat >= disk.lease[q].beat
        BY <1>1, <2>3, <3>2, UnresolvedGoesOn DEF LiveLeaseHeld
      <4>2. cand.lease[q].beat \in Nat /\ disk.lease[q].beat \in Nat
        BY <1>1, <2>3, BeatType
      <4>3. ~Ended(cand.lease[q])
        BY <2>1, <2>3, <4>1, <4>2 DEF SnapshotIsOlder
      <4> QED
        BY <2>3, <2>4, <4>3, CommitKeeps
    <3> QED
      BY <2>4, <3>1, <3>2
  <2>6. \A p \in Operators : cli'[p].stage = "loaded" => cli'[p] = cli[p]
    BY <1>1, <2>1 DEF NoCommand
  <2>7. LiveLeaseHeld' /\ SessionsMatch' /\ SnapshotIsOlder'
    BY <2>1, <2>5, <2>6, LiveStep
  <2>8. BeatsArePast'
    <3>1. \A r \in Roles : cand.lease[r].beat <= now
      BY <2>3 DEF BeatsArePast
    <3>2. \A r \in Roles : NoCommand.snap.lease[r].beat = 0 /\ 0 <= now
      BY <1>1 DEF NoCommand, EmptyState, NoLease
    <3> QED
      BY <1>1, <2>1, <2>4, <3>1, <3>2 DEF BeatsArePast
  <2>9. ResultKnown' /\ WorkersCounted' /\ DownHasNoSession' /\ CopyKnowsHeld'
    BY <2>1 DEF ResultKnown, WorkersCounted, DownHasNoSession, CopyKnowsHeld, Ticking
  <2> QED
    BY <2>7, <2>8, <2>9
<1> QED
  BY <1>2, <1>3, <1>4, <1>5, <1>6

\* What a grant proposes for the roles.
LEMMA GrantedLeases ==
    ASSUME NEW s \in State, NEW r \in Roles, NEW id \in LeaseIDs, NEW at \in Nat
    PROVE  /\ \A q \in Roles \ {r} : /\ Granted(s, r, id, at).lease[q] = s.lease[q]
                                    /\ RefusedGrant(s, r, id, at).lease[q] = s.lease[q]
           /\ Granted(s, r, id, at).lease[r] = NewLease(s, r, id, at)
           /\ RefusedGrant(s, r, id, at).lease[r] =
                 IF s.lease[r] = NoLease THEN NoLease ELSE NewLease(s, r, id, at)
<1>1. Granted(s, r, id, at).lease = [s.lease EXCEPT ![r] = NewLease(s, r, id, at)]
  BY DEF Granted
<1>2. RefusedGrant(s, r, id, at).lease =
         IF s.lease[r] = NoLease THEN s.lease ELSE Granted(s, r, id, at).lease
  BY DEF RefusedGrant, Granted
<1> QED
  BY <1>1, <1>2 DEF State

\* A launch finds the role idle and its lease ended.
LEMMA LaunchableIsIdle ==
    ASSUME LeaseInv, NEW r \in Roles, Launchable(r)
    PROVE  /\ ~Live(r)
           /\ alive[r] = 0
           /\ ~Unresolved(disk.lease[r])
           /\ desired[r] \in LeaseIDs
<1>1. /\ durable \in State /\ desired[r] \in LeaseIDs /\ phase = "launch" /\ r \in todo
      /\ session[r] = NoSession /\ MayLaunch(durable, r, desired[r])
      /\ alive[r] \in Nat
  BY DEF Launchable, LeaseInv, TypeInv, TypeOK
<1>2. ~Unresolved(durable.lease[r])
  BY <1>1, HeldRoleRefused
<1>3. ~Unresolved(disk.lease[r])
  BY <1>1, <1>2 DEF LeaseInv, CopyKnowsHeld, Ticking
<1>4. ~Live(r)
  BY <1>3 DEF LeaseInv, LiveLeaseHeld
<1> QED
  BY <1>1, <1>3, <1>4 DEF Live

\* Steps that commit a new lease, whether or not its session starts.
LEMMA LaunchStep ==
    ASSUME LeaseInv, TypeInv', NEW r \in Roles, Launch(r) \/ ReloadFails(r)
    PROVE  LeaseInv'
<1> USE DEF LeaseInv, bounds, tickVars
<1>1. /\ disk \in State /\ durable \in State /\ session \in Sessions
      /\ now \in Nat /\ faults \in Nat /\ MaxFaults \in Nat
      /\ disk' \in State
      /\ cli \in [Operators -> Command \union {NoCommand}]
      /\ now' = now + 1 /\ now' \in Nat
      /\ Launchable(r) /\ phase = "launch" /\ phase' = "launch"
      /\ todo' \subseteq todo \ {r}
      /\ UNCHANGED <<alive, cli>>
  BY ControllerAssumption DEF TypeInv, TypeOK, Sessions, Launch, ReloadFails, Launchable
<1>2. ~Live(r) /\ alive[r] = 0 /\ ~Unresolved(disk.lease[r]) /\ desired[r] \in LeaseIDs
  BY <1>1, LaunchableIsIdle
<1> DEFINE cand == Granted(durable, r, desired[r], now')
<1> DEFINE refused == RefusedGrant(durable, r, desired[r], now')
<1> DEFINE new == NewLease(durable, r, desired[r], now')
<1>3. /\ cand \in State
      /\ \A q \in Roles \ {r} : /\ cand.lease[q] = durable.lease[q]
                               /\ refused.lease[q] = durable.lease[q]
      /\ cand.lease[r] = new
      /\ refused.lease[r] = IF durable.lease[r] = NoLease THEN NoLease ELSE new
  BY <1>1, <1>2, GrantedType, GrantedLeases
<1>4. new \in Lease /\ new.id = desired[r] /\ new.beat = now' /\ Unresolved(new)
  <2>1. new \in Lease
    BY <1>1, <1>2, NewLeaseType
  <2>2. new.id = desired[r] /\ new.beat = now' /\ new.outcome = "unresolved"
    BY DEF NewLease
  <2> QED
    BY <2>1, <2>2 DEF Unresolved, Lease
<1> HIDE DEF cand, refused, new
<1>5. disk' = disk \/ (ValidTransition(disk, cand) /\ disk' = cand)
  BY <1>1, CommitOutcome DEF Launch, ReloadFails, cand
<1>6. \A q \in Roles \ {r} : session'[q] = session[q]
  BY <1>1 DEF Launch, ReloadFails, Sessions
<1>7. \/ session' = session
      \/ /\ disk' = cand
         /\ session'[r].stage = "preparing"
         /\ session'[r].id = desired[r]
  <2>1. CASE Launch(r)
    <3>1. PICK ok \in BOOLEAN :
            /\ Commit(cand, ok)
            /\ IF ok
               THEN /\ durable' = disk'
                    /\ session' = [session EXCEPT ![r] =
                          [id |-> desired[r], stage |-> "preparing",
                           cancelled |-> FALSE, outcome |-> "unknown"]]
               ELSE UNCHANGED session
      BY <2>1 DEF Launch, cand
    <3>2. CASE ok
      <4>1. disk' = cand
        BY <1>1, <3>1, <3>2, CommitOutcome
      <4> QED
        BY <1>1, <3>1, <3>2, <4>1 DEF Sessions
    <3> QED
      BY <3>1, <3>2
  <2>2. CASE ReloadFails(r)
    BY <2>2 DEF ReloadFails
  <2> QED
    BY <2>1, <2>2
<1>8. \/ durable' = disk'
      \/ durable' = refused
      \/ durable' = EmptyState /\ todo' = {}
  BY DEF Launch, ReloadFails, refused
<1>9. \A q \in Roles \ {r} : Live(q) => Kept(q)
  <2> SUFFICES ASSUME NEW q \in Roles \ {r}, Live(q) PROVE Kept(q)
    OBVIOUS
  <2>1. CASE disk' = disk
    BY <2>1, DiskStays
  <2>2. CASE ValidTransition(disk, cand) /\ disk' = cand
    <3>1. Unresolved(disk.lease[q])
      BY DEF LiveLeaseHeld
    <3>2. cand.lease[q] \in Lease
      BY <1>1, <1>3, <2>2, <3>1, UnresolvedGoesOn
    <3>3. durable.lease[q] # NoLease
      BY <1>3, <3>2, StateAssumption DEF Lease, NoLease
    <3>4. Unresolved(durable.lease[q])
      BY <1>1, <3>1, <3>3 DEF CopyKnowsHeld, Ticking
    <3>5. ~Ended(cand.lease[q])
      BY <1>3, <3>4 DEF Unresolved, Ended, Outcomes
    <3> QED
      BY <1>3, <1>5, <3>5, CommitKeeps
  <2> QED
    BY <1>5, <2>1, <2>2
<1>10. \A q \in Roles \ {r} : Live(q)' => Live(q)
  BY <1>1, <1>6 DEF Live
<1>11. Live(r)' => /\ disk' = cand
                   /\ session'[r].stage = "preparing"
                   /\ session'[r].id = desired[r]
  BY <1>1, <1>2, <1>7 DEF Live
<1>12. LiveLeaseHeld'
  BY <1>3, <1>4, <1>9, <1>10, <1>11 DEF LiveLeaseHeld, Kept
<1>13. SessionsMatch'
  <2> SUFFICES ASSUME NEW q \in Roles, session'[q].stage \in Working
               PROVE  disk'.lease[q].id = session'[q].id
    BY DEF SessionsMatch, Working
  <2>1. Live(q)'
    BY DEF Live, Working
  <2>2. CASE q = r
    BY <1>3, <1>4, <1>11, <2>1, <2>2
  <2>3. CASE q # r
    <3>1. session'[q] = session[q] /\ Kept(q)
      BY <1>6, <1>9, <1>10, <2>1, <2>3
    <3> QED
      BY <3>1 DEF Kept, SessionsMatch, Working
  <2> QED
    BY <2>2, <2>3
<1>14. SnapshotIsOlder'
  <2> SUFFICES ASSUME NEW o \in Operators, NEW q \in Roles, Live(q)',
                      cli[o].stage = "loaded", Ended(cli[o].snap.lease[q]),
                      cli[o].snap.lease[q].id = disk'.lease[q].id,
                      cli[o].snap.lease[q].attempt = disk'.lease[q].attempt
               PROVE  cli[o].snap.lease[q].beat < disk'.lease[q].beat
    BY <1>1 DEF SnapshotIsOlder
  <2>1. cli[o].snap \in State
    BY <1>1 DEF Command, NoCommand
  <2>2. cli[o].snap.lease[q].beat \in Nat /\ disk.lease[q].beat \in Nat
          /\ disk'.lease[q].beat \in Nat
    BY <1>1, <2>1, BeatType
  <2>3. CASE q = r
    <3>1. cli[o].snap.lease[q].beat <= now
      BY DEF BeatsArePast
    <3>2. disk'.lease[q].beat = now + 1
      BY <1>1, <1>3, <1>4, <1>11, <2>3
    <3> QED
      BY <1>1, <2>2, <3>1, <3>2
  <2>4. CASE q # r
    <3>1. Live(q) /\ Kept(q)
      BY <1>9, <1>10, <2>4
    <3>2. cli[o].snap.lease[q].beat < disk.lease[q].beat
      BY <3>1 DEF SnapshotIsOlder, Kept
    <3> QED
      BY <2>2, <3>1, <3>2 DEF Kept
  <2> QED
    BY <2>3, <2>4
<1>15. CopyKnowsHeld'
  <2> SUFFICES ASSUME NEW q \in Roles, Unresolved(disk'.lease[q])
               PROVE  \/ Unresolved(durable'.lease[q])
                      \/ durable'.lease[q] = NoLease /\ q \notin todo'
    BY <1>1 DEF CopyKnowsHeld
  <2>1. CASE durable' = disk'
    BY <2>1
  <2>2. CASE durable' = refused
    <3>1. CASE q = r
      BY <1>1, <1>3, <1>4, <2>2, <3>1
    <3>2. CASE q # r /\ disk' = disk
      BY <1>1, <1>3, <2>2, <3>2 DEF CopyKnowsHeld, Ticking
    <3>3. CASE q # r /\ disk' = cand
      BY <1>3, <2>2, <3>3
    <3> QED
      BY <1>5, <3>1, <3>2, <3>3
  <2>3. CASE durable' = EmptyState /\ todo' = {}
    BY <2>3 DEF EmptyState
  <2> QED
    BY <1>8, <2>1, <2>2, <2>3
<1>16. BeatsArePast'
  <2> SUFFICES ASSUME NEW q \in Roles
               PROVE  /\ disk'.lease[q].beat <= now'
                      /\ durable'.lease[q].beat <= now'
                      /\ \A o \in Operators : cli[o].snap.lease[q].beat <= now'
    BY <1>1 DEF BeatsArePast
  <2>1. /\ disk.lease[q].beat \in Nat /\ durable.lease[q].beat \in Nat
        /\ disk.lease[q].beat <= now /\ durable.lease[q].beat <= now
    BY <1>1, BeatType DEF BeatsArePast
  <2>2. cand.lease[q].beat <= now'
    BY <1>1, <1>3, <1>4, <2>1
  <2>3. refused.lease[q].beat <= now'
    BY <1>1, <1>3, <1>4, <2>1 DEF NoLease
  <2>4. EmptyState.lease[q].beat <= now'
    BY <1>1 DEF EmptyState, NoLease
  <2>5. disk'.lease[q].beat <= now'
    BY <1>1, <1>5, <2>1, <2>2
  <2>6. durable'.lease[q].beat <= now'
    BY <1>8, <2>3, <2>4, <2>5
  <2>7. \A o \in Operators : cli[o].snap.lease[q].beat <= now'
    <3> SUFFICES ASSUME NEW o \in Operators PROVE cli[o].snap.lease[q].beat <= now'
      OBVIOUS
    <3>1. cli[o].snap \in State
      BY <1>1, Defaults DEF Command, NoCommand
    <3>2. cli[o].snap.lease[q].beat \in Nat /\ cli[o].snap.lease[q].beat <= now
      BY <3>1, BeatType DEF BeatsArePast
    <3> QED
      BY <1>1, <3>2
  <2> QED
    BY <2>5, <2>6, <2>7
<1>17. ResultKnown' /\ WorkersCounted' /\ DownHasNoSession'
  BY <1>1, <1>2, <1>6, <1>7 DEF ResultKnown, WorkersCounted, DownHasNoSession, Stages
<1> QED
  BY <1>12, <1>13, <1>14, <1>15, <1>16, <1>17

\* The inductive invariant survives every step.
LEMMA LeaseStep == LeaseInv /\ [Next]_vars => LeaseInv'
<1> SUFFICES ASSUME LeaseInv, [Next]_vars PROVE LeaseInv'
  OBVIOUS
<1>1. TypeInv'
  BY TypeStep
<1>2. CASE \/ Start \/ Crash \/ Shutdown \/ Exit \/ TickLoad \/ TickRemove
           \/ TickPlan \/ TickEnd \/ \E r \in Roles : Delay(r) \/ Skip(r)
  BY <1>1, <1>2, QuietTickStep
<1>3. ASSUME NEW r \in Roles, Launch(r) \/ ReloadFails(r) PROVE LeaseInv'
  BY <1>1, <1>3, LaunchStep
<1>4. ASSUME NEW r \in Roles,
             \/ PrepareFails(r) \/ StartWorker(r) \/ WorkerExits(r) \/ Land(r)
             \/ Deregister(r) \/ OrphanExits(r)
      PROVE  LeaseInv'
  BY <1>1, <1>4, QuietSessionStep
<1>5. CASE \/ TickConsume
           \/ \E r \in Roles : RecordProcess(r) \/ Report(r) \/ Recover(r)
           \/ \E o \in Operators : ApproveCommit(o)
  BY <1>1, <1>5, CommitStep
<1>6. ASSUME NEW o \in Operators,
             \/ \E id \in LeaseIDs : ApproveLoad(o, id)
             \/ QueueRead(o) \/ QueueWrite(o)
      PROVE  LeaseInv'
  BY <1>1, <1>6, QuietOperatorStep
<1>7. CASE UNCHANGED vars
  BY <1>7 DEF vars, tickVars, bounds, LeaseInv, TypeInv, TypeOK, ResultKnown,
              WorkersCounted, LiveLeaseHeld, Live, SessionsMatch, DownHasNoSession,
              CopyKnowsHeld, BeatsArePast, SnapshotIsOlder
<1> QED
  BY <1>2, <1>3, <1>4, <1>5, <1>6, <1>7 DEF Next, Tick, SessionStep, OperatorStep

-----------------------------------------------------------------------------
(* The theorems.                                                            *)

\* The strengthened invariant holds in every reachable state.
THEOREM LeaseInvariant == Spec => []LeaseInv
BY LeaseInit, LeaseStep, PTL DEF Spec

\* Every variable keeps a value the code could hold.
THEOREM TypeCorrect == Spec => []TypeOK
<1>1. LeaseInv => TypeOK
  BY DEF LeaseInv, TypeInv
<1> QED
  BY <1>1, LeaseInvariant, PTL

\* Two provider processes never work in one role's workspace: the lease that
\* reconcileWithMode commits before it launches is a lock that survives the
\* controller.
THEOREM OneWorker == Spec => []OneWorkerPerRole
<1>1. LeaseInv => OneWorkerPerRole
  BY DEF LeaseInv, WorkersCounted, OneWorkerPerRole
<1> QED
  BY <1>1, LeaseInvariant, PTL

\* While a provider process lives its lease is unresolved on disk, whoever
\* wrote the file last.
THEOREM LeaseOutlivesWorker == Spec => []WorkerHoldsLease
<1>1. LeaseInv => WorkerHoldsLease
  BY DEF LeaseInv, LiveLeaseHeld, Live, WorkerHoldsLease
<1> QED
  BY <1>1, LeaseInvariant, PTL

\* reportSessionTerminal always finds its own lease, unresolved.
THEOREM ReportFindsLease == Spec => []SessionOwnsLease
<1>1. LeaseInv => SessionOwnsLease
  BY DEF LeaseInv, LiveLeaseHeld, Live, SessionsMatch, SessionOwnsLease
<1> QED
  BY <1>1, LeaseInvariant, PTL

\* Every step of the controller is a step, or a stutter, of RoleLease.
LEMMA DisciplineStep ==
    LeaseInv /\ LeaseInv' /\ [Next]_vars => [Abstract!Next]_(Abstract!vars)
<1> SUFFICES ASSUME LeaseInv, LeaseInv', [Next]_vars
             PROVE  [Abstract!Next]_(Abstract!vars)
  OBVIOUS
<1> USE DEF Abstract!Next, Abstract!vars
<1>1. alive \in [Roles -> Nat]
  BY DEF LeaseInv, TypeInv, TypeOK
<1>2. CASE UNCHANGED alive
  <2>1. \A r \in Roles : alive[r] > 0 => r \in HeldRoles'
    BY <1>2 DEF LeaseInv, LiveLeaseHeld, Live, HeldRoles
  <2>2. HeldRoles' \in SUBSET Roles
    BY DEF HeldRoles
  <2> QED
    BY <1>2, <2>1, <2>2 DEF Abstract!Reassign
<1>3. ASSUME NEW r \in Roles, StartWorker(r) PROVE Abstract!Begin(r)
  <2>1. alive[r] = 0 /\ r \in HeldRoles
    BY <1>3 DEF StartWorker, LeaseInv, WorkersCounted, LiveLeaseHeld, Live, Stages, HeldRoles
  <2>2. alive' = [alive EXCEPT ![r] = 1]
    BY <1>1, <1>3, <2>1 DEF StartWorker
  <2>3. UNCHANGED HeldRoles
    BY <1>3 DEF StartWorker, HeldRoles
  <2> QED
    BY <2>1, <2>2, <2>3 DEF Abstract!Begin
<1>4. ASSUME NEW r \in Roles, WorkerExits(r) \/ OrphanExits(r) PROVE Abstract!End(r)
  <2>1. alive[r] = 1
    BY <1>1, <1>4 DEF WorkerExits, OrphanExits, Owned, LeaseInv, WorkersCounted
  <2>2. alive' = [alive EXCEPT ![r] = 0]
    BY <1>1, <1>4, <2>1 DEF WorkerExits, OrphanExits
  <2>3. UNCHANGED HeldRoles
    BY <1>4 DEF WorkerExits, OrphanExits, HeldRoles
  <2> QED
    BY <2>1, <2>2, <2>3 DEF Abstract!End
<1>5. \/ UNCHANGED alive
      \/ \E r \in Roles : StartWorker(r) \/ WorkerExits(r) \/ OrphanExits(r)
  BY DEF Next, Tick, SessionStep, OperatorStep, Start, Crash, Shutdown, Exit, Stop,
         TickLoad, TickConsume, TickRemove, TickPlan, TickEnd, Launch, ReloadFails,
         Delay, Skip, PrepareFails, RecordProcess, Land, Report, Deregister, Recover,
         ApproveLoad, ApproveCommit, QueueRead, QueueWrite, vars
<1> QED
  BY <1>2, <1>3, <1>4, <1>5

\* The controller implements the lease discipline of RoleLease.
THEOREM Discipline == Spec => LeaseDiscipline
<1>1. Init => Abstract!Init
  BY DEF Init, Abstract!Init, HeldRoles, EmptyState, NoLease, Unresolved
<1> QED
  BY <1>1, LeaseInvariant, DisciplineStep, PTL DEF Spec, LeaseDiscipline, Abstract!Spec
=============================================================================
