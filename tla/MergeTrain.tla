----------------------------- MODULE MergeTrain -----------------------------
(***************************************************************************)
(* From a dev agent's workspace to the base branch and the archive: the    *)
(* branch is prepared, the agent works, the merge train verifies, rebases, *)
(* verifies again, squashes, pushes and archives, one session at a time.   *)
(*                                                                         *)
(* Meanwhile agents push to the base branch by themselves, git, the        *)
(* network and the board fail, and the controller dies.  The same task may *)
(* have a session in two workspaces: one that lands is not stopped by a    *)
(* reassignment.                                                           *)
(***************************************************************************)
EXTENDS GitState, FiniteSets

CONSTANTS
    Roles,
    Checked,        \* the tasks that have a verification command
    LeavesHead,     \* where an agent that lands by itself leaves HEAD
    Attempts,       \* maxRetries of SquashMergeAndPush
    MaxFaults,      \* bound: commands that fail
    MaxCrashes,     \* bound: deaths of the controller
    MaxTrouble      \* bound: both together

ASSUME EditsAreFinite == IsFiniteSet(Edits)
ASSUME CheckedAssumption == Checked \subseteq Tasks
ASSUME LeavesHeadAssumption == LeavesHead \subseteq {"branch", "base"}
ASSUME AttemptsAssumption == Attempts \in Nat \ {0}
ASSUME BoundsAssumption == {MaxFaults, MaxCrashes, MaxTrouble} \subseteq Nat

VARIABLES
    base,       \* the base branch at the remote
    remote,     \* the task branches there
    wip,        \* edits saved on checkpoint branches
    ws,         \* the roles' workspaces
    session,    \* the roles' sessions
    train,      \* the role that holds mergeTrainMu, or None
    archived,   \* the tasks in ARCHIVE.md
    made,       \* the edits agents have made
    faults, crashes

vars == <<base, remote, wip, ws, session, train, archived, made,
          faults, crashes>>
git == <<base, remote, wip, ws>>
bounds == <<faults, crashes>>

Landing == {"gate", "zero", "rebase", "publish", "sync", "push", "archive"}
States == {"idle", "work", "queue"} \cup Landing

\* A session, with what it has fetched: origin/<base>, and its own branch there.
\* "promised" is what was in its workspace when the agent finished, "checked"
\* the commits that were checked out when the verification passed.
Session == [pc : States, task : Tasks \cup {None}, origin : Nat, tracked : Tip \cup {None},
            tries : Nat, promised : SUBSET Edits, checked : SUBSET Edits]

Idle == [pc |-> "idle", task |-> None, origin |-> 0, tracked |-> None, tries |-> 0,
         promised |-> {}, checked |-> {}]

TypeOK ==
    /\ base \in Seq(Commit)
    /\ remote \in [Tasks -> Tip \cup {None}]
    /\ wip \subseteq Edits
    /\ ws \in [Roles -> Workspace]
    /\ session \in [Roles -> Session]
    /\ train \in Roles \cup {None}
    /\ archived \subseteq Tasks
    /\ made \subseteq Edits
    /\ faults \in 0 .. MaxFaults /\ crashes \in 0 .. MaxCrashes

Init ==
    /\ base = <<>>
    /\ remote = [t \in Tasks |-> None]
    /\ wip = {}
    /\ ws = [r \in Roles |-> [head |-> "base", dirty |-> {}, unpushed |-> {},
                              local |-> [t \in Tasks |-> None]]]
    /\ session = [r \in Roles |-> Idle]
    /\ train = None
    /\ archived = {}
    /\ made = {}
    /\ faults = 0 /\ crashes = 0

-----------------------------------------------------------------------------

At(r, state) == session[r].pc = state
TaskOf(r) == session[r].task
Branch(r) == ws[r].local[TaskOf(r)]
Landed == Content(base, Len(base))

Goto(r, state) == session' = [session EXCEPT ![r].pc = state]
SetWs(r, w) == ws' = [ws EXCEPT ![r] = w]

\* The session ends, and with it its hold on the train.
End(r) ==
    /\ session' = [session EXCEPT ![r] = Idle]
    /\ train' = IF train = r THEN None ELSE train

Trouble == faults + crashes < MaxTrouble

\* A command that can go wrong for reasons of its own.
Fault == Trouble /\ faults < MaxFaults /\ faults' = faults + 1

-----------------------------------------------------------------------------
(* PrepareBranch, and the agent's work.                                    *)

\* The branch is prepared.  One that is checked out already is left as it is;
\* one that the remote does not have is pushed.
Start(r, t) ==
    LET w == ws[r]
        ready == IF w.head = t THEN w ELSE CheckedOut(base, Checkpointed(w), t, remote[t])
    IN  /\ At(r, "idle") /\ t \notin archived
        /\ wip' = IF w.head = t THEN wip ELSE wip \cup Checkpoint(w)
        /\ remote' = IF w.head # t /\ remote[t] = None
                     THEN [remote EXCEPT ![t] = ready.local[t]] ELSE remote
        /\ SetWs(r, ready)
        /\ session' = [session EXCEPT ![r] = [Idle EXCEPT !.pc = "work", !.task = t,
                          !.origin = Len(base), !.tracked = remote'[t]]]
        /\ UNCHANGED <<base, train, archived, made, bounds>>

\* PrepareBranch stops in the checkpoint or after it, at the checkout, the pull
\* or the push, and the session fails.
StartFails(r, t) ==
    LET saved == Checkpointed(ws[r])
    IN  /\ At(r, "idle") /\ t \notin archived
        /\ ws[r].head # t
        /\ Fault
        /\ \/ /\ ws[r].dirty # {} /\ UNCHANGED wip
              /\ SetWs(r, [ws[r] EXCEPT !.head = "wip"])
           \/ /\ wip' = wip \cup Checkpoint(ws[r])
              /\ \/ SetWs(r, saved)
                 \/ saved.local[t] # None /\ SetWs(r, [saved EXCEPT !.head = t])
                 \/ remote[t] = None /\ SetWs(r, CheckedOut(base, saved, t, None))
                 \/ /\ saved.local[t] = None /\ remote[t] = None
                    /\ SetWs(r, [saved EXCEPT !.head = "base"])
        /\ UNCHANGED <<base, remote, session, train, archived, made, crashes>>

Edit(r, e) ==
    /\ At(r, "work") /\ e \notin made /\ AuthorOf[e] = TaskOf(r)
    /\ made' = made \cup {e}
    /\ SetWs(r, [ws[r] EXCEPT !.dirty = @ \cup {e}])
    /\ UNCHANGED <<base, remote, wip, session, train, archived, bounds>>

AgentCommits(r, subject) ==
    /\ At(r, "work") /\ ws[r].dirty # {} /\ ws[r].head = TaskOf(r)
    /\ SetWs(r, Committed(ws[r], subject))
    /\ UNCHANGED <<base, remote, wip, session, train, archived, made, bounds>>

\* The agent follows its role file: it squashes and pushes by itself.
AgentLands(r) ==
    LET t == TaskOf(r)
        work == Branch(r).own \ Landed
    IN  /\ At(r, "work") /\ ws[r].dirty = {} /\ ws[r].head = t
        /\ work # {}
        /\ base' = Append(base, [names |-> t, work |-> work])
        /\ \E place \in LeavesHead :
              SetWs(r, [ws[r] EXCEPT !.unpushed = {},
                                     !.head = IF place = "base" THEN "base" ELSE t])
        /\ session' = [session EXCEPT ![r].origin = Len(base')]
        /\ UNCHANGED <<remote, wip, train, archived, made, bounds>>

AgentCompletes(r) ==
    /\ At(r, "work")
    /\ session' = [session EXCEPT ![r].pc = "queue",
                                  ![r].promised = ws[r].dirty \cup Branch(r).own]
    /\ UNCHANGED <<git, train, archived, made, bounds>>

\* It fails, meets a limit or is cancelled.
AgentStops(r) ==
    /\ At(r, "work")
    /\ End(r)
    /\ UNCHANGED <<git, archived, made, bounds>>

-----------------------------------------------------------------------------
(* LandCompletedTask.                                                      *)

Enter(r) ==
    /\ At(r, "queue") /\ train = None
    /\ train' = r
    /\ Goto(r, "gate")
    /\ UNCHANGED <<git, archived, made, bounds>>

\* Uncommitted changes are verified and committed to the branch checked out;
\* then CommitsAheadOfBase counts.
Gate(r) ==
    LET w == IF ws[r].dirty = {} THEN ws[r] ELSE Committed(ws[r], "other")
        tip == w.local[TaskOf(r)]
        ahead == tip.own # {} \/ tip.on > session[r].origin
    IN  /\ At(r, "gate")
        /\ ws[r].dirty # {} => TaskOf(r) \in Checked
        /\ SetWs(r, w)
        /\ Goto(r, IF ahead THEN "rebase" ELSE "zero")
        /\ UNCHANGED <<base, remote, wip, train, archived, made, bounds>>

\* A task without commits is archived when its verification passes.
Zero(r) ==
    /\ At(r, "zero")
    /\ archived' = archived \cup {TaskOf(r)}
    /\ End(r)
    /\ UNCHANGED <<git, made, bounds>>

\* fetch, rebase of the branch that is checked out, and its verification
Rebase(r) ==
    LET w == Rebased(base, ws[r], Len(base))
    IN  /\ At(r, "rebase")
        /\ SetWs(r, w)
        /\ session' = [session EXCEPT ![r].pc = "publish", ![r].origin = Len(base),
                                      ![r].checked = OnHead(w)]
        /\ UNCHANGED <<base, remote, wip, train, archived, made, bounds>>

RebaseMayConflict(r) ==
    IF ws[r].head = "base" THEN ws[r].unpushed # {} ELSE MayConflict(Branch(r), Len(base))

\* A verification is missing or fails, or the rebase meets a conflict.
Refuse(r) ==
    /\ \/ At(r, "gate") /\ ws[r].dirty # {} /\ UNCHANGED ws
       \/ At(r, "zero") /\ TaskOf(r) \in Checked /\ UNCHANGED ws
       \/ /\ At(r, "rebase") /\ TaskOf(r) \in Checked
          /\ SetWs(r, Rebased(base, ws[r], Len(base)))
       \/ At(r, "rebase") /\ RebaseMayConflict(r) /\ UNCHANGED ws
    /\ End(r)
    /\ UNCHANGED <<base, remote, wip, archived, made, bounds>>

\* A commit, rev-list or fetch fails, or the board refuses a zero-commit task.
Breaks(r) ==
    /\ At(r, "gate") \/ At(r, "rebase") \/ At(r, "zero")
    /\ Fault
    /\ End(r)
    /\ UNCHANGED <<git, archived, made, crashes>>

\* push --force-with-lease of the task branch, whose failure is ignored
Publish(r) ==
    LET t == TaskOf(r)
    IN  /\ At(r, "publish")
        /\ \/ /\ remote[t] = session[r].tracked
              /\ remote' = [remote EXCEPT ![t] = Branch(r)]
              /\ UNCHANGED faults
           \/ remote[t] # session[r].tracked /\ UNCHANGED <<remote, faults>>
           \/ Fault /\ UNCHANGED remote
        /\ session' = [session EXCEPT ![r].pc = "sync", ![r].tries = 1]
        /\ UNCHANGED <<base, wip, ws, train, archived, made, crashes>>

-----------------------------------------------------------------------------
(* SquashMergeAndPush.                                                     *)

\* Mutants: after the last attempt comes the first; what could not be pushed is archived.
RetryForEver(r) ==
    /\ session' = [session EXCEPT ![r].pc = "sync", ![r].tries = 1 + (@ % Attempts)]
    /\ UNCHANGED train

RetryOrArchive(r) ==
    /\ session' = IF session[r].tries < Attempts
                  THEN [session EXCEPT ![r].pc = "sync", ![r].tries = @ + 1]
                  ELSE [session EXCEPT ![r].pc = "archive"]
    /\ UNCHANGED train

\* The next attempt, or none.
Retry(r) ==
    IF session[r].tries < Attempts
    THEN /\ session' = [session EXCEPT ![r].pc = "sync", ![r].tries = @ + 1]
         /\ UNCHANGED train
    ELSE End(r)

Squashed(r) == Branch(r).own \ Landed

\* checkout <base>, fetch, reset --hard origin/<base>, merge --squash, commit;
\* nothing staged means that the work is on the base already
Sync(r) ==
    /\ At(r, "sync")
    /\ SetWs(r, [ResetToOrigin(ws[r]) EXCEPT !.unpushed = @ \cup Squashed(r)])
    /\ session' = [session EXCEPT ![r].pc = IF Squashed(r) = {} THEN "archive" ELSE "push",
                                  ![r].origin = Len(base)]
    /\ UNCHANGED <<base, remote, wip, train, archived, made, bounds>>

\* The checkout fails, the fetch, a later command, or the squash by a conflict.
SyncFails(r) ==
    /\ At(r, "sync")
    /\ \/ Fault /\ UNCHANGED ws
       \/ Fault /\ SetWs(r, [ws[r] EXCEPT !.head = "base"])
       \/ Fault /\ SetWs(r, ResetToOrigin(ws[r]))
       \/ /\ MayConflict(Branch(r), Len(base)) /\ UNCHANGED faults
          /\ SetWs(r, ResetToOrigin(ws[r]))
    /\ Retry(r)
    /\ UNCHANGED <<base, remote, wip, archived, made, crashes>>

UpToDate(r) == session[r].origin = Len(base)

Pushed(r) ==
    Append(base, [names |-> NamedBy(TaskOf(r), Branch(r).subject), work |-> ws[r].unpushed])

Push(r) ==
    /\ At(r, "push") /\ UpToDate(r)
    /\ base' = Pushed(r)
    /\ SetWs(r, [ws[r] EXCEPT !.unpushed = {}])
    /\ session' = [session EXCEPT ![r].pc = "archive", ![r].origin = Len(base')]
    /\ UNCHANGED <<remote, wip, train, archived, made, bounds>>

\* Someone else was first, the remote was not reached, or its answer was lost:
\* the commit is dropped and the squash made again.
PushFails(r) ==
    /\ At(r, "push")
    /\ \/ ~UpToDate(r) /\ UNCHANGED <<base, faults>>
       \/ Fault /\ UNCHANGED base
       \/ Fault /\ UpToDate(r) /\ base' = Pushed(r)
    /\ SetWs(r, ResetToOrigin(ws[r]))
    /\ Retry(r)
    /\ UNCHANGED <<remote, wip, archived, made, crashes>>

\* What has landed is completed, whether or not the board takes it.
Archive(r) ==
    /\ At(r, "archive")
    /\ \/ /\ archived' = archived \cup {TaskOf(r)}
          /\ UNCHANGED faults
       \/ Fault /\ UNCHANGED archived
    /\ End(r)
    /\ UNCHANGED <<git, made, crashes>>

-----------------------------------------------------------------------------
\* The controller dies with every session; a push that is under way may arrive.
Crash ==
    /\ Trouble /\ crashes < MaxCrashes
    /\ crashes' = crashes + 1
    /\ session' = [r \in Roles |-> Idle]
    /\ train' = None
    /\ \/ UNCHANGED base
       \/ \E r \in Roles : /\ At(r, "push") /\ UpToDate(r)
                           /\ base' = Pushed(r)
    /\ UNCHANGED <<remote, wip, ws, archived, made, faults>>

-----------------------------------------------------------------------------

Work(r) ==
    \/ \E e \in Edits : Edit(r, e)
    \/ \E subject \in Subjects : AgentCommits(r, subject)
    \/ AgentLands(r)

Ends(r) == AgentCompletes(r) \/ AgentStops(r)

Land(r) ==
    \/ Gate(r) \/ Zero(r) \/ Rebase(r) \/ Refuse(r) \/ Breaks(r) \/ Publish(r)
    \/ Sync(r) \/ SyncFails(r) \/ Push(r) \/ PushFails(r) \/ Archive(r)

\* Nothing is left to do.
Rest == archived = Tasks /\ (\A r \in Roles : At(r, "idle")) /\ UNCHANGED vars

Next ==
    \/ \E r \in Roles :
          \/ \E t \in Tasks : Start(r, t) \/ StartFails(r, t)
          \/ Work(r) \/ Ends(r) \/ Enter(r) \/ Land(r)
    \/ Crash \/ Rest

Spec == Init /\ [][Next]_vars

\* Git and the verification commands answer, and agents have a turn limit; a
\* session that waits for the train is not passed over for ever.
FairSpec ==
    /\ Spec
    /\ \A r \in Roles :
          /\ WF_vars(Ends(r))
          /\ SF_vars(Enter(r))
          /\ WF_vars(Land(r))

-----------------------------------------------------------------------------
(* Properties.                                                             *)

Mine(r) == ws[r].dirty \cup ws[r].unpushed
             \cup UNION {ws[r].local[t].own : t \in {u \in Tasks : ws[r].local[u] # None}}

Saved == wip \cup UNION {remote[t].own : t \in {u \in Tasks : remote[u] # None}}

\* Whatever an agent has written is on the base branch, on some branch, on a
\* checkpoint, or still in a workspace: switching tasks, rebasing, squashing,
\* resetting and failing anywhere between lose nothing.
NothingLost == made \subseteq Landed \cup Saved \cup UNION {Mine(r) : r \in Roles}

\* When the train tells the board that a task is done, everything its agent had
\* written in that workspace when it finished is on the base branch.
LandedBeforeDone ==
    \A r \in Roles :
        session[r].pc \in {"archive", "zero"} => session[r].promised \subseteq Landed

\* What is about to be pushed for a task with a verification command was there
\* when that command last passed, in this landing.
VerifiedBeforeLanding ==
    \A r \in Roles :
        At(r, "push") /\ TaskOf(r) \in Checked => ws[r].unpushed \subseteq session[r].checked

\* A commit of the base branch holds the work of one task (merge.go:19-20), as
\* long as the controller does not die between the squash commit and the push.
OneTask(work) == \A e, f \in work : AuthorOf[e] = AuthorOf[f]
OneTaskPerCommit == crashes = 0 => \A i \in 1 .. Len(base) : OneTask(base[i].work)

\* A session that has entered the train leaves it, and one that waits gets in.
LandingEnds ==
    \A r \in Roles : At(r, "queue") \/ session[r].pc \in Landing ~> At(r, "idle")

-----------------------------------------------------------------------------
(* What comments say, and the code does not do.                            *)

\* "One final commit per task" (templates.go:232): also after a crash.
NeverTwoTasks == \A i \in 1 .. Len(base) : OneTask(base[i].work)

\* "A subject's leading token identifies the task whose work has landed"
\* (merge.go:21-22), for FormatCommitMessage "ensures" one (mergetrain.go:20).
SubjectNamesTask ==
    \A i \in 1 .. Len(base) : \A e \in base[i].work : base[i].names = AuthorOf[e]
=============================================================================
