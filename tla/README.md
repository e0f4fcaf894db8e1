# slopboss: specifications and proofs

slopboss polls a Markdown board, keeps at most one agent session per role (Team
Lead, Dev Agent 1, 2, …) converged on what the board asks for, lands the
branches of finished work and records every result durably.  This directory
holds TLA+ modules of that system, the TLC configurations that check them and
the TLAPS proofs about them.  Source paths are relative to `src/`.

## 1. Inventory

| Part | State it keeps | Operations | Talks to |
|---|---|---|---|
| Controller scheduler, `internal/orchestrator/scheduler.go`, `state.go` | `running`, `finished`, circuit breakers, pauses (memory only) | one *tick*: load snapshot, consume approvals, plan, cancel, launch | state store, board, sessions |
| State store, `controller_state.go` | `controller-state.json`: one lease per role, History, PastResults, approvals, rationale | `Load`, `Commit` (validate against the file, write, rename, sync) | scheduler, sessions, recovery |
| Sessions, `session.go`, `process.go` | one goroutine per role, a provider process | prepare, start, record process, wait, report result, deregister; cancellation | store (under `controllerMu`), merge train |
| Ownership, `ownership.go`, `cmd/slopboss/recover.go` | `controller.lock`, `retry-requests.json` | `--confirm-stopped`, `--retry`, `--inspect`; consumption of the requests | store, scheduler |
| Run loop, `loop.go` | ticker, dashboard goroutines | start under the lock, poll, shut down with a grace period | scheduler, sessions, dashboard |
| Team Lead planner, `scheduler.go:268-379` | `lastTeamLeadActivity`, `lastAuditedBoardHash` | choose unblock, follow-up, grooming, decomposition, idle audit | board queries, snapshot |
| Agent-mode coordination, `team_lead_agent.go`, `internal/coordination` | report file | task key from the board and worker results; read the report | snapshot, session |
| Merge train, `mergetrain.go`, `internal/git` | task branch, base branch, `mergeTrainMu` | verify, commit, rebase, verify, squash, push, archive | git remote, board |
| Board transactions, `internal/board/transaction.go` | `board.lock`, `board-transaction.json` | journal, apply, recover | board commands |
| Board commands, `mutate.go`, `assign.go`, `lifecycle.go`, `continuation.go`, `human_input.go` | TASKS, BACKLOG, ARCHIVE | create, set, assign, resume, accept, clear | transactions, snapshot |
| Board queries, `queries.go`, `merge.go`, `archive_verify.go`, `cache.go` | merged-ID set, archive issues, file cache | completed set, ready tasks, orphan blockers | git, files |
| Providers, experiment runner, setup, doctor, prompts, dashboard, log, configuration | see `PROJECT.json` | | |

How they interact: the poll goroutine runs the tick under `controllerMu`; the
session goroutines take the same mutex to write a process identity or a result;
`controller.lock` makes a running controller exclusive with
`recover --confirm-stopped` and with the direct form of `recover --retry`;
everything else (operators' request file, provider processes, agents that edit
the board) is excluded by neither.

What is hard here: the lease must act as a lock that survives the controller;
the tick works on one in-memory copy of the snapshot through several writes,
some refused, some half done; an operator's command works on a copy of its own
that may be old; results are remembered in four places (`Leases`, `History`,
`PastResults`, `finished`) with different lifetimes; two files (request file
and snapshot) change in two steps; the board is changed by agents at any time.
The list of hazards with their lines is in `PROJECT.json`.

What makes each part correct:

- scheduler and store: at most one worker per role whatever crashes; attempts
  bounded and never lost; completed work not repeated; failed work repeated
  while the budget lasts; results not lost;
- sessions: every session that the controller sees end has a durable result;
- ownership: an approval is used, once, and erases nothing;
- board commands and transactions: a command happens at once or not at all,
  whatever fails; no task is lost or doubled; a lane has one task, whose
  dependencies are done; a person's edit is never overwritten;
- merge train: what is marked Done is on the base branch, what is pushed was
  verified, and nothing an agent wrote is lost on the way;
- completed set: landed work comes to count as done, a false claim stops counting;
- planner: no class of blocked work is starved, and a quiet board is left in peace;
- pacing: retries, circuits, pauses and cancellations keep their distances, and
  none of them lasts for ever.

## 2. Modules

| Module | What it is |
|---|---|
| `ControllerState` | the durable snapshot, the transition validator, the launch decision, the snapshots each writer proposes: operators only |
| `Controller` | the state machine: controller process, tick, sessions, provider processes, operators; its properties |
| `RoleLease` | abstract specification: a role is held or free, one worker at most, only while held |
| `ControllerInvariant` | the inductive invariants `LeaseInv`, `HistoryInv` and `BudgetInv`; the refinement mapping to `RoleLease` |
| `ControllerProofs` | leases: `LeaseInv`, the properties that follow from it, the refinement |
| `ControllerHistoryProofs` | what snapshots tell of earlier results: `HistoryInv` and the properties that follow from it |
| `ControllerBudgetProofs` | how often an assignment may be attempted: `BudgetInv` and `AttemptBudget` |
| `MCController` | constants for TLC |
| `BoardState` | the board's documents and what each command would make of them: operators only |
| `Board` | the state machine: lock, files, journal, recovery, failures, crashes, edits by hand |
| `BoardAtomic` | abstract specification: a command changes the board in one step, or not at all |
| `BoardProperties` | the properties of the board, and the refinement mapping to `BoardAtomic` |
| `BoardInvariant` | the inductive invariants: `BoardInv` of the lock and the journal, `LanesInv` of the lanes, `RecordsInv` of the records |
| `BoardProofs` | the theorems about the lock and the journal, and the refinement |
| `BoardLanesProofs` | lemmas about sequences, documents and every command, and the theorems about the lanes |
| `BoardRecordsProofs` | what each command does to records, questions and the number of copies, and the theorems about them |
| `MCBoard` | boards, commands and edits for TLC |
| `GitState` | a workspace, its branches and the remote; what the git commands do to them: operators only |
| `MergeTrain` | the state machine: prepare a branch, work, land, fail anywhere, die; its properties |
| `MergedView` | `MergeTrain` with the poll loop that reads the base branch and the archive |
| `MergeTrainProofs` | the inductive invariants and the theorems about `MergeTrain` |
| `MCMergeTrain`, `MCMergedView` | constants for TLC |
| `Planner` | the state machine: board, tick, planner, leases, sessions' ends; its properties |
| `MCPlanner` | boards for TLC |
| `Pacing` | the state machine with time: cancel marks, retry delays, circuits, usage pause; its properties |
| `PacingProofs` | the inductive invariant and the theorems about `Pacing` |
| `MCPacing` | constants for TLC |

Each module is one level of the same controller.  `Controller` has the leases
with all their failures and takes the board as an input.  `Planner` composes the
launch decision of `ControllerState` (by `INSTANCE`, as `Durable`) with a board,
and computes what `Controller` takes as input: the session wanted for every
role.  `Pacing` composes the same launch decision with time and decides when a
wanted session starts, which `Controller` leaves open (`Launch` or `Delay`).
`MergeTrain` opens up the landing that is one step in the others, and
`MergedView` composes it with the poll loop's reading of what has landed, the
`merged` and `landed` of `Planner` and `Pacing`.

### The controller: from code to model

A lease ID is a hash of role, task and board key; the model has opaque IDs and
the functions `RoleOf`, `TaskOf`, `ContinueAfter`, `PlainOf` that say what the
hash was made from.  `Terminal = nil` is the outcome `"unresolved"`.  Intent
(task, role, branch) is a function of the ID, so the validator's comparison of
intents is the comparison of IDs.

| Variable | Code |
|---|---|
| `disk` | `workspaces/controller-state.json` |
| `queue` | `workspaces/retry-requests.json` |
| `phase` | where the controller is: not running (lock free), idle between ticks, inside a tick, shutting down |
| `durable`, `batch`, `desired`, `todo` | locals of `reconcileWithMode`; `todo` is what its loop over the `desired` map has left, in any order, as Go iterates |
| `session` | `running`, with the position of the goroutine |
| `finished` | `finished` |
| `alive` | provider processes at work in a role's workspace |
| `cli` | locals of `ApproveTerminalRetry` and `queueLiveRetryApproval` in other processes |
| `now` | the clock: one unit per launch attempt |

One action is one stretch of code that no other actor can interrupt.
`controllerMu` excludes session writes from a tick (`phase \notin Ticking` in
`RecordProcess` and `Report`); between the tick's own steps sessions exit,
operators read and write, and the controller may die.  `Commit` has four
outcomes: done, refused by the validator, failed before the rename, failed after
it.  A refused or failed grant leaves `RefusedGrant` in the tick's copy, as the
shared maps and slice of `commitRecoveryLease` do.

The board is an input: `TickPlan` reads any member of `Boards`.  What `Pacing`
decides, and a missing workspace, is the choice between `Launch` and `Delay`,
and the choice of the sessions `TickPlan` cancels.

Abstracted: reasons and evidence texts; the ten-minute age of an unresolved
lease (both branches refuse the launch); a request file that is not JSON or
cannot be removed; `recoveryByRole` and `recoveryDecisions`, which are only
shown.

### The board: from code to model

A document is a sequence of lines: the top heading, section headings, task
records and human-input bullets.  The section of a record is the heading above
it, as `sectionAt` finds it, so that dropping a repeated heading moves records,
as it does in the file.  A lane's two spellings ("Dev Agent 1" and
"Dev Agent 1 In Progress") are one section, named by its role.

`Decide(c, docs)` is what command `c` does once it holds the lock: refuse,
answer without a change, replace one document (`writeAtomic`), or replace
several through the journal (`commitBoardChanges`).  Every command ends in
`Rewrite` or `Rewrites`, which validate each changed document as a whole.

| Variable | Code |
|---|---|
| `files` | BACKLOG.md, TASKS.md, ARCHIVE.md |
| `journal` | `workspaces/board-transaction.json`; `order` is the order of its `Changes` |
| `lock` | `workspaces/board.lock`; a process that dies gives it up |
| `pc`, `command`, `verdict`, `todo` | where a process is, its arguments, what it decided, the documents its recovery has still to write |
| `answer` | whether the last command reported success |
| `edits`, `faults`, `crashes` | bounds |

| State of a process | Code |
|---|---|
| `locked` | lock held, before `recoverBoardTransaction` in `lockBoard` (`Inspect`, `NothingToRecover`) |
| `redo` | that recovery is writing (`Replay`, `RemoveJournal`) |
| `run` | the command reads the documents and decides (`Run`) |
| `write` | one document is about to be replaced (`Write`) |
| `stage`, `commit`, `apply` | `commitBoardChanges`: the journal is written, inspected, applied |

Every write may fail before or after it has reached its place: `writeAtomic`,
the journal and its removal all end in a directory sync whose error is
returned.  A person edits a document only while nobody holds the lock, which is
what README.md:283-285 asks for, but possibly while a journal is waiting.

Abstracted: how Markdown spells all this (code fences, case, spacing, the
headings allowed in a task's body); titles, `Blocked by`, `Completed`, the
reason of a continuation; prose between records; the continuation lines of a
bullet; sections named "Team Lead", which `validateUpdate` refuses; documents
that cannot be read, and a journal that cannot be parsed, where the command
ends as in `Crash` without having changed anything.  Power loss is not modelled:
files and directories are synced before they are relied on.

### The merge train: from code to model

A history is a set of edits, and a commit of the base branch is a record of the
edits it adds and the task its subject names.  A branch starts on some first
commits of the base branch and has edits of its own.

| Variable | Code |
|---|---|
| `base`, `remote` | the base branch and the task branches at the remote |
| `ws` | the roles' clones: HEAD, uncommitted changes, own commits of the local base branch, local task branches |
| `wip` | what is on the branches made by `checkpointDirtyWorkspace` |
| `session` | how far a session is; `origin` and `tracked` are its remote-tracking refs |
| `train` | who holds `mergeTrainMu` |
| `archived`, `claim` | ARCHIVE.md, and the commit an entry cites |
| `origin`, `issues` | `origin/<base>` of the Team Lead's workspace, and `archiveIssues` |
| `made`, `promised`, `checked` | what happened, for the properties |

| Action | Code |
|---|---|
| `Start`, `StartFails` | `PrepareBranch` and where it may stop (git.go:59-153) |
| `Edit`, `AgentCommits`, `AgentLands`, `AgentArchives` | the agent, following DEV_AGENT.md (templates.go:229-259) |
| `AgentCompletes`, `AgentStops` | the provider's end (session.go:98-102) |
| `Enter`, `Gate`, `Zero`, `Rebase`, `Publish`, `Archive` | `LandCompletedTask`, step by step |
| `Refuse`, `Breaks` | its returns with `sessionFailed` |
| `Sync`, `SyncFails`, `Push`, `PushFails` | one attempt of `SquashMergeAndPush` |
| `Refresh` | loop.go:101-104, `RefreshMainBranch` and both readers |
| `OthersPush`, `Crash` | the world outside |

A push that fails may have arrived (its answer is lost).  The same task may have
a session in two workspaces.  Abstracted: `rebase` and `pull` happen at once, a
pull that conflicts leaves nothing behind, `git status` answers, changes staged
by a squash that was not committed are dropped with it, a fetch that fails when
a branch is prepared changes nothing, commands have no time limit of their own
(the code gives the fetch none, although the train waits for it), no agent
survives a crash of the controller.

### The planner: from code to model

A key is a record of what the code hashes or concatenates: two keys are equal
when the code's are.

| Variable | Code |
|---|---|
| `board`, `read` | the board's files, and the copy the tick took some seconds before it planned (loop.go:89-105) |
| `merged` | tasks named on the base branch |
| `lease`, `history` | `Leases` and `History` of the snapshot |
| `finished`, `audited` | `finished`, `lastAuditedBoardHash` |
| `due`, `rested` | the quiet interval, and the retry delays, that are over |
| `session`, `before` | `running`, and the board when the Team Lead's session began (session.go:187) |

`Plan` is `planTeamLeadAction` and `Reconcile` the rest of the tick, as one step
(the failures between its writes are in `Controller`).  `DevFails`, `DevLands`
and `LeadEnds` are the ends of sessions with the judgement of `runTeamLead`: a
pass that left the board as it was has failed.  The board changes by commands
and by hand, also while a session runs, so a pass may be credited with the
change of someone else.

Abstracted: the preference for AFK tasks and the order of the board (any task
may be first), `BlockingTasks`, titles and bodies, categories but HITL;
approvals, usage limits and circuits (`Pacing`); failed commits, crashes and
unresolved leases (`Controller`): the controller restarts when no session runs;
continuation keys.  The quiet interval and the hour that names an audit pass
together.

### Pacing: from code to model

| Variable | Code |
|---|---|
| `wants`, `read` | the key the board asks of each role, now and when the tick read it |
| `desired` | what the tick's loop over the `desired` map has still to look at |
| `cleared` | the role that is past the loop's checks and not yet in `running` |
| `landed` | keys whose task counts as done |
| `session` | `running`; `recorded` once the process identity is written (session.go:276) |
| `snapshot` | the controller's snapshot, as in `ControllerState` |
| `rest` | the time since a key's last result |
| `circuit` | `circuitBreakers` |
| `pause` | what is left until `codexPausedUntil` |
| `mark` | the time since `cancelPendingSince` |
| `streak`, `limit`, `off`, `spared` | failures in a row, the time since the last usage limit, the time since the board was first found not to want a session, the role that was `cleared` when the last limit was met: for the properties |

| Action | Code |
|---|---|
| `ReadBoard` | the poll loop reads the board (loop.go:89-98) |
| `Reconcile` | the tick as far as the cancellations, which are decided and done under `mu` (scheduler.go:432-466) |
| `Check` | the loop's checks of one role; the usage pause is the last of them (:468-544) |
| `Launch` | the lease is committed and read back, and the session starts (:546-573) |
| `Records` | `recordWorkerProcess`, before the provider's end is awaited |
| `LimitHit` | `pauseLaunchesAfterUsageLimit`, before the result is reported (session.go:299-302) |
| `Ends` | the deferred report, removal and circuit result (session.go:76-92) |

The locks decide what comes between a tick's steps.  The tick holds `controllerMu`
throughout, so no process is recorded, no result reported and no approval consumed
until it is over (`~Ticking`).  It holds `mu` only for moments, and a usage limit
takes nothing else: `LimitHit` falls between any two steps, also between a role's
`Check` and its `Launch`.  A board change falls anywhere, and matters to the next
tick.  `Ends` is one step although its report takes `controllerMu` and its removal
takes `mu` some time later, possibly in the middle of a tick.  Until the removal
the role is skipped as active; after it the tick sees what it would have seen if
the session had ended before: the report came before the tick, the removal
takes the mark along, and a cancellation in between cancels nothing.  A tick takes no
time in the model: it is a few file operations, and the shortest delay is 30 seconds.
A commit that fails is in `Controller`.

Ages stop at the largest delay that is compared with them.  Delays are a few
units of time (retry delay 1, base delay 2, longest delay 3, cooldown 2, grace
period 2) and the threshold is 2 failures instead of 3; each age is compared with
its own delay alone, and what matters between them (the first backoff is not shorter
than the retry delay nor longer than the longest) is an assumption of the module.
`finished` is derived from the snapshot (what the lease or History says of the key),
only failed leases are approved (a blocked one is the run `blocked`), and the
controller restarts when no session runs.

## 3. Runs

### Controller

These runs are instances of `MCController`.  Assignments: `a`, `b`, and `c` (a
continuation of `a`) for the developer; `x` (coordination, may block) and `y`
(unblock pass) for the Team Lead.

| Run | Instance | Shows |
|---|---|---|
| `lane` | 1 lane whose board changes between `a` and `b` (symmetric), 4 launches, 1 crash, 1 failed write | the type invariant; the scheduler's writes are accepted, attempts never go back, completed work is not repeated |
| `ops` | a lane (`a`) and the Team Lead (`x`, `y`), boards that change, an operator with 1 approval, 2 launches, 1 crash, 1 failed write | one worker per role, results find their lease, refinement of `RoleLease`, nothing is launched over a held or unreviewed role |
| `budget` | a board that keeps asking for the continuation of `a`, 4 launches, 1 approval, no failed write, fair | retry budget; an approved failure is attempted again; sessions are reported, failures retried, continuations run |

The bounds: in `lane` three launches are the smallest number for launch,
replacement and return of an assignment (`A → B → A`), and the fourth adds a
retry; in `ops` each of two roles can be launched or one be launched again, and
a third launch of two roles is too many states (every property of that run is
proved for any number).
One crash and one failed write can fall on every step, and a second one meets
the same states with fewer launches left.  `CHECK_DEADLOCK` stays on: a
controller can always tick.  When `now` reaches `MaxLaunches` the liveness
properties are satisfied by that disjunct, so they say something about the
launches before it.

Runs that are expected to fail, each on one property quoted from the code
(`findings` in `PROJECT.json`):

| Run | Statement | What happens |
|---|---|---|
| `stale` | ownership.go:156 | `--retry` commits a snapshot it read before the lock and erases a newer result |
| `blocked` | ownership.go:157 | the `finished` entry of a blocked result keeps the approved run from starting |

Other places where the model follows the code and the code does not do what its
text says, with no run of their own:

- README.md:135, "The prior outcome and the reason for retry remain in
  controller state": a retry granted from History overwrites that entry, and
  PastResults keeps only the result of the role's current lease
  (scheduler.go:59, 71-73).
- recover.go:51, "one retry of a blocked or failed terminal lease": a queued
  approval is applied by lease ID, also when the automatic retry has completed the
  assignment in the meantime (scheduler.go:138).
- ownership.go:156, "a one-use operator override": when the commit that consumes
  an approval fails, the same tick can use it and the next tick reads it again
  (ownership.go:85-87), so `AttemptBudget` allows one attempt more for each failed
  write.
- controller_state.go:151, "retaining any prior attempt count": the snapshot that a
  `--retry` read before it had the lock may be committed after the role has worked
  on something else; it brings an earlier count back.  `AttemptCountRetained`
  excepts that step and allows it no other count.
- A retry that was approved while its assignment still ran is used when the
  assignment has completed, and repeats it: `CompletedNotRerun` excepts assignments
  with an approval.
- ownership.go:157, "queues the approval for the next tick": a request written
  between the tick's read and its removal of the file is lost (ownership.go:64-87).
- A result that cannot be written is only logged (session.go:81): the role stays
  held until an operator recovers it.  `EverySessionReported` is checked while
  writes succeed.
- A snapshot that was committed and cannot be read back (scheduler.go:561) leaves
  a lease without a session; the rest of that tick works on an empty copy.

### Board

These runs are instances of `MCBoard`: tasks `a`, `b`, `c`, lanes `one`, `two`.

| Run | Instance | Shows |
|---|---|---|
| `moves` | 2 processes, 11 commands, 1 edit (delete, paste, save twice over), 1 failed write, 1 crash | a command is atomic for whoever takes the lock (refinement of `BoardAtomic`); edits kept; no task or open question lost, no task doubled (for its exception see section 4) |
| `lanes` | 2 processes, 3 tasks, 2 lanes, assign, finish, block, 1 failed write, 1 crash | one task per lane, after its dependencies; what was read in the archive stays there |
| `board_live` | 2 processes, a poll and a move, 1 edit, 1 failed write, 1 crash, fair | a journaled move is completed, unless an edit contradicts it |

The bounds: a journal concerns two or three documents, so one failure and one
crash can leave it before, between and after its writes, and a second command
meets what they left.  Commands are not bounded: the boards are finite because
the tasks are.  `lanes` has no edits by hand: a person can put two tasks into a
lane.  Its commands are orderly (`OrderlyCommands`), because `board set` checks less
than `board assign`: with `--file tasks --section "Dev Agent 1" --owner ... --status
"In Progress"` it fills a lane that has a task already, or with work whose
dependencies are open; it changes the dependencies of work in progress; and
`--file backlog` and `--file tasks` move an archived record back unless
`--source-section` names a section outside the archive (mutate.go:347-445).  The Team
Lead is told to use `board assign` for assignments (team_lead_agent.go:75).

Where the code does not do what its text says:

- mutate.go:240-242, "an explicit recovery path for concatenated board
  snapshots": the repeated headings are dropped first, which leaves the second
  copy's tasks under the last section; of identical copies the later is kept, by
  then under another section, and the repair is refused
  (`tlc -config MCBoard_doubled.cfg MCBoard` violates `ConcatenationRepaired`).
- README.md:292, "A failed move leaves both files unchanged": once the journal is
  in place a move is only rolled forward; one that reports an error may have
  changed one document and is completed by the next command (`ReplayFails`).
- archive_verify.go:43-45: archive entries whose commit is not on main are
  excluded from the completed set only in the process of the poll loop, which
  looks (loop.go:102); `Assign` in a command's process passes the empty set.
- README.md:271 shows a backlog task with "Owner: (unassigned)";
  `ValidateLifecycle` accepts only "Unassigned" (lifecycle.go:27), and one such
  task makes every write to the document fail, by any command.
- `board resume` reads the task, then the controller's snapshot, then takes the
  lock and writes (cmd/slopboss/board.go:59): the lease it cites may have been
  followed by another one by then.

### Merge train

| Run | Instance | Shows |
|---|---|---|
| `train` | 2 roles (symmetric), 2 tasks, one of them with a verification command, 1 edit for each, 2 attempts, 1 failed command or crash | nothing written is lost; what is marked Done is on the base branch; what is pushed was verified; a commit holds the work of one task |
| `landed` | 1 role, 1 task, 2 edits, 1 push by someone else, 1 failed command, 1 crash, a window of 3 commits, fair | landed work comes to count as done and stays so; a false claim in the archive is found; every landing ends |

The bounds: two roles and two tasks give the second session of the same task, the
switch of a workspace from one task to the other, and the base branch that moves
under a landing; the second edit of `landed` lands on top of the first, so a task
can land twice.  Two attempts are one failure and its retry (the code has three).
`ScanDepth` 3 stands for the 400 commits that are read (merge.go:16): in the
instance no task's commit leaves the window, so what happens to older commits is
not shown.

In both runs the agent leaves its own branch checked out and begins its commit
messages in some way that does not look like the task's ID, and
`OneTaskPerCommit` speaks of the time before a crash.  Without these
restrictions the code does not do what its text says:

- merge.go:19-20 and templates.go:231-233, "one final commit per task": the
  controller dies after the squash commit (git.go:354) and before the push
  (:365).  The commit stays on the workspace's base branch; the next task's new
  branch starts from it, since `pull --rebase` keeps it (:92-98), and is squashed
  as a whole, under the second task's name
  (`tlc -config MCMergeTrain_mixed.cfg MCMergeTrain` violates `NeverTwoTasks`).
- mergetrain.go:20, "ensures the subject starts with "TASK-ID: "": a message that
  begins with the ID in small letters is kept (:27-33), and `taskIDPrefixRe`
  (merge.go:24) knows capitals only, so the subject names no task
  (`tlc -config MCMergeTrain_named.cfg MCMergeTrain` violates `SubjectNamesTask`).
- DEV_AGENT.md has the agent squash and push by itself.  If it leaves the base
  branch checked out with changes uncommitted, the train commits them to that
  branch (mergetrain.go:80-92, git.go:293), then counts, verifies and squashes the
  task branch, and `reset --hard` drops them: with `LeavesHead = {"base"}`,
  `NothingLost` and `LandedBeforeDone` fail.
- The squash is made on the base as it is then (git.go:330), which may be newer
  than the one the branch was rebased onto and verified with
  (mergetrain.go:125-137).  `VerifiedBeforeLanding` therefore speaks of the task's
  own commits, not of their combination with the base.
- `push --force-with-lease` compares with the remote-tracking ref: of two
  workspaces with the same task the one that fetched last replaces the other's
  branch.  `NothingLost` holds because the other keeps its commits.

### Planner and pacing

| Run | Instance | Shows |
|---|---|---|
| `planner` | 1 lane and the Team Lead, 3 tasks, one for a person, 1 retry; four starts: an orphan blocker and a board change; a task at work and a restart; no idle audits and a board change; agent mode; fair | ready work gets its pass, ended sessions are followed up, agent mode sees every change, a board that nobody changes is left in peace, however the passes for it end |
| `pacing` | 1 lane with two assignments, the Team Lead with an unblock pass, 2 retries; four starts: two board changes; a usage limit and a change; a limit, a restart and an approval; both roles under a limit; fair | cancellations, retries, circuits and pauses keep their distances, also when a limit is met in the middle of a tick; what is wanted is started, what is not wanted is stopped |

The bounds: a start names how often the board changes and the controller
restarts, because the liveness properties are about what the system does by
itself after the last of them; what changes the board, and when, is free.  Two
retries with a threshold of two failures open a circuit, let a probe through and
open it again.

What the planner does not do:

- scheduler.go:223-225, the follow-up "gives the Team Lead one bounded pass to
  close the loop before more work is assigned".  `planTeamLeadAction` returns the
  follow-up for as long as an ended session is remembered (:307-311), also when
  its pass has completed or used up its retries; while the ended task stays in
  its lane, ready work with a free lane is never planned
  (`tlc -config MCPlanner_yields.cfg MCPlanner` violates `FollowUpYields`).
  `ReadyWorkReached` excepts that time.
- With idle audits disabled `planTeamLeadAction` returns before it uses the
  decomposition candidate (:331): ready work behind an orphan blocker waits for
  ever.  `ReadyWorkReached` excepts that setting.
- The finished map is filled from the snapshot after the plan is made, so the
  first tick of a restarted controller may plan grooming before the follow-up.
- The key of a follow-up does not contain the attempt (:575-577): a second
  failure of the same task is not followed up when the first was.
- The board's hash is taken after an audit (session.go:192-196): an edit that
  someone else made meanwhile counts as audited.
- An audit that fails is not remembered as an audit of its board (session.go:192) and
  comes back with the next interval under another key (scheduler.go:732-744), with
  retries of its own and without end.  `QuietBoard` excepts failed audits; every
  other pass, also one that keeps failing or changing nothing, must run out.
- A task that goes back to the lane it came from has its old fingerprint
  (board.go:52-60), and is completed or failed as before.
- In agent mode each coordination key is an assignment of its own, and
  `commitRecoveryLease` deletes the approval of the lease it replaces
  (scheduler.go:74): an approval of one coordination may be used up by another.

What pacing does not do:

- docs/investigations/DOG-06.md:40-42, the scheduler "independently checks the
  global pause immediately before launching".  The check (scheduler.go:541) comes
  before the lease is committed (:557) and read back (:561), and nothing looks at
  the pause again before the start (:566).  The session of another role may meet
  the limit in between (session.go:300): it waits for `controllerMu` only
  afterwards, to report.  So one role may start within the cooldown
  (`tlc -config MCPacing_window.cfg MCPacing` violates `PauseHolds`).
  `LimitRespected` excepts the role that was past its check when the limit was met,
  that one alone and once; the next role of the same tick is held back.
- `shouldResumeAfterUsageLimitLocked` never applies: a usage-limited lease may
  always be launched, so it is never put into `finished`.
- A circuit belongs to a role and a task key: a task that is edited or moved to
  another lane starts with a new one.  Circuits and the usage pause are in memory
  only: a restarted controller starts at once.
- A session that is cancelled while it lands is reported as the landing ends,
  failed or completed (session.go:102), and counts as an attempt.

### Fairness

`FairSpec` assumes weak fairness of the tick's steps (the poll goroutine runs
for ever) and of a session's own steps (a provider has a turn limit, git and
verification have timeouts).  `Report` and `RecordProcess` are strongly fair:
they wait for `controllerMu`, which is free for a whole poll interval between
ticks and which Go hands to a waiter that has starved.  `Launch` is strongly
fair: every pacing delay is finite (retry delay, capped circuit cooldown, usage
pause), so a role that is launchable in every tick is launched in one of them.
Crashes, shutdowns and operators are not obliged to happen.

`LiveSpec` of `Board` assumes weak fairness of each process: a command that has
started goes on, and a process that is idle gives another command.  The poll loop does
the latter, it reads the board under the lock every few seconds
(board.go:33-38).  Which command comes next is free, and writes need not succeed
beyond the bound on faults.

`FairSpec` of `MergeTrain` and `FairViewSpec` assume weak fairness of an agent's
end (turn limit) and of the landing's steps (git and the verification command,
which has ten minutes, answer), and strong fairness of `Enter`: Go hands a mutex
to a waiter that has starved.  The poll loop's `Refresh` is weakly fair.  Agents
need not work, commit or push.

`FairSpec` of `Planner` assumes that the poll loop goes on (each of its two
steps, whatever it decides), that sessions end, with any outcome, and that delays
pass.  `FairSpec` of `Pacing` assumes that the poll loop goes on (some
step of a tick, or the next one), that time passes, and
that a session that was cancelled or refused by its provider ends; any other
session may run for ever.  Operators, changes and restarts are not obliged to
happen.

## 4. Proofs

`ControllerProofs` proves, for any set of roles, assignments and operators, any
boards, retry budget and bounds:

- `LeaseInvariant`: `Spec => []LeaseInv`;
- `TypeCorrect`, `OneWorker`, `LeaseOutlivesWorker`, `ReportFindsLease`: the
  type invariant and the three lease properties that `lane` and `ops` check;
- `Discipline`: `Spec => LeaseDiscipline`, every step of the controller is a step
  of `RoleLease` or leaves its variables alone.

`ControllerHistoryProofs` and `ControllerBudgetProofs` prove, for the same:

- `HistoryInvariant`: `Spec => []HistoryInv`;
- `CommitsAccepted`: the scheduler's writes pass the validator
  (`OwnCommitsAccepted`);
- `HeldRolesKept`: nothing is launched over a held or unreviewed role
  (`NoLaunchOverHeldRole`);
- `CountsRetained`, `CompletedKept`: the action properties `AttemptCountRetained`
  and `CompletedNotRerun`;
- `BudgetInvariant`: `Spec => []BudgetInv`, and `RetriesBounded`:
  `Spec => []AttemptBudget`, with failed writes, of which the run `budget` has none.

Assumptions: `StateAssumption` and `ControllerAssumption` (every assignment
belongs to a role, a board asks a role for its own assignments).  TLC evaluates
both on every run.

The argument.  `WorkerHoldsLease` is not inductive: four writers commit whole
snapshots, and only the validator stands between an old copy and the file.
`LeaseInv` says why none of them frees a live role.

- A *tick* starts from the file and knows every unresolved lease; a refused
  grant only adds unresolved leases to its copy.  The exception is a role's
  first lease whose commit failed after the rename: the copy lost it, but the
  tick is done with that role (`CopyKnowsHeld`).  So a tick never relaunches a
  held role, and a later role's commit cannot remove its lease: the validator
  refuses a snapshot in which a lease has disappeared.
- An *operator's* copy may show the live attempt's predecessor as ended.  If
  the attempt number differs, or the assignment does, the validator refuses it;
  if they agree the attempt was resumed after a cancellation or a usage limit,
  and the copy's heartbeat is older than the launch (`SnapshotIsOlder`,
  `BeatsArePast`), which the validator refuses too.
- *Recovery* and *direct approval* need `controller.lock`, and then no session
  exists (`DownHasNoSession`).
- A *session* writes only its own lease (`SessionsMatch`).

`HistoryInv` adds two things.  First, each snapshot is coherent by itself, be it
the file, the tick's copy or the one an operator holds (`Coherent`): a role's
lease is one of its assignments, History has terminal leases by their ID, every
approval has a rationale, and a completed result that was started over was
overridden.  The writers keep that one at a time (`GrantCoherent`,
`ResultCoherent`, `ProcessCoherent`, `ApprovalsCoherent`).  Second, how far the
tick's copy may be from the file: equal for every role that the tick has still to
look at (`CopySame`), and for the others a snapshot that could be committed and
counts no fewer attempts (`CopyAhead`), except for a first lease that the copy has
lost.  That exception is the one in `OwnCommitsAccepted`.

`BudgetInv` is an account.  `Spare` is what approvals and failed writes have paid
in, less what commands that have not finished still hold; an assignment's attempt
plus the uses its approval still has (`Uses`: in the file, in the queue, in the
batch a tick has read) never exceeds the budget and `Spare` (`Fits`).  An approval
is in several of those places at once and counts once, until the tick is past the
commit of its batch; an approval that is still queued then, because that commit
failed, counts again, and the failed write pays for it.  An attempt above the budget
uses up an approval (`FitsGrant`); a command pays for what it adds to an old
snapshot, however old that is (`ApproveBudget`), and for each request that its stale
copy of the request file brings back (`SpareEnds`).

Proving these corrected three properties.  `AttemptBudget` did not count failed
writes, `AttemptCountRetained` did not except the operator's old snapshot, and
`CompletedNotRerun` did not except an approval given while the assignment ran; TLC
confirmed a counterexample of each earlier form on an instance larger than those of
the runs (section 3 names the places in the code).

`BoardProofs` proves, for any tasks, workers, processes, commands, boards, edits
and bounds:

- `BoardInvHolds`: `Spec => []BoardInv`;
- `DecidesOnWholeBoardHolds`: no command decides while a journal is waiting;
- `EditsKeptHolds`: while an edit contradicts the journal, only people change
  documents;
- `RefinesAtomicHolds`: `Spec => RefinesAtomic`, every step of `Board` is a step of
  `BoardAtomic` under the mapping that reads a waiting journal as already done,
  or leaves it alone.

Assumptions: `ProcsAssumption`, `BoardsAssumption`, `CommandsAssumption`.

The argument.  A journal is written only by a process that holds the lock and
found none waiting (`LockInv`, `DecidesOnWholeBoard`); what it planned is still
what the command would decide on the files, because nobody writes without the
lock except people, and they wait for it (`PlanInv`); and a process that
replays has inspected every document and writes only what the journal says
(`RecoveryInv`).  So the mapped board changes when the journal appears, all
documents at once, and not while the journal is replayed, dropped at its end,
or picked up by another process.  Leaving the unnamed documents alone
(`DecisionFramed`) is what makes that one change the command's decision.

`BoardLanesProofs` proves, for the same and with one worker, task or process as
well as many:

- `LanesInvHolds`: `Spec => []LanesInv`;
- `OneTaskPerLaneHolds`, `DependenciesFirstHolds` and `DoneReadIsFinalHolds`: the
  three properties of the run `lanes`.

Assumptions: those above, `RolesAssumption`, `NoneAssumption`, and three that each
theorem states and the run `lanes` meets.  `MaxEdits = 0`: a person may put two tasks
in a lane or delete an archived one.  The boards to start from are sound
(`SoundBoard`): a repair that starts from a broken board keeps most of what is
broken.  `OrderlyCommands`: see section 3.  Failures and crashes are not bounded.

The argument.  By refinement the board that the commands see (`Whole`) changes only
by a command's decision, so it is enough that a decision on a sound board makes a
sound board and keeps what is archived (`DecisionSound`, one lemma per command).  A
sound board has valid documents, and work in progress has a worker of its own and
dependencies in the archive.  The lemmas behind it say what the edits of a
document do to its lines: which records it has after an insertion, a removal or a
replacement (`InsertedTask`, `RemovedAt`, `Amended`, `Kept`), that a heading ends up
above the task inserted under it, and that records in other sections keep theirs
(`SectionKept`).  Assign may add work because it found the lane empty and the
dependencies archived on the same board; reconciling and normalizing remove only.
The files lag behind `Whole` while a journal is replayed; `PromiseInv` says that the
journal's new archive has all of the old one's tasks, so `DoneReadIsFinal` holds of the
files too.

`BoardRecordsProofs` proves, for the same, from any boards, with any edits between
commands:

- `RecordsInvHolds`: `Spec => []RecordsInv`;
- `NoTaskVanishesHolds`, `AsksKeptHolds` and `NoNewDuplicatesHolds`: the three
  properties of the run `moves` that speak of records and questions.

Assumptions: those above without the last three; instead each theorem states that
what a person makes of a document is again a sequence of lines (`Edits(f, b) \subseteq
Document`), whatever those lines are: valid or not, with tasks deleted or pasted.

The argument.  Whatever the board, a command's decision keeps its records and its
open questions (`Keeping`) and leaves no task more often than it was, unless it
occurs once (`Sparing`); there is one lemma per command for each.  A move puts
the task into its destination's document; a repair keeps one copy, the one in the
named section or the best and last (`BestRecord`); create appends where no document
has the id.  That is enough for the board as the commands see it, which changes only
by decisions: `NoNewDuplicates` follows by refinement, with the copies counted
document by document (`Count`, `CopiesCounted`), one line more or less at a time
(`CountShifted`).  The other two speak of the files while a journal is half written,
so `RecordsInv` adds what the journal promises (`KeepsRecords`): a task that leaves a
document stays in another, or comes into one that is written earlier.  The replay
writes in that order, so when it takes the task out of a document the other has it
(`ReplayKeeps`), with one exception.

The exception was found by the proof: `NoTaskVanishes` was stated without it and is
then false.  `reconcile-duplicate` of a task with copies in two documents journals
only the documents it changes.  If it is interrupted and a person then deletes the
copy that was to be kept, no document that the journal names has been edited, and the
next command finishes the repair and removes the last copy (transaction.go:98).  TLC
shows it with two edits (the first pastes the copy); the run has one.  The property
now excepts a task that a person has taken out of a document the waiting journal does
not name.

`LeaseInv`, `BoardInv`, `LanesInv`, `RecordsInv` and `DecidesOnWholeBoard` were checked by
TLC on the instances of `ops`, `moves` and `lanes` before they were proved (`RecordsInv`
also with two edits, on fewer commands), `HistoryInv` and
`BudgetInv` on those of `lane`, `ops`, `budget` and `stale` and on one with two
operators, a crash and a failed write; so were the type
invariants of `Board`, `MergeTrain`, `MergedView` (`ViewTypeOK`), `Planner` and
`Pacing` on the instances of their runs.  The runs leave them out.

Only model-checked for the board: `MovesComplete`, a liveness property.

Only model-checked for the controller: every liveness property (outside the
prover's reach).  Every safety and action property that its runs check is proved.

`MergeTrainProofs` proves, for any roles, tasks, edits and subjects and any number
of failures and crashes:

- `TypeCorrect`: types.  `TypeInv` says more than `TypeOK`: a branch starts on
  commits that the base has (`GoodTip`), and a session works in the branch of its
  task until the squash (`InBranch`);
- `NothingIsLost`: `Spec => []NothingLost`;
- `PromisesLand`: `Spec => []LandedBeforeDone`;
- `VerificationPrecedes`: `Spec => []VerifiedBeforeLanding`;
- `CommitsAreApart`: `Spec => []OneTaskPerCommit`.

Assumptions: those that the modules state (every edit has a task, tasks are no
names of other branches) and, for the last four, `OnBranch`: an agent that lands
by itself goes back to its task branch.  Without it `NothingLost` and
`LandedBeforeDone` do not hold (section 3).  Nothing is assumed of the bounds on
failures and crashes but that they are numbers.

The argument.  `Landings` follows the work from the files to the base branch.
What has been made is on the base, on a checkpoint, or *held*: in some
workspace's files or local task branches.  A squash commit and a remote branch do
not count, since a reset or a forced push may drop them, so `Kept` is stronger
than `NothingLost`; it is inductive because every git command leaves a branch
with what it had or with what the base has (`Holds`, one lemma per command).
`Promise` says where the promised edits are in each state of a landing: in the
files or the branch before the first commit, in the branch or on the base
until the squash, in the squash or on the base at the push.  `Verified` says that
the branch, and then the squash, was checked out when the verification passed;
nothing is added in between because the files are clean (`Clean`).  `ApartInv`
separates the tasks until the first crash: local and remote branches hold work
of their task or of the base, the files belong to the branch checked out, and
the base branch has commits of its own only between squash and push.  The crash
there is what breaks it, and what `MCMergeTrain_mixed.cfg` shows (section 3).

`PacingProofs` proves, for any roles, keys, boards and delays:

- `PacingInvariant`: `Spec => []PacingInv`;
- `LimitsRespected`, `CancelsAfterGrace`, `RetriesAreSpaced`: `LimitRespected`,
  `CancelledAfterGrace` and `RetriesSpaced` hold of `Spec`.

Assumption: `PacingAssumption`; roles have no key in common, since `LeaseID`
hashes the role (controller_state.go).

The argument.  `LimitRespected` compares a pause that the controller counts down
with the age of the last limit: together they cover the cooldown
(`PauseCovers`), also when a second limit is met during the pause.  The check and the
start are two steps: `Clearance` says that the role in between still fulfils its checks,
but for a pause that began since, and then it is the one that was spared.  A mark is
never older than the row of mismatches it stands for, and a session's end takes
its mark along (`MarkDated`).  A failure may stand in the role's lease or, once
the role has worked on something else, in the history: `LeasesTell` says that
they agree, so the delay is the same whichever the tick considers.

`PacingInv`, `TypeInv` with `Landings`, and `ApartInv` were checked by TLC on the
instances of `pacing` and `train` before they were proved.

Only model-checked there: `FailuresBackOff`, whose backoff is a power of two (the
provers know no law of powers, and one cannot be proved by induction here), and
the liveness properties.  Everything about `MergedView` and the planner is only
model-checked: their properties are all liveness.

## 5. Plan

Done: the controller's leases, the board's commands and journal, the merge train
with the completed set, the planner, pacing, and the proofs of section 4, which
cover every safety and action property of the controller, the board and the merge
train, and of pacing all but `FailuresBackOff`.  Next: safety of what the planner
plans and of the completed set, whose properties are all liveness so far, with
the invariants that those need.

Not modelled, and why:

- the board's file cache (cache.go): it trusts modification time and size, so an
  edit that keeps both is not seen; that is a question of the file system's clock;
- the wall clock that goes back: the heartbeat regresses and the validator refuses
  the worker's result (controller_state.go:191);
- the dashboard: `ui.Refresh` may block the poll goroutine after the dashboard has
  stopped (loop.go:112), which its library decides;
- parsing and formatting of Markdown, prompts, provider streams, logs and the
  event log; configuration, command line, setup and doctor: text and I/O, without
  steps of several actors; the limits they set are constants here;
- the experiment runner and interactive grooming: sequential programs of their
  own that share no state with the controller.
