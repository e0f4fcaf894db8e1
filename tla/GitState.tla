------------------------------- MODULE GitState -------------------------------
(***************************************************************************)
(* What the git commands of PrepareBranch and the merge train do to a      *)
(* workspace, a clone of the product repository.                           *)
(*                                                                         *)
(* A history is a set of edits.  A tip is a branch that starts "on" the    *)
(* first commits of the remote base branch and adds edits of its "own";    *)
(* "subject" is how the message of its last commit begins.                 *)
(***************************************************************************)
EXTENDS Naturals, Sequences

CONSTANTS
    Tasks,
    Edits,          \* what agents may change
    AuthorOf,       \* the task an edit is made for
    Subjects,       \* how agents begin commit messages: with the task's ID in
                    \* small letters, or in "other" ways
    None

ASSUME AuthorAssumption == AuthorOf \in [Edits -> Tasks]
ASSUME SubjectsAssumption == Subjects \subseteq {"other", "lower"}

Tip == [on : Nat, own : SUBSET Edits, subject : {"other", "lower"}]

ASSUME NoneIsNoTask == None \notin Tasks \cup Tip
ASSUME TasksAreNoBranches == {"base", "wip"} \cap Tasks = {}

\* HEAD is on a task's branch, the base branch, or a checkpoint branch.
Heads == Tasks \cup {"base", "wip"}

Workspace == [head : Heads,
              dirty : SUBSET Edits,                 \* changes not committed
              unpushed : SUBSET Edits,              \* own commits of refs/heads/<base>
              local : [Tasks -> Tip \cup {None}]]   \* refs/heads/<branch>

Commit == [names : Tasks \cup {None}, work : SUBSET Edits]

\* The edits in the first n commits of a base branch.
Content(base, n) == UNION {base[i].work : i \in 1 .. n}

-----------------------------------------------------------------------------

\* Edits committed on the branch that is checked out, and on no base commit.
OnHead(w) == IF w.head \in Tasks THEN w.local[w.head].own
             ELSE IF w.head = "base" THEN w.unpushed ELSE {}

\* Mutant: what is not committed stays out of the checkpoint.
CheckpointOfCommits(w) == IF w.dirty = {} THEN {} ELSE OnHead(w)

\* what checkpointDirtyWorkspace puts on a branch of its own
Checkpoint(w) == IF w.dirty = {} THEN {} ELSE w.dirty \cup OnHead(w)

Checkpointed(w) == IF w.dirty = {} THEN w ELSE [w EXCEPT !.dirty = {}, !.head = "wip"]

\* pull --rebase of a task branch: what the remote tip does not reach is
\* replayed onto it, commits of the base branch among it.
Pulled(base, tip, remote) ==
    LET reached == Content(base, tip.on) \cup tip.own
    IN  [on |-> remote.on,
         own |-> remote.own \cup (reached \ Content(base, remote.on)),
         subject |-> IF tip.own \subseteq remote.own THEN remote.subject ELSE tip.subject]

\* The branch of a task is checked out: the local one, brought up to date; the
\* remote one; or a new one from the base branch, as it stands after a pull.
CheckedOut(base, w, t, remote) ==
    LET left == w.unpushed \ Content(base, Len(base))
        new == [on |-> Len(base), own |-> left, subject |-> "other"]
    IN  CASE w.local[t] # None /\ remote # None ->
                [w EXCEPT !.head = t, !.local[t] = Pulled(base, @, remote)]
          [] w.local[t] # None /\ remote = None -> [w EXCEPT !.head = t]
          [] w.local[t] = None /\ remote # None -> [w EXCEPT !.head = t, !.local[t] = remote]
          [] OTHER -> [w EXCEPT !.head = t, !.unpushed = left, !.local[t] = new]

\* add -A, commit: onto whatever branch is checked out
Committed(w, subject) ==
    IF w.head = "base"
    THEN [w EXCEPT !.unpushed = @ \cup w.dirty, !.dirty = {}]
    ELSE [w EXCEPT !.local[w.head].own = @ \cup w.dirty,
                   !.local[w.head].subject = subject, !.dirty = {}]

\* rebase of whatever branch is checked out: what the base has is dropped
Rebased(base, w, n) ==
    IF w.head = "base" THEN [w EXCEPT !.unpushed = @ \ Content(base, n)]
    ELSE [w EXCEPT !.local[w.head].on = n, !.local[w.head].own = @ \ Content(base, n)]

\* Replaying own edits onto other commits may conflict.
MayConflict(tip, n) == tip.own # {} /\ tip.on # n

\* Mutant: checkout <base>, and no reset.
CheckedOutBase(w) == [w EXCEPT !.head = "base", !.dirty = {}]

\* checkout <base>, reset --hard origin/<base>
ResetToOrigin(w) == [w EXCEPT !.head = "base", !.dirty = {}, !.unpushed = {}]

-----------------------------------------------------------------------------
(* How a commit names its task.                                            *)

\* FormatCommitMessage leaves a message that begins with the ID, in whatever
\* case, and gives the ID to any other; mergedIDFromSubject knows capitals only.
NamedBy(t, subject) == IF subject = "lower" THEN None ELSE t

\* The tasks named by the last "depth" of the first n commits of the base.
NamedIn(base, n, depth) ==
    {base[i].names : i \in {j \in 1 .. n : j + depth > n}} \ {None}
=============================================================================
