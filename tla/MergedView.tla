----------------------------- MODULE MergedView -----------------------------
(***************************************************************************)
(* What counts as completed: the poll loop reads the base branch and the   *)
(* archive, each at its own time, while agents, the merge train and other  *)
(* people write both.                                                      *)
(***************************************************************************)
EXTENDS MergeTrain

CONSTANTS
    ScanDepth,      \* mergeScanDepth
    MaxOthers       \* bound: commits that other people push

ASSUME ScanDepthAssumption == ScanDepth \in Nat /\ MaxOthers \in Nat

VARIABLES
    claim,      \* the commit that a task's archive entry says holds its work
    origin,     \* origin/<base> in the Team Lead's workspace
    issues,     \* the archive entries found wrong in the last poll
    others      \* how often other people have pushed

view == <<claim, origin, issues, others>>
viewVars == <<vars, view>>

\* Every squash commit adds an edit.
MaxBase == MaxOthers + Cardinality(Edits)

NoClaim == 0
FalseClaim == MaxBase + 1

ViewTypeOK ==
    /\ TypeOK /\ Len(base) <= MaxBase
    /\ claim \in [Tasks -> 0 .. FalseClaim]
    /\ origin \in 0 .. Len(base)
    /\ issues \subseteq Tasks
    /\ others \in 0 .. MaxOthers

ViewInit ==
    /\ Init
    /\ claim = [t \in Tasks |-> NoClaim]
    /\ origin = 0
    /\ issues = {} /\ others = 0

\* Tasks that the first n commits of the base branch name.
Named(n) == NamedIn(base, n, ScanDepth)

-----------------------------------------------------------------------------

\* An agent archives its task and notes a commit: the one that names the task,
\* or one that never reached the base branch.
AgentArchives(r, n) ==
    LET t == TaskOf(r)
    IN  /\ At(r, "work") /\ t \notin archived
        /\ n # FalseClaim => n \in 1 .. Len(base) /\ base[n].names = t
        /\ archived' = archived \cup {t}
        /\ claim' = [claim EXCEPT ![t] = n]
        /\ UNCHANGED <<git, session, train, made, bounds, origin, issues, others>>

\* Other people and the Team Lead push to the base branch.
OthersPush ==
    /\ others < MaxOthers
    /\ others' = others + 1
    /\ base' = Append(base, [names |-> None, work |-> {}])
    /\ UNCHANGED <<remote, wip, ws, session, train, archived, made, bounds, claim, origin, issues>>

\* RefreshMainBranch; when the fetch fails the poll goes on with the old ref.
\* Then the subjects of that ref and the claims of the archive are read.
Refresh ==
    /\ \/ origin' = Len(base) /\ UNCHANGED faults
       \/ UNCHANGED origin /\ Fault
    /\ issues' = {t \in archived : claim[t] > origin'}
    /\ UNCHANGED <<git, session, train, archived, made, crashes, claim, others>>

\* Mutants: only the archive counts; every entry of the archive does.
CompletedInArchive == archived \ issues
CompletedUnchecked == archived \cup Named(origin)

\* CompletedSet, whenever it is asked for: it reads the archive as it is now.
Completed == (archived \ issues) \cup Named(origin)

ViewNext ==
    \/ Next /\ UNCHANGED view
    \/ \E r \in Roles, n \in 1 .. FalseClaim : AgentArchives(r, n)
    \/ OthersPush
    \/ Refresh

ViewSpec == ViewInit /\ [][ViewNext]_viewVars

\* The poll loop runs for ever; sessions as in FairSpec.
FairViewSpec ==
    /\ ViewSpec
    /\ \A r \in Roles :
          /\ WF_viewVars(Ends(r) /\ UNCHANGED view)
          /\ SF_viewVars(Enter(r) /\ UNCHANGED view)
          /\ WF_viewVars(Land(r) /\ UNCHANGED view)
    /\ WF_viewVars(Refresh)

-----------------------------------------------------------------------------
(* Properties.                                                             *)

OnBase(t) == t \in NamedIn(base, Len(base), MaxBase)

\* A task whose commit is on the base branch comes to count as completed and
\* stays so, whether or not the archive says so.
LandedIsSeen == \A t \in Tasks : OnBase(t) ~> [](t \in Completed)

\* A Done entry whose commit is not on the base branch stops counting, unless
\* the task lands after all.
FalseClaimFound ==
    \A t \in Tasks : claim[t] = FalseClaim ~> ([](t \notin Completed) \/ OnBase(t))
=============================================================================
