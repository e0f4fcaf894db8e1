------------------------------- MODULE MCBoard -------------------------------
(***************************************************************************)
(* Small boards, the commands given on them and the edits people make, for *)
(* TLC to check.  Tasks are "a" to "c", workers "one" and "two".           *)
(***************************************************************************)
EXTENDS BoardInvariant

CONSTANTS p1, p2

-----------------------------------------------------------------------------
(* Records and documents. *)

Backlog(id, deps) ==
    [kind |-> "task", id |-> id, owner |-> "Unassigned", branch |-> "none",
     status |-> "Backlog", category |-> "AFK", deps |-> deps, after |-> None,
     body |-> "full"]
Working(id, role) == [Backlog(id, {}) EXCEPT !.owner = role, !.status = "In Progress"]
Waiting(id, deps) == [Backlog(id, deps) EXCEPT !.status = "Blocked"]

Lanes(first, second) == <<Top, Heading("one")>> \o first \o <<Heading("two")>> \o second
OneLane(tasks) == <<Top, Heading("one")>> \o tasks \o <<Heading("Blocked Tasks")>>

OfDocuments(backlog, tasks, archive) ==
    [f \in Files |-> CASE f = "backlog" -> <<Top, Heading("Backlog")>> \o backlog
                       [] f = "tasks" -> tasks
                       [] f = "archive" -> <<Top, Heading("Done")>> \o archive]

-----------------------------------------------------------------------------
(* Commands. *)

Read == [op |-> "read"]
Look(id) == [op |-> "get", id |-> id]
AssignTo(id, role) == [op |-> "assign", id |-> id, role |-> role]
Update(id, u) == [op |-> "set", id |-> id, update |-> u]
Move(id, f, section, owner, status) ==
    Update(id, [NoUpdate EXCEPT !.file = f, !.section = section, !.owner = owner, !.status = status])
Finish(id) == Move(id, "archive", "Done", None, "Done")
Block(id) == Move(id, "tasks", "Blocked Tasks", "Unassigned", "Blocked")
BlockFrom(id, role) == [Block(id) EXCEPT !.update.source = role]
Return(id) == Move(id, "backlog", "Backlog", "Unassigned", "Backlog")
Create(id, category, deps, body) ==
    [op |-> "create", id |-> id, category |-> category, branch |-> "none", deps |-> deps, body |-> body]
Continue(id, role, branch) ==
    [op |-> "continue", id |-> id, role |-> role, branch |-> branch, lease |-> "lease"]
Reconcile(id, section) == [op |-> "reconcile", id |-> id, section |-> section]
Normalize == [op |-> "normalize"]
Clear(id) == [op |-> "clear", id |-> id]

-----------------------------------------------------------------------------
(* moves: one task in the backlog, one in a lane, and questions to a human  *)
(* about both.  Tasks are moved to and fro, created, continued and mended,  *)
(* while a person deletes a record, pastes one from another document, or    *)
(* saves a document twice over.                                             *)

MovesBoards ==
    {[OfDocuments(<<>>, OneLane(<<Working("b", "one")>>), <<>>) EXCEPT !["backlog"] =
        <<Top, Heading("Awaiting Human Input"), Ask("a"), Ask("b"),
          Heading("Backlog"), Backlog("a", {})>>]}
MovesCommands ==
    {Read, Finish("b"), Block("b"), AssignTo("a", "one"), Return("a"),
     Reconcile("b", "one"), Normalize, Clear("b"), Continue("b", "one", "topic"),
     Update("b", [NoUpdate EXCEPT !.source = "one", !.branch = "topic"]),
     Create("b", "HITL", {"a"}, "full")}

Records(docs) ==
    {docs[m.file][m.at] : m \in UNION {Matches(docs, id, None) : id \in TaskIds}}
DropOrPaste(f, docs) ==
    {RemoveAt(docs[f], i) : i \in Blocks(docs[f])}
        \cup {Append(docs[f], t) : t \in Records(docs)}
AnyEdit(f, docs) == DropOrPaste(f, docs) \cup {docs[f] \o docs[f]}

-----------------------------------------------------------------------------
(* live: a task of a lane is finished while the poll loop reads.            *)

LiveBoards == {OfDocuments(<<Backlog("a", {})>>, OneLane(<<Working("b", "one")>>), <<>>)}
LiveCommands == {Read, Look("a"), Finish("b")}

-----------------------------------------------------------------------------
(* lanes: the lanes are filled by assign alone, and nothing leaves the     *)
(* archive.                                                                *)

LanesBoards ==
    {OfDocuments(<<Backlog("a", {}), Backlog("b", {"a"})>>,
        Lanes(<<>>, <<>>) \o <<Heading("Blocked Tasks"), Waiting("c", {"a"})>>, <<>>)}
LanesCommands ==
    {AssignTo(id, role) : id \in TaskIds, role \in Roles}
        \cup {Finish("a"), Finish("b"), BlockFrom("a", "one"), BlockFrom("b", "two")}
        \cup {[Return("c") EXCEPT !.update.source = s] : s \in {"Blocked Tasks"} \cup Roles}

NoEdits(f, docs) == {}

-----------------------------------------------------------------------------
(* doubled: a document that was saved twice over.                          *)

DoubledBoards ==
    {OfDocuments(<<>>, Lanes(<<Working("a", "one")>>, second)
                       \o Lanes(<<Working("a", "one")>>, second), <<>>) :
        second \in {<<>>, <<Working("b", "two")>>}}
DoubledCommands == {Normalize}

Symmetric == Permutations(Procs)
=============================================================================
