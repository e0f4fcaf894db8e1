----------------------------- MODULE BoardState -----------------------------
(***************************************************************************)
(* The Markdown board and what each board command would make of it.        *)
(*                                                                         *)
(* A board is three documents: BACKLOG.md, TASKS.md and ARCHIVE.md.  A     *)
(* document is a sequence of lines: its top heading, section headings,     *)
(* task blocks and human-input bullets.  A task's section is the heading   *)
(* above it, so moving or dropping a heading moves tasks.  A block keeps   *)
(* the metadata the commands test and a body; the rest of its text, and    *)
(* the ways to spell a status or a heading, are left out.                  *)
(*                                                                         *)
(* Everything here is a function of the board: Board.tla adds the lock,    *)
(* the files, the journal and the failures.                                *)
(***************************************************************************)
EXTENDS Naturals, SequencesExt

CONSTANTS
    TaskIds,
    Roles,          \* the configured workers; a lane's section is its role
    Branches,
    Leases,         \* terminal leases a continuation may name
    Bodies,
    CompleteBodies, \* the bodies that have every required section
    None

Files == {"backlog", "tasks", "archive"}
Sections == {"Backlog", "Blocked Tasks", "Done", "Awaiting Human Input"} \cup Roles
Owners == {"Unassigned"} \cup Roles
Statuses == {"Backlog", "In Progress", "Blocked", "Done"}

\* The section of a worker is named "Dev Agent" and its number (config.go).
ASSUME RolesAssumption == "Blocked Tasks" \notin Roles
ASSUME NoneAssumption == None \notin Files \cup Sections \cup Owners \cup Statuses

-----------------------------------------------------------------------------
(* Documents. *)

Top == [kind |-> "top"]
Heading(section) == [kind |-> "section", name |-> section]
Ask(id) == [kind |-> "ask", id |-> id]

Task == [kind : {"task"}, id : TaskIds, owner : Owners, branch : Branches,
         status : Statuses, category : {"AFK", "HITL"}, deps : SUBSET TaskIds,
         after : Leases \cup {None}, body : Bodies]

Line == {Top} \cup {Heading(s) : s \in Sections} \cup {Ask(i) : i \in TaskIds} \cup Task

Document == Seq(Line)

OfKind(doc, kind) == {i \in DOMAIN doc : doc[i].kind = kind}
Blocks(doc) == OfKind(doc, "task")
IdsIn(doc) == {doc[i].id : i \in Blocks(doc)}

SectionAt(doc, i) ==
    LET above == {h \in OfKind(doc, "section") : h < i}
    IN  IF above = {} THEN "" ELSE doc[Max(above)].name

\* The lines at the given positions, in order.
Keep(doc, positions) ==
    LET nth(n) == CHOOSE i \in positions : Cardinality({k \in positions : k <= i}) = n
    IN  [n \in 1 .. Cardinality(positions) |-> doc[nth(n)]]

Drop(doc, positions) == Keep(doc, DOMAIN doc \ positions)

Amend(doc, i, t) == [doc EXCEPT ![i] = t]

\* A task goes directly below the heading of its section, which is added at
\* the end of a document that has none.
InsertTask(doc, t, section) ==
    LET headings == {h \in OfKind(doc, "section") : doc[h].name = section}
    IN  IF headings = {} THEN doc \o <<Heading(section), t>>
        ELSE InsertAt(doc, Min(headings) + 1, t)

-----------------------------------------------------------------------------
(* What makes a document one the commands will write. *)

\* The location, the owner and the status of a task agree.
ValidLifecycle(t, section, f) ==
    \/ f = "backlog" /\ section = "Backlog" /\ t.status = "Backlog" /\ t.owner = "Unassigned"
    \/ f = "tasks" /\ section = "Blocked Tasks" /\ t.status = "Blocked" /\ t.owner = "Unassigned"
    \/ f = "archive" /\ t.status = "Done"
    \/ f = "tasks" /\ section \in Roles /\ t.status = "In Progress" /\ t.owner = section

ValidDocument(doc, f) ==
    /\ Cardinality(OfKind(doc, "top")) = 1
    /\ \A h, k \in OfKind(doc, "section") : doc[h].name = doc[k].name => h = k
    /\ \A i, k \in Blocks(doc) : doc[i].id = doc[k].id => i = k
    /\ \A i \in Blocks(doc) :
          SectionAt(doc, i) # "" /\ ValidLifecycle(doc[i], SectionAt(doc, i), f)

-----------------------------------------------------------------------------
(* Questions about a board. *)

\* Where a task's records are; a section narrows the search, None does not.
Matches(docs, id, section) ==
    {m \in UNION {{[file |-> f, at |-> i] : i \in Blocks(docs[f])} : f \in Files} :
        /\ docs[m.file][m.at].id = id
        /\ section # None => SectionAt(docs[m.file], m.at) = section}

\* findTaskSource succeeds on exactly one record.
Located(docs, id, section) == Cardinality(Matches(docs, id, section)) = 1
Source(docs, id, section) == CHOOSE m \in Matches(docs, id, section) : TRUE

ActiveInLane(docs, role) ==
    {i \in Blocks(docs["tasks"]) :
        /\ SectionAt(docs["tasks"], i) = role
        /\ docs["tasks"][i].owner = role
        /\ docs["tasks"][i].status = "In Progress"}

\* The ids that count as done: the archive's, less those whose claimed commit
\* was found missing from main, and those found merged.  The run loop alone
\* looks; a command's process starts with both sets empty.
CompletedSetOfLanes(docs, issues, merged) == IdsIn(docs["archive"]) \cup IdsIn(docs["tasks"])
CompletedSet(docs, issues, merged) == (IdsIn(docs["archive"]) \ issues) \cup merged

DependenciesSatisfied(t, done) == t.deps \subseteq done

DependenciesExist(docs, t) ==
    \A d \in t.deps : d # t.id /\ Located(docs, d, None)

-----------------------------------------------------------------------------
(* What a command decides: the files it would change and what they become, *)
(* whether the change goes through the journal, and in which order.        *)

PathOrder == [f \in Files |-> CASE f = "backlog" -> 1 [] f = "tasks" -> 2 [] f = "archive" -> 3]
FirstTheOthers(f) == [g \in Files |-> IF g = f THEN 1 ELSE 0]
First(f) == [g \in Files |-> IF g = f THEN 0 ELSE 1]

Verdict(ok, files, docs, journaled, order) ==
    [ok |-> ok, files |-> files, after |-> [f \in Files |-> docs[f]],
     journaled |-> journaled, order |-> order]

Refuse(docs) == Verdict(FALSE, {}, docs, FALSE, PathOrder)
Answer(docs) == Verdict(TRUE, {}, docs, FALSE, PathOrder)

Rewrite(docs, f, doc) ==
    IF ValidDocument(doc, f) THEN Verdict(TRUE, {f}, [docs EXCEPT ![f] = doc], FALSE, PathOrder)
    ELSE Refuse(docs)

\* A change of several files goes through the journal.
Rewrites(docs, files, new, order) ==
    IF \A f \in files : ValidDocument(new[f], f)
    THEN Verdict(TRUE, files, [f \in Files |-> IF f \in files THEN new[f] ELSE docs[f]], TRUE, order)
    ELSE Refuse(docs)

-----------------------------------------------------------------------------
(* The commands. *)

CreateUnlooked(docs, id, category, branch, deps, body) ==
    LET t == [kind |-> "task", id |-> id, owner |-> "Unassigned", branch |-> branch,
              status |-> "Backlog", category |-> category, deps |-> deps,
              after |-> None, body |-> body]
    IN  IF /\ body \in CompleteBodies
           /\ DependenciesExist(docs, t)
           /\ \E h \in OfKind(docs["backlog"], "section") : docs["backlog"][h].name = "Backlog"
        THEN Rewrite(docs, "backlog", Append(docs["backlog"], t))
        ELSE Refuse(docs)

CreateBacklogTask(docs, id, category, branch, deps, body) ==
    LET t == [kind |-> "task", id |-> id, owner |-> "Unassigned", branch |-> branch,
              status |-> "Backlog", category |-> category, deps |-> deps,
              after |-> None, body |-> body]
    IN  IF /\ Matches(docs, id, None) = {}
           /\ body \in CompleteBodies
           /\ DependenciesExist(docs, t)
           /\ \E h \in OfKind(docs["backlog"], "section") : docs["backlog"][h].name = "Backlog"
        THEN Rewrite(docs, "backlog", Append(docs["backlog"], t))
        ELSE Refuse(docs)

\* An update names the fields it changes; the others are None.
NoUpdate == [owner |-> None, branch |-> None, status |-> None, category |-> None,
             deps |-> None, file |-> None, section |-> None, source |-> None]

ApplyMetadata(t, u) ==
    [t EXCEPT !.owner = IF u.owner = None THEN @ ELSE u.owner,
              !.branch = IF u.branch = None THEN @ ELSE u.branch,
              !.status = IF u.status = None THEN @ ELSE u.status,
              !.category = IF u.category = None THEN @ ELSE u.category,
              !.deps = IF u.deps = None THEN @ ELSE u.deps]

\* Moving takes a file and a section; a task that stays keeps its place.
Set(docs, id, u) ==
    LET source == Source(docs, id, u.source)
        from == source.file
        to == IF u.file = None THEN from ELSE u.file
        t == ApplyMetadata(docs[from][source.at], u)
        rest == RemoveAt(docs[from], source.at)
    IN  IF (u.file = None) # (u.section = None) \/ ~Located(docs, id, u.source) THEN Refuse(docs)
        ELSE IF u.section = None THEN Rewrite(docs, from, Amend(docs[from], source.at, t))
        ELSE IF ~ValidLifecycle(t, u.section, to) THEN Refuse(docs)
        ELSE IF from = to THEN Rewrite(docs, from, InsertTask(rest, t, u.section))
        ELSE Rewrites(docs, {from, to},
                [f \in Files |-> IF f = to THEN InsertTask(docs[to], t, u.section) ELSE rest],
                First(to))

AssignToBusyLane(docs, id, role) ==
    LET t == docs[Source(docs, id, None).file][Source(docs, id, None).at]
    IN  IF /\ Located(docs, id, None)
           /\ t.status \in {"Backlog", "Blocked"}
           /\ DependenciesSatisfied(t, CompletedSet(docs, {}, {}))
        THEN Set(docs, id, [NoUpdate EXCEPT !.file = "tasks", !.section = role,
                                            !.owner = role, !.status = "In Progress"])
        ELSE Refuse(docs)

\* What assigning to a worker writes, under the lock the checks were made under.
Assign(docs, id, role) ==
    LET source == Source(docs, id, None)
        t == docs[source.file][source.at]
        section == SectionAt(docs[source.file], source.at)
        active == ActiveInLane(docs, role)
        repeated == /\ \E i \in active : active = {i} /\ docs["tasks"][i].id = id
                    /\ t.owner = role
                    /\ t.status = "In Progress"
        available == \/ section = "Backlog" /\ t.status = "Backlog"
                     \/ section = "Blocked Tasks" /\ t.status = "Blocked"
    IN  IF role \notin Roles \/ ~Located(docs, id, None) THEN Refuse(docs)
        ELSE IF active # {} THEN IF repeated THEN Answer(docs) ELSE Refuse(docs)
        ELSE IF /\ t.category # "HITL"
                /\ available
                /\ DependenciesSatisfied(t, CompletedSet(docs, {}, {}))
             THEN Set(docs, id, [NoUpdate EXCEPT !.file = "tasks", !.section = role,
                                                 !.owner = role, !.status = "In Progress"])
        ELSE Refuse(docs)

\* The worker and the branch are the ones an earlier look at the board saw.
RequestContinuation(docs, id, role, branch, lease) ==
    LET source == Source(docs, id, None)
        t == docs[source.file][source.at]
    IN  IF /\ Located(docs, id, None)
           /\ source.file = "tasks" /\ t.status = "In Progress"
           /\ t.owner = role /\ t.branch = branch
        THEN Rewrite(docs, "tasks", Amend(docs["tasks"], source.at, [t EXCEPT !.after = lease]))
        ELSE Refuse(docs)

\* Removes the identical copies of a record, but for the one in the section.
ReconcileDuplicate(docs, id, section) ==
    LET matches == Matches(docs, id, None)
        keepers == Matches(docs, id, section)
        redundant == matches \ keepers
    IN  IF /\ redundant # {} /\ Cardinality(keepers) = 1
           /\ \A m, n \in matches : docs[m.file][m.at] = docs[n.file][n.at]
        THEN Rewrites(docs, {m.file : m \in redundant},
                [f \in Files |-> Drop(docs[f], {m.at : m \in {n \in redundant : n.file = f}})],
                PathOrder)
        ELSE Refuse(docs)

\* Of the copies of a record the best is kept, and of the best the last.
Rank(t) == (IF t.owner = "Unassigned" THEN 0 ELSE 1) + (IF t.status = "In Progress" THEN 2 ELSE 0)

Outranked(doc, i) ==
    \E k \in Blocks(doc) :
        /\ doc[k].id = doc[i].id
        /\ Rank(doc[k]) > Rank(doc[i]) \/ (Rank(doc[k]) = Rank(doc[i]) /\ k > i)

\* The headings that repeat go first, which leaves the tasks below them to the
\* section above.
DropRepeatedHeadings(doc) ==
    Keep(doc, {i \in DOMAIN doc :
        doc[i].kind \in {"top", "section"} => \A k \in 1 .. (i - 1) : doc[k] # doc[i]})

NormalizeTasks(docs) ==
    LET doc == DropRepeatedHeadings(docs["tasks"])
    IN  IF \A i, k \in Blocks(doc) : doc[i].id = doc[k].id => doc[i].body = doc[k].body
        THEN Rewrite(docs, "tasks", Drop(doc, {i \in Blocks(doc) : Outranked(doc, i)}))
        ELSE Refuse(docs)

ClearAnyHumanInput(docs, id) ==
    Rewrite(docs, "backlog", Drop(docs["backlog"],
        {i \in OfKind(docs["backlog"], "ask") : docs["backlog"][i].id = id}))

\* A bullet asks a human about a task that is done.
ClearCompletedHumanInput(docs, id) ==
    LET source == Source(docs, id, None)
        backlog == docs["backlog"]
        asks == {i \in OfKind(backlog, "ask") :
                    backlog[i].id = id /\ SectionAt(backlog, i) = "Awaiting Human Input"}
    IN  IF \/ ~Located(docs, id, None) \/ source.file # "archive"
           \/ docs["archive"][source.at].status # "Done" \/ Cardinality(asks) > 1
        THEN Refuse(docs)
        ELSE IF asks = {} THEN Answer(docs)
        ELSE Rewrite(docs, "backlog", Drop(backlog, asks))

Get(docs, id) == IF Located(docs, id, None) THEN Answer(docs) ELSE Refuse(docs)

Operations == {"read", "get", "create", "set", "assign", "continue", "reconcile", "normalize", "clear"}

Decide(c, docs) ==
    CASE c.op = "read" -> Answer(docs)
      [] c.op = "get" -> Get(docs, c.id)
      [] c.op = "create" -> CreateBacklogTask(docs, c.id, c.category, c.branch, c.deps, c.body)
      [] c.op = "set" -> Set(docs, c.id, c.update)
      [] c.op = "assign" -> Assign(docs, c.id, c.role)
      [] c.op = "continue" -> RequestContinuation(docs, c.id, c.role, c.branch, c.lease)
      [] c.op = "reconcile" -> ReconcileDuplicate(docs, c.id, c.section)
      [] c.op = "normalize" -> NormalizeTasks(docs)
      [] c.op = "clear" -> ClearCompletedHumanInput(docs, c.id)

=============================================================================
