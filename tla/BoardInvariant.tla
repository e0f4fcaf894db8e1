--------------------------- MODULE BoardInvariant ---------------------------
(***************************************************************************)
(* The inductive invariant of the board's lock and journal.                *)
(***************************************************************************)
EXTENDS BoardProperties

ShapeInv ==
    /\ files = [f \in Files |-> files[f]]
    /\ pc \in [Procs -> States]
    /\ command = [p \in Procs |-> command[p]]
    /\ verdict = [p \in Procs |-> verdict[p]]
    /\ todo = [p \in Procs |-> todo[p]]

\* One process at a time is past the lock.
LockInv == \A p \in Procs : pc[p] = "idle" <=> lock # p

\* A process that has decided still has before it the board it decided on.
PlanInv ==
    \A p \in Procs :
        /\ pc[p] # "idle" => command[p] \in Commands
        /\ pc[p] \in {"write", "stage"} =>
              verdict[p] = Decide(command[p], files) /\ verdict[p].files # {}
        /\ pc[p] = "stage" => verdict[p].journaled

\* A process that recovers has found the documents in order, and those it no
\* longer has to write are written.
RecoveryInv ==
    \A p \in Procs :
        /\ pc[p] \in {"commit", "redo", "apply"} => journal # Absent /\ ~Torn
        /\ pc[p] \in {"redo", "apply"} =>
              /\ todo[p] \subseteq journal.files
              /\ \A f \in journal.files : f \in todo[p] \/ files[f] = journal.after[f]

BoardInv == ShapeInv /\ LockInv /\ DecidesOnWholeBoard /\ PlanInv /\ RecoveryInv

-----------------------------------------------------------------------------
(* The boards that assign fills and nobody edits.                          *)

TasksIn(doc) == {doc[i] : i \in Blocks(doc)}
Headings(doc) == {doc[h].name : h \in OfKind(doc, "section")}

InProgress(doc) == {t \in TasksIn(doc) : t.status = "In Progress"}

\* What is asked of a document when the tasks with ids in done are archived.
SoundDocument(doc, f, done) ==
    /\ doc \in Document
    /\ f = "tasks" =>
          /\ \A s, t \in InProgress(doc) : s.owner = t.owner => s.id = t.id
          /\ \A t \in InProgress(doc) : t.deps \subseteq done
    /\ f = "archive" => Headings(doc) \subseteq {"Done"} /\ done \subseteq IdsIn(doc)

SoundBoard(docs) ==
    /\ docs = [f \in Files |-> docs[f]]
    /\ \A f \in Files :
          ValidDocument(docs[f], f) /\ SoundDocument(docs[f], f, IdsIn(docs["archive"]))

\* The commands leave the lanes to assign, look for a task to move in a section
\* that is not the archive's, and do not change what a task depends on.
OrderlyCommands ==
    \A c \in Commands :
        c.op = "set" =>
            /\ c.update.section \notin Roles
            /\ c.update.deps = None
            /\ IF c.update.file = "archive" THEN c.update.section \in {None, "Done"}
               ELSE c.update.file # None => c.update.source \notin {None, "Done"}

\* What an unfinished move will do to the archive.
PromiseInv ==
    journal # Absent => IdsIn(journal.before["archive"]) \subseteq IdsIn(journal.after["archive"])

LanesInv == edits = 0 /\ SoundBoard(Whole) /\ PromiseInv

-----------------------------------------------------------------------------
(* What an unfinished move does to the records, whatever people edit.      *)

AsksIn(doc) == {doc[i] : i \in OfKind(doc, "ask")}

\* A task is taken out of a document if it is in another, before and after, or
\* in one that is written earlier; no question to a human is taken out.
KeepsRecords(t) ==
    /\ t.before \in [Files -> Document] /\ t.after \in [Files -> Document]
    /\ t.order \in [Files -> Nat]
    /\ \A f \in Files \ t.files : t.after[f] = t.before[f]
    /\ \A f \in t.files : \A id \in IdsIn(t.before[f]) \ IdsIn(t.after[f]) :
          \E g \in Files :
              /\ id \in IdsIn(t.after[g])
              /\ id \in IdsIn(t.before[g]) \/ (g \in t.files /\ t.order[g] < t.order[f])
    /\ AsksIn(t.before["backlog"]) \subseteq AsksIn(t.after["backlog"])

RecordsInv ==
    /\ files \in [Files -> Document]
    /\ journal # Absent => KeepsRecords(journal)

=============================================================================
