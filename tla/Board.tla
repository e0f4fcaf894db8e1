-------------------------------- MODULE Board --------------------------------
(***************************************************************************)
(* Board commands over the files: the lock, the journal of a change to     *)
(* several documents, and its recovery by whichever command comes next.    *)
(*                                                                         *)
(* A process runs one command at a time: the run loop's poll, its merge    *)
(* train, or a "slopboss board" process.  It may die at any point, which   *)
(* gives up the lock.  A write may fail before it reaches the disk's       *)
(* directory, or after, when syncing the directory fails.  People edit the *)
(* documents only while no command runs, as the README tells them to.      *)
(***************************************************************************)
EXTENDS BoardState

CONSTANTS
    Procs,
    Commands,           \* the commands people and agents give
    Boards,             \* the boards to start from
    Edits(_, _),        \* what a person may make of a document
    MaxEdits,           \* bound: edits by hand
    MaxFaults,          \* bound: writes that return an error
    MaxCrashes          \* bound: processes that die

Updates == [owner : {None} \cup Owners, branch : {None} \cup Branches,
            status : {None} \cup Statuses, category : {None, "AFK", "HITL"},
            deps : {None} \cup SUBSET TaskIds, file : {None} \cup Files,
            section : {None} \cup Sections, source : {None} \cup Sections]

CommandTypes ==
    [op : {"read", "normalize"}]
        \cup [op : {"get", "clear"}, id : TaskIds]
        \cup [op : {"create"}, id : TaskIds, category : {"AFK", "HITL"}, branch : Branches,
              deps : SUBSET TaskIds, body : Bodies]
        \cup [op : {"set"}, id : TaskIds, update : Updates]
        \cup [op : {"assign"}, id : TaskIds, role : Roles]
        \cup [op : {"continue"}, id : TaskIds, role : Roles, branch : Branches, lease : Leases]
        \cup [op : {"reconcile"}, id : TaskIds, section : Sections]

ASSUME ProcsAssumption == None \notin Procs
ASSUME BoardsAssumption == Boards \subseteq [Files -> Document]
ASSUME CommandsAssumption == \A c \in Commands : c \in CommandTypes

VARIABLES
    files,      \* the three documents on disk
    journal,    \* board-transaction.json, or Absent
    lock,       \* the process that holds board.lock, or None
    pc,         \* what each process does next
    command,    \* the command it runs
    verdict,    \* what it decided
    todo,       \* the documents its recovery has yet to write
    answer,     \* how its last command ended
    edits, faults, crashes

vars == <<files, journal, lock, pc, command, verdict, todo, answer, edits, faults, crashes>>
bounds == <<edits, faults, crashes>>

States == {"idle", "locked", "redo", "run", "write", "stage", "commit", "apply"}

Transaction == [files : SUBSET Files, before : [Files -> Document],
                after : [Files -> Document], order : [Files -> Nat]]

Verdicts == [ok : BOOLEAN, files : SUBSET Files, after : [Files -> Document],
             journaled : BOOLEAN, order : [Files -> Nat]]

Absent == [files |-> {}, before |-> <<>>, after |-> <<>>, order |-> <<>>]

TypeOK ==
    /\ files \in [Files -> Document]
    /\ journal \in Transaction \cup {Absent}
    /\ lock \in Procs \cup {None}
    /\ pc \in [Procs -> States]
    /\ command \in [Procs -> Commands \cup {None}]
    /\ verdict \in [Procs -> Verdicts \cup {None}]
    /\ todo \in [Procs -> SUBSET Files]
    /\ answer \in [Procs -> {None, "ok", "error"}]
    /\ edits \in 0 .. MaxEdits /\ faults \in 0 .. MaxFaults /\ crashes \in 0 .. MaxCrashes

Init ==
    /\ files \in Boards
    /\ journal = Absent
    /\ lock = None
    /\ pc = [p \in Procs |-> "idle"]
    /\ command = [p \in Procs |-> None]
    /\ verdict = [p \in Procs |-> None]
    /\ todo = [p \in Procs |-> {}]
    /\ answer = [p \in Procs |-> None]
    /\ edits = 0 /\ faults = 0 /\ crashes = 0

-----------------------------------------------------------------------------
(* The unfinished transaction, and the board it will make.                 *)

Matched(f) == files[f] \in {journal.before[f], journal.after[f]}

Torn == \E f \in journal.files : ~Matched(f)

Whole ==
    IF Torn THEN files
    ELSE [f \in Files |-> IF f \in journal.files THEN journal.after[f] ELSE files[f]]

-----------------------------------------------------------------------------
(* How a command ends.                                                     *)

Goto(p, state) == pc' = [pc EXCEPT ![p] = state]

\* The process gives up the lock and forgets what it was doing.
Leave(p, result) ==
    /\ lock' = None
    /\ Goto(p, "idle")
    /\ command' = [command EXCEPT ![p] = None]
    /\ verdict' = [verdict EXCEPT ![p] = None]
    /\ todo' = [todo EXCEPT ![p] = {}]
    /\ answer' = [answer EXCEPT ![p] = result]

Fail(p) ==
    /\ faults < MaxFaults
    /\ faults' = faults + 1
    /\ Leave(p, "error")
    /\ UNCHANGED <<edits, crashes>>

-----------------------------------------------------------------------------
(* Taking the lock, and recovering what an earlier command left.           *)

Lock(p, c) ==
    /\ pc[p] = "idle" /\ lock = None
    /\ lock' = p
    /\ Goto(p, "locked")
    /\ command' = [command EXCEPT ![p] = c]
    /\ answer' = [answer EXCEPT ![p] = None]
    /\ UNCHANGED <<files, journal, verdict, todo, bounds>>

InspectWithoutComparing(p) ==
    /\ pc[p] \in {"locked", "commit"}
    /\ journal # Absent
    /\ Goto(p, IF pc[p] = "locked" THEN "redo" ELSE "apply")
    /\ todo' = [todo EXCEPT ![p] = journal.files]
    /\ UNCHANGED <<lock, command, verdict, answer, files, journal, bounds>>

InspectOnlyOwn(p) ==
    /\ pc[p] \in {"locked", "commit"}
    /\ journal # Absent
    /\ IF Torn \/ pc[p] = "locked" THEN Leave(p, "error")
       ELSE /\ Goto(p, "apply")
            /\ todo' = [todo EXCEPT ![p] = journal.files]
            /\ UNCHANGED <<lock, command, verdict, answer>>
    /\ UNCHANGED <<files, journal, bounds>>

\* recoverBoardTransaction, called by lockBoard and by commitBoardChanges,
\* looks at every document before it writes one.
Inspect(p) ==
    /\ pc[p] \in {"locked", "commit"}
    /\ journal # Absent
    /\ IF Torn THEN Leave(p, "error")
       ELSE /\ Goto(p, IF pc[p] = "locked" THEN "redo" ELSE "apply")
            /\ todo' = [todo EXCEPT ![p] = journal.files]
            /\ UNCHANGED <<lock, command, verdict, answer>>
    /\ UNCHANGED <<files, journal, bounds>>

NothingToRecover(p) ==
    /\ pc[p] = "locked"
    /\ journal = Absent
    /\ Goto(p, "run")
    /\ UNCHANGED <<files, journal, lock, command, verdict, todo, answer, bounds>>

Recovering(p) == pc[p] \in {"redo", "apply"}

NextToWrite(p, f) ==
    f \in todo[p] /\ \A g \in todo[p] : journal.order[f] <= journal.order[g]

RollBack(p, f) ==
    /\ Recovering(p) /\ NextToWrite(p, f)
    /\ files' = [files EXCEPT ![f] = IF pc[p] = "redo" THEN journal.before[f] ELSE journal.after[f]]
    /\ todo' = [todo EXCEPT ![p] = @ \ {f}]
    /\ UNCHANGED <<journal, lock, pc, command, verdict, answer, bounds>>

Replay(p, f) ==
    /\ Recovering(p) /\ NextToWrite(p, f)
    /\ files' = [files EXCEPT ![f] = journal.after[f]]
    /\ todo' = [todo EXCEPT ![p] = @ \ {f}]
    /\ UNCHANGED <<journal, lock, pc, command, verdict, answer, bounds>>

ReplayFails(p, f) ==
    /\ Recovering(p) /\ NextToWrite(p, f)
    /\ files' \in {files, [files EXCEPT ![f] = journal.after[f]]}
    /\ Fail(p)
    /\ UNCHANGED journal

RemoveJournalEarly(p) ==
    /\ Recovering(p) /\ todo[p] # journal.files
    /\ journal' = Absent
    /\ IF pc[p] = "redo"
       THEN Goto(p, "run") /\ UNCHANGED <<lock, command, verdict, todo, answer>>
       ELSE Leave(p, "ok")
    /\ UNCHANGED <<files, bounds>>

RemoveJournal(p) ==
    /\ Recovering(p) /\ todo[p] = {}
    /\ journal' = Absent
    /\ IF pc[p] = "redo"
       THEN Goto(p, "run") /\ UNCHANGED <<lock, command, verdict, todo, answer>>
       ELSE Leave(p, "ok")
    /\ UNCHANGED <<files, bounds>>

RemoveJournalFails(p) ==
    /\ Recovering(p) /\ todo[p] = {}
    /\ journal' \in {journal, Absent}
    /\ Fail(p)
    /\ UNCHANGED files

-----------------------------------------------------------------------------
(* The command itself.                                                     *)

\* Under the lock the documents are read and the command decides.
Run(p) ==
    /\ pc[p] = "run"
    /\ LET v == Decide(command[p], files)
       IN  IF v.files = {} THEN Leave(p, IF v.ok THEN "ok" ELSE "error")
           ELSE /\ Goto(p, IF v.journaled THEN "stage" ELSE "write")
                /\ verdict' = [verdict EXCEPT ![p] = v]
                /\ UNCHANGED <<lock, command, todo, answer>>
    /\ UNCHANGED <<files, journal, bounds>>

\* A single document is replaced without a journal.
Write(p) ==
    /\ pc[p] = "write"
    /\ files' = verdict[p].after
    /\ Leave(p, "ok")
    /\ UNCHANGED <<journal, bounds>>

WriteFails(p) ==
    /\ pc[p] = "write"
    /\ files' \in {files, verdict[p].after}
    /\ Fail(p)
    /\ UNCHANGED journal

Intent(p) == [files |-> verdict[p].files, before |-> files,
              after |-> verdict[p].after, order |-> verdict[p].order]

\* The journal holds both snapshots of every document to be changed.
Stage(p) ==
    /\ pc[p] = "stage"
    /\ journal' = Intent(p)
    /\ Goto(p, "commit")
    /\ UNCHANGED <<files, lock, command, verdict, todo, answer, bounds>>

StageFails(p) ==
    /\ pc[p] = "stage"
    /\ journal' \in {journal, Intent(p)}
    /\ Fail(p)
    /\ UNCHANGED files

-----------------------------------------------------------------------------
(* What happens to a process and to the documents from outside.            *)

Crash(p) ==
    /\ pc[p] # "idle" /\ crashes < MaxCrashes
    /\ crashes' = crashes + 1
    /\ Leave(p, None)
    /\ UNCHANGED <<files, journal, edits, faults>>

EditByHand(f) ==
    /\ lock = None /\ edits < MaxEdits
    /\ edits' = edits + 1
    /\ \E doc \in Edits(f, files) : files' = [files EXCEPT ![f] = doc]
    /\ UNCHANGED <<journal, lock, pc, command, verdict, todo, answer, faults, crashes>>

-----------------------------------------------------------------------------

\* What a process does when no write fails.
Step(p) ==
    \/ \E c \in Commands : Lock(p, c)
    \/ Inspect(p) \/ NothingToRecover(p)
    \/ \E f \in Files : Replay(p, f)
    \/ RemoveJournal(p) \/ Run(p) \/ Write(p) \/ Stage(p)

Fault(p) ==
    \/ \E f \in Files : ReplayFails(p, f)
    \/ RemoveJournalFails(p) \/ WriteFails(p) \/ StageFails(p)

ByHand == \E f \in Files : EditByHand(f)

Next ==
    \/ \E p \in Procs : Step(p) \/ Fault(p) \/ Crash(p)
    \/ ByHand

Spec == Init /\ [][Next]_vars

\* A process that has started goes on, and commands keep coming: the poll
\* loop reads the board every few seconds.
Fairness == \A p \in Procs : WF_vars(Step(p))

LiveSpec == Spec /\ Fairness

=============================================================================
