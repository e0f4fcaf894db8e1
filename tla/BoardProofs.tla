----------------------------- MODULE BoardProofs -----------------------------
(***************************************************************************)
(* What holds of the board commands for any tasks, workers, processes,     *)
(* commands and bounds.                                                    *)
(***************************************************************************)
EXTENDS BoardInvariant, TLAPS

-----------------------------------------------------------------------------
(* A decision is about the documents it names, and leaves the others.      *)

IsBoard(docs) == docs = [f \in Files |-> docs[f]]

Framed(v, docs) ==
    /\ IsBoard(v.after)
    /\ \A f \in Files \ v.files : v.after[f] = docs[f]

\* The four ways to end a command leave the documents they do not name.
LEMMA ConstructorsFramed ==
    ASSUME NEW docs, IsBoard(docs)
    PROVE  /\ Framed(Refuse(docs), docs)
           /\ Framed(Answer(docs), docs)
           /\ \A f, doc : Framed(Rewrite(docs, f, doc), docs)
           /\ \A files_, new, order : Framed(Rewrites(docs, files_, new, order), docs)
<1>1. Framed(Refuse(docs), docs) /\ Framed(Answer(docs), docs)
  BY DEF Framed, IsBoard, Refuse, Answer, Verdict
<1>2. ASSUME NEW f, NEW doc PROVE Framed(Rewrite(docs, f, doc), docs)
  BY <1>1 DEF Framed, IsBoard, Rewrite, Verdict
<1>3. ASSUME NEW files_, NEW new, NEW order
      PROVE  Framed(Rewrites(docs, files_, new, order), docs)
  BY <1>1 DEF Framed, IsBoard, Rewrites, Verdict
<1>4. QED
  BY <1>1, <1>2, <1>3

LEMMA SetFramed ==
    ASSUME NEW docs, IsBoard(docs), NEW id, NEW u
    PROVE  Framed(Set(docs, id, u), docs)
BY ConstructorsFramed DEF Set

LEMMA AssignFramed ==
    ASSUME NEW docs, IsBoard(docs), NEW id, NEW role
    PROVE  Framed(Assign(docs, id, role), docs)
BY ConstructorsFramed, SetFramed DEF Assign

\* Whatever a command decides, it leaves the documents it does not name.
LEMMA DecisionFramed ==
    ASSUME NEW docs, IsBoard(docs), NEW c \in Commands
    PROVE  Framed(Decide(c, docs), docs)
<1>1. Framed(Get(docs, c.id), docs)
  BY ConstructorsFramed DEF Get
<1>2. Framed(CreateBacklogTask(docs, c.id, c.category, c.branch, c.deps, c.body), docs)
  BY ConstructorsFramed DEF CreateBacklogTask
<1>3. Framed(RequestContinuation(docs, c.id, c.role, c.branch, c.lease), docs)
  BY ConstructorsFramed DEF RequestContinuation
<1>4. Framed(ReconcileDuplicate(docs, c.id, c.section), docs)
  BY ConstructorsFramed DEF ReconcileDuplicate
<1>5. Framed(NormalizeTasks(docs), docs)
  BY ConstructorsFramed DEF NormalizeTasks
<1>6. Framed(ClearCompletedHumanInput(docs, c.id), docs)
  BY ConstructorsFramed DEF ClearCompletedHumanInput
<1>7. QED
  BY <1>1, <1>2, <1>3, <1>4, <1>5, <1>6, ConstructorsFramed, SetFramed, AssignFramed,
     CommandsAssumption DEF CommandTypes, Decide, Operations

-----------------------------------------------------------------------------
(* The lock and the journal: BoardInv is inductive.                        *)

LEMMA BoardInvInit == Init => BoardInv
<1> SUFFICES ASSUME Init PROVE BoardInv
  OBVIOUS
<1>1. files = [f \in Files |-> files[f]]
  BY BoardsAssumption DEF Init
<1>2. QED
  BY <1>1, ProcsAssumption
     DEF Init, BoardInv, ShapeInv, LockInv, DecidesOnWholeBoard, PlanInv, RecoveryInv, States

\* While a process is past the lock every other one is idle.
LEMMA OthersIdle ==
    ASSUME LockInv, NEW p \in Procs, pc[p] # "idle"
    PROVE  lock = p /\ \A q \in Procs \ {p} : pc[q] = "idle"
BY DEF LockInv

\* Whatever a process wrote last, when it leaves nobody is past the lock.
LEMMA LeaveInv ==
    ASSUME BoardInv, NEW p \in Procs, pc[p] # "idle", NEW result, Leave(p, result),
           IsBoard(files')
    PROVE  BoardInv'
<1>1. \A q \in Procs : pc'[q] = "idle"
  BY OthersIdle DEF BoardInv, ShapeInv, Leave, Goto
<1>2. ShapeInv'
  BY DEF BoardInv, ShapeInv, Leave, Goto, IsBoard, States
<1>3. LockInv'
  BY <1>1, ProcsAssumption DEF LockInv, Leave
<1>4. QED
  BY <1>1, <1>2, <1>3 DEF BoardInv, DecidesOnWholeBoard, PlanInv, RecoveryInv

\* A process past the lock goes on to another state: what its state says of
\* the board is all there is to show.
LEMMA GotoInv ==
    ASSUME BoardInv, NEW p \in Procs, pc[p] # "idle", NEW state \in States \ {"idle"},
           Goto(p, state), lock' = lock, IsBoard(files'), command' = command,
           verdict' = [q \in Procs |-> verdict'[q]],
           todo' = [q \in Procs |-> todo'[q]],
           state \in {"run", "write", "stage"} => journal' = Absent,
           state \in {"write", "stage"} =>
              verdict'[p] = Decide(command[p], files') /\ verdict'[p].files # {},
           state = "stage" => verdict'[p].journaled,
           state \in {"commit", "redo", "apply"} => journal' # Absent /\ ~Torn',
           state \in {"redo", "apply"} =>
              /\ todo'[p] \subseteq journal'.files
              /\ \A f \in journal'.files : f \in todo'[p] \/ files'[f] = journal'.after[f]
    PROVE  BoardInv'
<1>1. pc'[p] = state /\ \A q \in Procs \ {p} : pc'[q] = "idle"
  BY OthersIdle DEF BoardInv, ShapeInv, Goto
<1>2. ShapeInv'
  BY DEF BoardInv, ShapeInv, Goto, IsBoard
<1>3. LockInv'
  BY <1>1, OthersIdle DEF BoardInv, LockInv
<1>4. DecidesOnWholeBoard'
  BY <1>1 DEF DecidesOnWholeBoard
<1>5. PlanInv'
  BY <1>1 DEF PlanInv, BoardInv
<1>6. RecoveryInv'
  BY <1>1 DEF RecoveryInv
<1>7. QED
  BY <1>2, <1>3, <1>4, <1>5, <1>6 DEF BoardInv

LEMMA UnfinishedKept ==
    ASSUME BoardInv, UNCHANGED <<files, journal, pc, lock, command, verdict, todo>>
    PROVE  BoardInv'
BY DEF BoardInv, ShapeInv, LockInv, DecidesOnWholeBoard, PlanInv, RecoveryInv, Torn, Matched

LEMMA LockStep ==
    ASSUME BoardInv, NEW p \in Procs, NEW c \in Commands, Lock(p, c)
    PROVE  BoardInv'
<1>1. \A q \in Procs : pc[q] = "idle"
  BY ProcsAssumption DEF Lock, BoardInv, LockInv
<1>2. pc'[p] = "locked" /\ \A q \in Procs \ {p} : pc'[q] = "idle"
  BY <1>1 DEF Lock, Goto, BoardInv, ShapeInv
<1>3. ShapeInv'
  BY DEF Lock, Goto, BoardInv, ShapeInv, States
<1>4. LockInv'
  BY <1>2 DEF Lock, LockInv
<1>5. PlanInv'
  BY <1>2 DEF PlanInv, Lock, BoardInv, ShapeInv
<1>6. QED
  BY <1>2, <1>3, <1>4, <1>5 DEF BoardInv, DecidesOnWholeBoard, RecoveryInv

LEMMA InspectStep ==
    ASSUME BoardInv, NEW p \in Procs, Inspect(p)
    PROVE  BoardInv'
<1>1. IsBoard(files') /\ pc[p] # "idle"
  BY DEF Inspect, BoardInv, ShapeInv, IsBoard
<1>2. CASE Torn
  BY <1>1, <1>2, LeaveInv DEF Inspect
<1>3. CASE ~Torn
  <2> DEFINE state == IF pc[p] = "locked" THEN "redo" ELSE "apply"
  <2>1. /\ Goto(p, state) /\ journal # Absent
        /\ todo' = [todo EXCEPT ![p] = journal.files]
        /\ UNCHANGED <<lock, command, verdict, files, journal>>
    BY <1>3 DEF Inspect
  <2>2. ~Torn'
    BY <1>3, <2>1 DEF Torn, Matched
  <2>3. /\ todo' = [q \in Procs |-> todo'[q]]
        /\ verdict' = [q \in Procs |-> verdict'[q]]
        /\ todo'[p] = journal.files
    BY <2>1 DEF BoardInv, ShapeInv
  <2>4. state \in {"redo", "apply"} /\ state \in States \ {"idle"}
    BY DEF States
  <2> HIDE DEF state
  <2>5. QED
    BY <1>1, <2>1, <2>2, <2>3, <2>4, GotoInv
<1>4. QED
  BY <1>2, <1>3

LEMMA NothingToRecoverStep ==
    ASSUME BoardInv, NEW p \in Procs, NothingToRecover(p)
    PROVE  BoardInv'
<1>1. /\ pc[p] # "idle" /\ Goto(p, "run") /\ journal' = Absent
      /\ UNCHANGED <<lock, command, verdict, todo, files>>
  BY DEF NothingToRecover
<1>2. /\ IsBoard(files') /\ verdict' = [q \in Procs |-> verdict'[q]]
      /\ todo' = [q \in Procs |-> todo'[q]]
  BY <1>1 DEF BoardInv, ShapeInv, IsBoard
<1>3. "run" \in States \ {"idle"}
  BY DEF States
<1>4. QED
  BY <1>1, <1>2, <1>3, GotoInv

\* Writing a document as the journal has it tears nothing.
LEMMA WrittenUntorn ==
    ASSUME IsBoard(files), ~Torn, NEW f \in Files,
           files' = [files EXCEPT ![f] = journal.after[f]], journal' = journal
    PROVE  /\ ~Torn'
           /\ IsBoard(files')
           /\ \A g \in Files : files'[g] = IF g = f THEN journal.after[f] ELSE files[g]
           /\ \A g \in journal.files : files[g] = journal.after[g] => files'[g] = journal.after[g]
<1>1. IsBoard(files') /\ \A g \in Files : files'[g] = IF g = f THEN journal.after[f] ELSE files[g]
  BY DEF IsBoard
<1>2. \A g : files'[g] = files[g] \/ (g = f /\ files'[g] = journal.after[g])
  BY DEF IsBoard
<1>3. ~Torn'
  BY <1>2 DEF Torn, Matched
<1>4. QED
  BY <1>1, <1>2, <1>3

LEMMA ReplayStep ==
    ASSUME BoardInv, NEW p \in Procs, NEW f \in Files, Replay(p, f)
    PROVE  BoardInv'
<1>1. /\ pc[p] \in {"redo", "apply"} /\ ~Torn /\ journal # Absent
      /\ UNCHANGED <<journal, lock, pc, command, verdict>>
      /\ files' = [files EXCEPT ![f] = journal.after[f]]
      /\ todo' = [todo EXCEPT ![p] = @ \ {f}]
  BY DEF Replay, Recovering, BoardInv, RecoveryInv
<1>2. IsBoard(files)
  BY DEF BoardInv, ShapeInv, IsBoard
<1>3. /\ ~Torn' /\ IsBoard(files')
      /\ \A g \in journal.files : files[g] = journal.after[g] => files'[g] = journal.after[g]
      /\ files'[f] = journal.after[f]
  BY <1>1, <1>2, WrittenUntorn
<1>4. Goto(p, pc[p]) /\ pc[p] \in States \ {"idle"}
  BY <1>1 DEF Goto, BoardInv, ShapeInv
<1>5. /\ todo' = [q \in Procs |-> todo'[q]] /\ verdict' = [q \in Procs |-> verdict'[q]]
      /\ todo'[p] = todo[p] \ {f}
  BY <1>1 DEF BoardInv, ShapeInv
<1>6. todo'[p] \subseteq journal'.files
  BY <1>1, <1>5 DEF BoardInv, RecoveryInv
<1>7. \A g \in journal'.files : g \in todo'[p] \/ files'[g] = journal'.after[g]
  <2> SUFFICES ASSUME NEW g \in journal.files PROVE g \in todo'[p] \/ files'[g] = journal.after[g]
    BY <1>1
  <2>1. g \in todo[p] \/ files[g] = journal.after[g]
    BY <1>1 DEF BoardInv, RecoveryInv
  <2>2. QED
    BY <2>1, <1>3, <1>5
<1>8. QED
  BY <1>1, <1>3, <1>4, <1>5, <1>6, <1>7, GotoInv

LEMMA ReplayFailsStep ==
    ASSUME BoardInv, NEW p \in Procs, NEW f \in Files, ReplayFails(p, f)
    PROVE  BoardInv'
<1>1. IsBoard(files')
  BY DEF ReplayFails, BoardInv, ShapeInv, IsBoard
<1>2. pc[p] # "idle" /\ Leave(p, "error")
  BY DEF ReplayFails, Recovering, Fail
<1>3. QED
  BY <1>1, <1>2, LeaveInv

LEMMA RemoveJournalStep ==
    ASSUME BoardInv, NEW p \in Procs, RemoveJournal(p)
    PROVE  BoardInv'
<1>1. pc[p] # "idle" /\ IsBoard(files') /\ journal' = Absent
  BY DEF RemoveJournal, Recovering, BoardInv, ShapeInv, IsBoard
<1>2. CASE pc[p] = "redo"
  <2>1. Goto(p, "run") /\ UNCHANGED <<files, lock, command, verdict, todo>>
    BY <1>2 DEF RemoveJournal
  <2>2. /\ verdict' = [q \in Procs |-> verdict'[q]] /\ todo' = [q \in Procs |-> todo'[q]]
        /\ "run" \in States \ {"idle"}
    BY <2>1 DEF BoardInv, ShapeInv, States
  <2>3. QED
    BY <1>1, <2>1, <2>2, GotoInv
<1>3. CASE pc[p] # "redo"
  BY <1>1, <1>3, LeaveInv DEF RemoveJournal
<1>4. QED
  BY <1>2, <1>3

LEMMA RunStep ==
    ASSUME BoardInv, NEW p \in Procs, Run(p)
    PROVE  BoardInv'
<1> DEFINE v == Decide(command[p], files)
           state == IF v.journaled THEN "stage" ELSE "write"
<1>1. /\ pc[p] = "run" /\ IsBoard(files') /\ journal = Absent
      /\ UNCHANGED <<files, journal>>
  BY DEF Run, BoardInv, ShapeInv, IsBoard, DecidesOnWholeBoard
<1>2. CASE v.files = {}
  <2>1. Leave(p, IF v.ok THEN "ok" ELSE "error")
    BY <1>2 DEF Run
  <2>2. QED
    BY <1>1, <2>1, LeaveInv
<1>3. CASE v.files # {}
  <2>1. /\ Goto(p, state) /\ verdict' = [verdict EXCEPT ![p] = v]
        /\ UNCHANGED <<lock, command, todo>>
    BY <1>3 DEF Run
  <2>2. /\ verdict' = [q \in Procs |-> verdict'[q]] /\ todo' = [q \in Procs |-> todo'[q]]
        /\ verdict'[p] = Decide(command[p], files') /\ verdict'[p].files # {}
    BY <1>1, <1>3, <2>1 DEF BoardInv, ShapeInv
  <2>3. state \in {"stage", "write"} /\ state \in States \ {"idle"}
    BY DEF States
  <2>4. state = "stage" => verdict'[p].journaled
    BY <2>1 DEF BoardInv, ShapeInv
  <2> HIDE DEF state, v
  <2>5. QED
    BY <1>1, <2>1, <2>2, <2>3, <2>4, GotoInv
<1>4. QED
  BY <1>2, <1>3

\* What a process is about to write is a board.
LEMMA PlannedIsBoard ==
    ASSUME BoardInv, NEW p \in Procs, pc[p] \in {"write", "stage"}
    PROVE  /\ command[p] \in Commands
           /\ verdict[p] = Decide(command[p], files)
           /\ Framed(verdict[p], files)
           /\ IsBoard(files)
<1>1. command[p] \in Commands /\ verdict[p] = Decide(command[p], files)
  BY DEF BoardInv, PlanInv
<1>2. IsBoard(files)
  BY DEF BoardInv, ShapeInv, IsBoard
<1>3. QED
  BY <1>1, <1>2, DecisionFramed

LEMMA WriteStep ==
    ASSUME BoardInv, NEW p \in Procs, Write(p) \/ WriteFails(p)
    PROVE  BoardInv'
<1>1. pc[p] = "write" /\ files' \in {files, verdict[p].after}
  BY DEF Write, WriteFails
<1>2. IsBoard(files')
  BY <1>1, PlannedIsBoard DEF Framed
<1>3. \E result : Leave(p, result)
  BY DEF Write, WriteFails, Fail
<1>4. QED
  BY <1>1, <1>2, <1>3, LeaveInv

\* The intent names some document, and the documents are as it found them.
LEMMA IntentUntorn ==
    ASSUME BoardInv, NEW p \in Procs, pc[p] = "stage", journal' = Intent(p), files' = files
    PROVE  journal' # Absent /\ ~Torn'
<1>1. verdict[p].files # {}
  BY DEF BoardInv, PlanInv
<1>2. journal'.files = verdict[p].files /\ journal'.before = files
  BY DEF Intent
<1>3. QED
  BY <1>1, <1>2 DEF Absent, Torn, Matched

LEMMA StageStep ==
    ASSUME BoardInv, NEW p \in Procs, Stage(p)
    PROVE  BoardInv'
<1>1. /\ pc[p] = "stage" /\ Goto(p, "commit") /\ journal' = Intent(p)
      /\ UNCHANGED <<files, lock, command, verdict, todo>>
  BY DEF Stage
<1>2. /\ IsBoard(files') /\ verdict' = [q \in Procs |-> verdict'[q]]
      /\ todo' = [q \in Procs |-> todo'[q]] /\ "commit" \in States \ {"idle"}
  BY <1>1 DEF BoardInv, ShapeInv, IsBoard, States
<1>3. journal' # Absent /\ ~Torn'
  BY <1>1, IntentUntorn
<1>4. QED
  BY <1>1, <1>2, <1>3, GotoInv

LEMMA FailureStep ==
    ASSUME BoardInv, NEW p \in Procs, RemoveJournalFails(p) \/ StageFails(p) \/ Crash(p)
    PROVE  BoardInv'
<1>1. pc[p] # "idle" /\ \E result : Leave(p, result)
  BY DEF RemoveJournalFails, StageFails, Crash, Recovering, Fail
<1>2. IsBoard(files')
  BY DEF RemoveJournalFails, StageFails, Crash, BoardInv, ShapeInv, IsBoard
<1>3. QED
  BY <1>1, <1>2, LeaveInv

\* People edit while the lock is free, when the invariant asks nothing.
LEMMA EditStep ==
    ASSUME BoardInv, NEW f \in Files, EditByHand(f)
    PROVE  BoardInv'
<1>1. \A q \in Procs : pc'[q] = "idle"
  BY ProcsAssumption DEF EditByHand, BoardInv, LockInv
<1>2. ShapeInv' /\ LockInv'
  BY DEF EditByHand, BoardInv, ShapeInv, LockInv
<1>3. QED
  BY <1>1, <1>2 DEF BoardInv, DecidesOnWholeBoard, PlanInv, RecoveryInv

LEMMA BoardInvNext == BoardInv /\ [Next]_vars => BoardInv'
<1> SUFFICES ASSUME BoardInv, [Next]_vars PROVE BoardInv'
  OBVIOUS
<1>1. CASE UNCHANGED vars
  BY <1>1, UnfinishedKept DEF vars
<1>2. ASSUME NEW p \in Procs, Step(p) PROVE BoardInv'
  BY <1>2, LockStep, InspectStep, NothingToRecoverStep, ReplayStep, RemoveJournalStep,
     RunStep, WriteStep, StageStep DEF Step
<1>3. ASSUME NEW p \in Procs, Fault(p) \/ Crash(p) PROVE BoardInv'
  BY <1>3, ReplayFailsStep, WriteStep, FailureStep DEF Fault
<1>4. ASSUME NEW f \in Files, EditByHand(f) PROVE BoardInv'
  BY <1>4, EditStep
<1>5. QED
  BY <1>1, <1>2, <1>3, <1>4 DEF Next, ByHand

\* The lock and the journal keep their discipline (transaction.go:22-117).
THEOREM BoardInvHolds == Spec => []BoardInv
BY BoardInvInit, BoardInvNext, PTL DEF Spec

\* A command decides only on a board with no move half done: lockBoard
\* recovers first (transaction.go:36).
THEOREM DecidesOnWholeBoardHolds == Spec => []DecidesOnWholeBoard
<1>1. BoardInv => DecidesOnWholeBoard
  BY DEF BoardInv
<1>2. QED
  BY <1>1, BoardInvHolds, PTL

-----------------------------------------------------------------------------
(* Recovery keeps the edits that contradict the journal. *)

\* No command writes a document while the board is torn (transaction.go:98).
THEOREM EditsKeptHolds == Spec => EditsKept
<1> DEFINE Kept == Torn => files' = files \/ ByHand
<1>1. BoardInv /\ [Next]_vars => [Kept]_vars
  <2> SUFFICES ASSUME BoardInv, [Next]_vars, Torn PROVE files' = files \/ ByHand
    OBVIOUS
  <2>1. CASE UNCHANGED vars
    BY <2>1 DEF vars
  <2>2. ASSUME NEW p \in Procs PROVE ~Recovering(p)
    BY DEF BoardInv, RecoveryInv, Recovering
  <2>3. ASSUME NEW p \in Procs PROVE pc[p] # "write"
    BY DEF BoardInv, DecidesOnWholeBoard, Torn, Absent
  <2>4. ASSUME NEW p \in Procs, Step(p) \/ Fault(p) \/ Crash(p) PROVE files' = files
    BY <2>2, <2>3, <2>4
       DEF Step, Fault, Crash, Lock, Inspect, NothingToRecover, Replay, RemoveJournal, Run,
           Write, Stage, ReplayFails, RemoveJournalFails, WriteFails, StageFails
  <2>5. ASSUME NEW f \in Files, EditByHand(f) PROVE files' = files \/ ByHand
    BY <2>5 DEF ByHand
  <2>6. QED
    BY <2>1, <2>4, <2>5 DEF Next, ByHand
<1>2. QED
  BY <1>1, BoardInvHolds, PTL DEF Spec, EditsKept

-----------------------------------------------------------------------------
(* Every step of the files and the journal is a step of the board as the   *)
(* commands see it, or none.                                               *)

\* Nothing the commands see changes while the files and the journal stay.
LEMMA SameFiles ==
    ASSUME UNCHANGED <<files, journal>>
    PROVE  Whole' = Whole /\ Torn' = Torn
BY DEF Whole, Torn, Matched

LEMMA WholeIsFiles ==
    ASSUME IsBoard(files), journal = Absent
    PROVE  Whole = files /\ ~Torn
BY DEF Whole, Torn, IsBoard, Absent

LEMMA WholeIsFilesNext ==
    ASSUME IsBoard(files'), journal' = Absent
    PROVE  Whole' = files' /\ ~Torn'
BY DEF Whole, Torn, IsBoard, Absent

\* Replaying the journal shows the commands nothing new.
LEMMA ReplayUnseen ==
    ASSUME BoardInv, NEW p \in Procs, Recovering(p), NEW f \in Files, f \in todo[p],
           files' = [files EXCEPT ![f] = journal.after[f]], journal' = journal
    PROVE  Whole' = Whole /\ ~Torn /\ ~Torn'
<1>1. ~Torn /\ f \in journal.files
  BY DEF BoardInv, RecoveryInv, Recovering
<1>2. IsBoard(files)
  BY DEF BoardInv, ShapeInv, IsBoard
<1>3. ~Torn' /\ \A g \in Files : files'[g] = IF g = f THEN journal.after[f] ELSE files[g]
  BY <1>1, <1>2, WrittenUntorn
<1>4. Whole' = Whole
  BY <1>1, <1>3 DEF Whole
<1>5. QED
  BY <1>1, <1>3, <1>4

\* Nor does removing a journal that has been replayed.
LEMMA RemovalUnseen ==
    ASSUME BoardInv, NEW p \in Procs, Recovering(p), todo[p] = {},
           journal' = Absent, files' = files
    PROVE  Whole' = Whole /\ ~Torn /\ ~Torn'
<1>1. ~Torn /\ \A f \in journal.files : files[f] = journal.after[f]
  BY DEF BoardInv, RecoveryInv, Recovering
<1>2. IsBoard(files) /\ IsBoard(files')
  BY DEF BoardInv, ShapeInv, IsBoard
<1>3. Whole = files
  BY <1>1, <1>2 DEF Whole, IsBoard
<1>4. Whole' = files' /\ ~Torn'
  BY <1>2, WholeIsFilesNext
<1>5. QED
  BY <1>1, <1>3, <1>4

\* Replacing one document is what the command decided.
LEMMA WriteIsCommand ==
    ASSUME BoardInv, NEW p \in Procs, pc[p] = "write", files' = verdict[p].after,
           journal' = journal, edits' = edits
    PROVE  Abstract!Command
<1>1. /\ command[p] \in Commands /\ verdict[p] = Decide(command[p], files)
      /\ IsBoard(files) /\ IsBoard(files')
  BY PlannedIsBoard DEF Framed
<1>2. journal = Absent
  BY DEF BoardInv, DecidesOnWholeBoard
<1>3. Whole = files /\ ~Torn
  BY <1>1, <1>2, WholeIsFiles
<1>4. Whole' = files' /\ ~Torn'
  BY <1>1, <1>2, WholeIsFilesNext
<1>5. Whole' = Decide(command[p], Whole).after
  BY <1>1, <1>3, <1>4
<1>6. Torn' = Torn
  BY <1>3, <1>4 DEF Torn
<1>7. QED
  BY <1>1, <1>3, <1>5, <1>6 DEF Abstract!Command

\* So is journaling the change of several.
LEMMA StageIsCommand ==
    ASSUME BoardInv, NEW p \in Procs, pc[p] = "stage", journal' = Intent(p), files' = files,
           edits' = edits
    PROVE  Abstract!Command
<1>1. /\ command[p] \in Commands /\ verdict[p] = Decide(command[p], files)
      /\ IsBoard(files) /\ Framed(verdict[p], files)
  BY PlannedIsBoard
<1>2. Whole = files /\ ~Torn
  BY <1>1, WholeIsFiles DEF BoardInv, DecidesOnWholeBoard
<1>3. ~Torn'
  BY IntentUntorn
<1>4. Whole' = verdict[p].after
  <2>1. /\ journal'.files = verdict[p].files /\ journal'.after = verdict[p].after
        /\ files' = files
    BY DEF Intent
  <2>2. Whole' = [f \in Files |-> IF f \in verdict[p].files THEN verdict[p].after[f] ELSE files[f]]
    BY <1>3, <2>1 DEF Whole
  <2>3. QED
    BY <1>1, <2>2 DEF Framed, IsBoard
<1>5. Whole' = Decide(command[p], Whole).after
  BY <1>1, <1>2, <1>4
<1>6. Torn' = Torn
  BY <1>2, <1>3 DEF Torn
<1>7. QED
  BY <1>1, <1>2, <1>5, <1>6 DEF Abstract!Command

\* An edit by hand changes the one document, unless the board is torn.
LEMMA EditIsEdit ==
    ASSUME BoardInv, NEW f \in Files, EditByHand(f)
    PROVE  Abstract!Edit
<1>1. edits' = edits + 1
  BY DEF EditByHand
<1>2. CASE Torn \/ Torn'
  BY <1>1, <1>2 DEF Abstract!Edit
<1>3. CASE ~Torn /\ ~Torn'
  <2>1. journal' = journal /\ \A g \in Files \ {f} : files'[g] = files[g]
    BY DEF EditByHand, BoardInv, ShapeInv
  <2>2. \A g \in Files \ {f} : Whole'[g] = Whole[g]
    BY <1>3, <2>1 DEF Whole
  <2>3. QED
    BY <1>1, <2>2 DEF Abstract!Edit
<1>4. QED
  BY <1>2, <1>3

LEMMA InitRefines == Init => Abstract!Init
<1> SUFFICES ASSUME Init PROVE Abstract!Init
  OBVIOUS
<1>1. IsBoard(files)
  BY BoardsAssumption DEF Init, IsBoard
<1>2. Whole = files /\ ~Torn
  BY <1>1, WholeIsFiles DEF Init
<1>3. Torn = FALSE
  BY <1>2 DEF Torn
<1>4. QED
  BY <1>2, <1>3 DEF Init, Abstract!Init

LEMMA UnseenIsStutter ==
    ASSUME Whole' = Whole, ~Torn, ~Torn', edits' = edits
    PROVE  UNCHANGED Abstract!vars
<1>1. Torn' = Torn
  BY DEF Torn
<1>2. QED
  BY <1>1 DEF Abstract!vars

LEMMA SameFilesIsStutter ==
    ASSUME UNCHANGED <<files, journal, edits>>
    PROVE  UNCHANGED Abstract!vars
BY SameFiles DEF Abstract!vars

LEMMA StepRefines ==
    ASSUME BoardInv, NEW p \in Procs, Step(p)
    PROVE  [Abstract!Next]_(Abstract!vars)
<1>1. ASSUME NEW c \in Commands, Lock(p, c) PROVE UNCHANGED <<files, journal, edits>>
  BY <1>1 DEF Lock, bounds
<1>2. ASSUME Inspect(p) \/ NothingToRecover(p) \/ Run(p) PROVE UNCHANGED <<files, journal, edits>>
  BY <1>2 DEF Inspect, NothingToRecover, Run, bounds
<1>3. ASSUME NEW f \in Files, Replay(p, f) PROVE UNCHANGED Abstract!vars
  BY <1>3, ReplayUnseen, UnseenIsStutter DEF Replay, NextToWrite, bounds
<1>4. ASSUME RemoveJournal(p) PROVE UNCHANGED Abstract!vars
  BY <1>4, RemovalUnseen, UnseenIsStutter DEF RemoveJournal, bounds
<1>5. ASSUME Write(p) PROVE Abstract!Next
  BY <1>5, WriteIsCommand DEF Write, Abstract!Next, bounds
<1>6. ASSUME Stage(p) PROVE Abstract!Next
  BY <1>6, StageIsCommand DEF Stage, Abstract!Next, bounds
<1>7. QED
  BY <1>1, <1>2, <1>3, <1>4, <1>5, <1>6, SameFilesIsStutter DEF Step

LEMMA FaultRefines ==
    ASSUME BoardInv, NEW p \in Procs, Fault(p) \/ Crash(p)
    PROVE  [Abstract!Next]_(Abstract!vars)
<1>1. ASSUME NEW f \in Files, ReplayFails(p, f) PROVE UNCHANGED Abstract!vars
  <2>1. CASE files' = files
    BY <1>1, <2>1, SameFilesIsStutter DEF ReplayFails, Fail
  <2>2. CASE files' # files
    BY <1>1, <2>2, ReplayUnseen, UnseenIsStutter DEF ReplayFails, NextToWrite, Fail
  <2>3. QED
    BY <2>1, <2>2
<1>2. ASSUME RemoveJournalFails(p) PROVE UNCHANGED Abstract!vars
  <2>1. CASE journal' = journal
    BY <1>2, <2>1, SameFilesIsStutter DEF RemoveJournalFails, Fail
  <2>2. CASE journal' # journal
    BY <1>2, <2>2, RemovalUnseen, UnseenIsStutter DEF RemoveJournalFails, Fail
  <2>3. QED
    BY <2>1, <2>2
<1>3. ASSUME WriteFails(p) PROVE [Abstract!Next]_(Abstract!vars)
  <2>1. CASE files' = files
    BY <1>3, <2>1, SameFilesIsStutter DEF WriteFails, Fail
  <2>2. CASE files' # files
    BY <1>3, <2>2, WriteIsCommand DEF WriteFails, Fail, Abstract!Next
  <2>3. QED
    BY <2>1, <2>2
<1>4. ASSUME StageFails(p) PROVE [Abstract!Next]_(Abstract!vars)
  <2>1. CASE journal' = journal
    BY <1>4, <2>1, SameFilesIsStutter DEF StageFails, Fail
  <2>2. CASE journal' # journal
    BY <1>4, <2>2, StageIsCommand DEF StageFails, Fail, Abstract!Next
  <2>3. QED
    BY <2>1, <2>2
<1>5. ASSUME Crash(p) PROVE UNCHANGED <<files, journal, edits>>
  BY <1>5 DEF Crash
<1>6. QED
  BY <1>1, <1>2, <1>3, <1>4, <1>5, SameFilesIsStutter DEF Fault

LEMMA NextRefines ==
    ASSUME BoardInv, [Next]_vars
    PROVE  [Abstract!Next]_(Abstract!vars)
<1>1. CASE UNCHANGED vars
  BY <1>1, SameFilesIsStutter DEF vars
<1>2. ASSUME NEW p \in Procs, Step(p) \/ Fault(p) \/ Crash(p)
      PROVE  [Abstract!Next]_(Abstract!vars)
  BY <1>2, StepRefines, FaultRefines
<1>3. ASSUME NEW f \in Files, EditByHand(f) PROVE [Abstract!Next]_(Abstract!vars)
  BY <1>3, EditIsEdit DEF Abstract!Next
<1>4. QED
  BY <1>1, <1>2, <1>3 DEF Next, ByHand

\* To those who take the lock a command happens at once or not at all, for any
\* commands, processes, failures and edits (transaction.go:45, mutate.go:399).
THEOREM RefinesAtomicHolds == Spec => RefinesAtomic
<1>1. BoardInv /\ [Next]_vars => [Abstract!Next]_(Abstract!vars)
  BY NextRefines
<1>2. QED
  BY <1>1, BoardInvHolds, InitRefines, PTL DEF Spec, RefinesAtomic, Abstract!Spec

=============================================================================
