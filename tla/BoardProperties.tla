--------------------------- MODULE BoardProperties ---------------------------
(***************************************************************************)
(* What the board commands promise, together and across failures.          *)
(***************************************************************************)
EXTENDS Board

Abstract == INSTANCE BoardAtomic WITH docs <- Whole, torn <- Torn

AllIds(docs) == UNION {IdsIn(docs[f]) : f \in Files}
Copies(docs, id) == Cardinality(Matches(docs, id, None))

\* A move between documents happens at once to everyone who takes the lock:
\* whatever writes fail and whoever dies, the board is what some command made
\* of it or what it was before (transaction.go:45, mutate.go:413).
RefinesAtomic == Abstract!Spec

\* A command reads the board and decides while no earlier move is half done:
\* lockBoard recovers first and gives the lock back if it cannot
\* (transaction.go:36).
DecidesOnWholeBoard ==
    \A p \in Procs : pc[p] \in {"run", "write", "stage"} => journal = Absent

\* Recovery refuses to overwrite an edit that matches neither snapshot of the
\* unfinished move, in any of its documents (transaction.go:104).
EditsKept == [][Torn => files' = files \/ ByHand]_vars

\* No command, recovery or failure makes a task disappear from the files, not
\* even for a moment: the destination is written before the source
\* (mutate.go:413-416), and repairs keep one copy (mutate.go:96, 298).  A repair
\* that was interrupted does not look again for the copy it keeps: it finishes
\* though a person has deleted that one meanwhile (transaction.go:98).
NoTaskVanishes ==
    [][~ByHand =>
        \A id \in AllIds(files) \ AllIds(files') :
            /\ journal # Absent
            /\ \E f \in Files \ journal.files :
                  id \in IdsIn(journal.before[f]) \ IdsIn(files[f])]_vars

\* No command, recovery or failure adds a second record of a task, for all
\* that a move is two writes and create is a look and a write
\* (mutate.go:137, 413).
NoNewDuplicates ==
    [][~ByHand =>
        \A id \in AllIds(Whole') :
            Copies(Whole', id) <= 1 \/ Copies(Whole', id) <= Copies(Whole, id)]_vars

\* A question to a human goes away only once its task is archived as done
\* (human_input.go:29).
AsksKept ==
    [][~ByHand =>
        \A i \in OfKind(files["backlog"], "ask") :
            LET ask == files["backlog"][i]
            IN  ask \in Range(files'["backlog"]) \/ ask.id \in IdsIn(files["archive"])]_vars

\* Assign alone moves work into lanes: however commands interleave and are
\* repeated after failures, no worker gets a second task (assign.go:33-39).
OneTaskPerLane == \A r \in Roles : Cardinality(ActiveInLane(Whole, r)) <= 1

\* Work in a lane has all its dependencies in the archive (assign.go:46).
DependenciesFirst ==
    \A i \in Blocks(Whole["tasks"]) :
        Whole["tasks"][i].status = "In Progress" =>
            Whole["tasks"][i].deps \subseteq IdsIn(Whole["archive"])

\* The poll loop reads the archive without the lock; what a half-done move has
\* put there is not taken back by a failure or a recovery
\* (archive_verify.go:88, transaction.go:108).
DoneReadIsFinal ==
    [][IdsIn(files["archive"]) \subseteq IdsIn(files'["archive"])]_vars

\* While commands keep coming, a move that was journaled ends up in all its
\* documents unless a person's edit tears it (transaction.go:76).
MovesComplete == journal # Absent ~> journal = Absent \/ Torn

-----------------------------------------------------------------------------
(* What a comment says, and the code does not do. *)

\* Normalizing is "an explicit recovery path for concatenated board snapshots"
\* and rejects only conflicting bodies (mutate.go:240-242): it repairs a valid
\* document that was saved twice over.
ConcatenationRepaired ==
    [][\A p \in Procs :
        (command[p] # None /\ command[p].op = "normalize" /\ pc[p] = "run")
            => answer'[p] # "error"]_vars

=============================================================================
