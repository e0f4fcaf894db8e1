---------------------------- MODULE BoardAtomic ----------------------------
(***************************************************************************)
(* What the board promises to those who use it: a command happens at once, *)
(* or not at all.  A move never shows a task in two documents or in none.  *)
(*                                                                         *)
(* A person who edits a document that an unfinished move is about to       *)
(* change can tear the board.  No command then changes it, whatever it     *)
(* would have decided, until a person mends it.                            *)
(***************************************************************************)
EXTENDS Naturals

CONSTANTS
    Files,          \* the documents of a board
    Boards,         \* the boards to start from
    Commands,
    Decide(_, _)    \* what a command makes of a board, as its field "after"

VARIABLES
    docs,   \* the documents as the commands see them
    torn,   \* a person's edit contradicts an unfinished move
    edits   \* how often people have edited a document

vars == <<docs, torn, edits>>

Init == docs \in Boards /\ torn = FALSE /\ edits = 0

Command ==
    /\ ~torn
    /\ \E c \in Commands : docs' = Decide(c, docs).after
    /\ UNCHANGED <<torn, edits>>

\* An edit changes one document; if it tears the board, or finds it torn, it
\* may also show or hide changes that were pending.
Edit ==
    /\ edits' = edits + 1
    /\ \/ torn \/ torn'
       \/ \E f \in Files : \A g \in Files \ {f} : docs'[g] = docs[g]

Next == Command \/ Edit

Spec == Init /\ [][Next]_vars

=============================================================================
