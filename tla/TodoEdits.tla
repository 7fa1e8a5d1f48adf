------------------------------ MODULE TodoEdits ------------------------------
(***************************************************************************)
(* What src/scripts/cleanup_todos.py promises of the files it touches (its *)
(* docstring, lines 2-9): it removes TODO/FIXME comments or replaces them  *)
(* with GitHub issue references.  Abstractly, each change to the project   *)
(* is one line of one file that bears a TODO comment being rewritten, and  *)
(* nothing else moves.  The line at k may go away, lose its comment (when  *)
(* code is in front of it), or become an issue reference, and a rewrite    *)
(* may be followed by one new empty line.                                  *)
(*                                                                         *)
(* Lines are as in TodoCleanup: an identity (0 for an inserted line) and a *)
(* kind.                                                                   *)
(***************************************************************************)
EXTENDS Integers, Sequences

CONSTANTS
  Paths,      \* the files of the project
  MaxLines    \* most lines a file starts with

VARIABLE files   \* the lines of each file

Line == [id : 0..MaxLines, kind : {"code", "todo", "trail", "note", "issue", "blank"}]

\* A line that carries a TODO or FIXME comment, with or without code in
\* front of it.
TodoKinds == {"todo", "trail", "note"}

NewBlank == [id |-> 0, kind |-> "blank"]

\* What a TODO line l may be rewritten to: nothing, or the line with its
\* comment cut (code in front) or turned into a reference (comment only),
\* possibly followed by an empty line.
Rewrites(l) ==
  LET kept == IF l.kind = "trail" THEN {[id |-> l.id, kind |-> "code"]}
                                  ELSE {[id |-> l.id, kind |-> "issue"]}
  IN  (IF l.kind = "trail" THEN {} ELSE {<< >>})
        \cup { << r >> : r \in kept } \cup { << r, NewBlank >> : r \in kept }

Init == files \in [Paths -> Seq(Line)]

\* One TODO line of one file is rewritten.
EditTodo ==
  \E p \in Paths : \E k \in 1..Len(files[p]) :
    /\ files[p][k].kind \in TodoKinds
    /\ \E mid \in Rewrites(files[p][k]) :
         files' = [files EXCEPT ![p] = SubSeq(@, 1, k - 1) \o mid \o SubSeq(@, k + 1, Len(@))]

Spec == Init /\ [][EditTodo]_files
=============================================================================
