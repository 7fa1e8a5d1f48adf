--------------------------- MODULE IfSameThenElseFix ---------------------------
(***************************************************************************)
(* fix_file() of src/fix_if_same_then_else.py: two passes over the lines   *)
(* of a Rust file that each look for the nine-line block                   *)
(*     let final_base = if mod_ == 0 && rm == 5 && !has_sib {              *)
(*         None                                                            *)
(*     } else if mod_ == 0 && has_sib {                                    *)
(*         None                                                            *)
(*     } else {                                                            *)
(*         base                                                            *)
(*     };                                                                  *)
(* (line 3 of it split in two by the matcher: "}" then "else if ...") and  *)
(* splice a six-element replacement into a copy of the lines, keeping a   *)
(* running offset between the two.                                        *)
(*                                                                         *)
(* A line is abstracted to what the tests of lines 13 and 20-25 tell       *)
(* apart: "head" (contains the let final_base ... !has_sib text), "none",  *)
(* "close" (strips to "}"), "elif", "else" (contains "else {"), "base",    *)
(* "end" (strips to "};"), the first line of the replacement "merged", and *)
(* "other".  Python indices are kept: position j of a list is s[j + 1].    *)
(***************************************************************************)
EXTENDS Integers, Sequences, SequencesExt

CONSTANTS
  MaxSegments   \* most pieces an input file is made of

\* The block the matcher accepts (lines 20-25), line by line.
Block == << "head", "none", "close", "elif", "none", "close", "else", "base", "end" >>

\* The replacement list of lines 28-35: its "} else {" element contains
\* "else {", and the last element is the newline '\n'.
Replacement == << "merged", "none", "else", "base", "end", "other" >>

\* Pieces an input file is made of: the block, a head line whose block is
\* not the expected one, and stretches of unrelated lines.
Segments == { Block, << "head", "none", "other" >>, << "other" >>,
              << "other", "other", "other", "other" >> }

Files == { FlattenSeq(s) : s \in UNION { [1..n -> Segments] : n \in 1..MaxSegments } }

VARIABLES
  orig,      \* the lines read at line 6
  lines,     \* lines: the list a pass searches
  modified,  \* modified_lines: the list the passes splice into
  offset,    \* offset
  pass,      \* 1 (lines 12-44) or 2 (lines 48-75)
  i, j,      \* the loop indices
  pc,        \* "outer", "inner", "write" or "done"
  written    \* what line 79 writes back, once written

vars == << orig, lines, modified, offset, pass, i, j, pc, written >>

Init ==
  /\ orig \in Files
  /\ lines = orig /\ modified = orig
  /\ offset = 0 /\ pass = 1 /\ i = 0 /\ j = 0
  /\ pc = "outer"
  /\ written = << >>

-----------------------------------------------------------------------------
(* Helpers.                                                                *)

\* The tests of lines 20-25 (and 54-59): the block starts at index k.
BlockAt(ls, k) == k + 9 <= Len(ls) /\ SubSeq(ls, k + 1, k + 9) = Block

\* modified_lines[:start] + replacement + modified_lines[end:] (lines 40
\* and 71), with Python's clipping of slice bounds.
Splice(ls, start, end) ==
  SubSeq(ls, 1, start) \o Replacement \o SubSeq(ls, end + 1, Len(ls))

\* After the first pass, line 47 copies modified_lines, as the pass left
\* it, into lines and the second pass starts; after the second, the file
\* is written.  (modified' is fixed before EndPass is used.)
EndPass ==
  IF pass = 1
    THEN pass' = 2 /\ lines' = modified' /\ i' = 0 /\ pc' = "outer"
         /\ UNCHANGED j
    ELSE pc' = "write" /\ UNCHANGED << pass, lines, i, j >>

-----------------------------------------------------------------------------
(* Actions.                                                                *)

\* The for loop of lines 12-13 (48-49): the first head line starts the
\* block search at j = i.
Outer ==
  /\ pc = "outer" /\ i < Len(lines)
  /\ IF lines[i + 1] = "head"
       THEN pc' = "inner" /\ j' = i /\ UNCHANGED i
       ELSE i' = i + 1 /\ UNCHANGED << j, pc >>
  /\ UNCHANGED << orig, lines, modified, offset, pass, written >>

\* The for loop runs out without a head line.
OuterDone ==
  /\ pc = "outer" /\ i >= Len(lines)
  /\ UNCHANGED << orig, modified, offset, written >>
  /\ EndPass

\* The while loop of lines 17-43 (52-74): while j + 12 < len(lines), a
\* block at j is spliced in at j + offset and the offset moves by
\* len(replacement) - 9; the break of line 42 and that of line 44 end the
\* pass whether or not a block was found.
Inner ==
  /\ pc = "inner"
  /\ IF j + 12 < Len(lines)
       THEN IF BlockAt(lines, j)
              THEN /\ modified' = Splice(modified, j + offset, j + offset + 9)
                   /\ offset' = offset + Len(Replacement) - 9
                   /\ EndPass
              ELSE j' = j + 1 /\ UNCHANGED << modified, offset, pass, lines, i, pc >>
       ELSE UNCHANGED << modified, offset >> /\ EndPass
  /\ UNCHANGED << orig, written >>

\* Lines 78-79: modified_lines is written back.
Write ==
  /\ pc = "write"
  /\ written' = modified /\ pc' = "done"
  /\ UNCHANGED << orig, lines, modified, offset, pass, i, j >>

Terminated == pc = "done" /\ UNCHANGED vars

Next == Outer \/ OuterDone \/ Inner \/ Write \/ Terminated

Spec == Init /\ [][Next]_vars

-----------------------------------------------------------------------------
(* Properties.                                                             *)

\* Every variable keeps its type.
TypeOK ==
  /\ orig \in Files
  /\ lines \in Seq(STRING) /\ modified \in Seq(STRING) /\ written \in Seq(STRING)
  /\ offset \in {0, -3, -6}
  /\ pass \in {1, 2}
  /\ i \in Nat /\ j \in Nat
  /\ pc \in {"outer", "inner", "write", "done"}

\* The lines of ls that are not part of a block or of a replacement, in
\* order.
RECURSIVE Others(_)
Others(ls) ==
  IF ls = << >> THEN << >>
  ELSE IF Len(ls) >= 9 /\ SubSeq(ls, 1, 9) = Block
    THEN Others(SubSeq(ls, 10, Len(ls)))
  ELSE IF Len(ls) >= 6 /\ SubSeq(ls, 1, 6) = Replacement
    THEN Others(SubSeq(ls, 7, Len(ls)))
  ELSE << Head(ls) >> \o Others(Tail(ls))

\* The docstring: the script fixes the if_same_then_else warnings of the
\* file.  Whatever blocks it replaces, every other line of the file is
\* written back unchanged and in order.
FixKeepsOtherLines ==
  pc = "done" => Others(written) = Others(orig)
=============================================================================
