------------------------ MODULE MCIfSameThenElseFix ------------------------
(* Files of up to four pieces: two blocks, with room after them for the   *)
(* twelve-line lookahead of line 17, and a stray head line before them.   *)
EXTENDS IfSameThenElseFix
=============================================================================
