---------------------------- MODULE MCTodoCleanup ----------------------------
(* Two files of up to three lines that share the base name lib.rs, as     *)
(* vm-common/src/lib.rs and vm-mem/src/lib.rs of files_to_process do, and  *)
(* a clock that may or may not tick between two changes.                   *)
EXTENDS TodoCleanup

CONSTANTS common_lib, mem_lib

MCBatch == << common_lib, mem_lib >>
MCBaseName == [p \in {common_lib, mem_lib} |-> "lib.rs"]
=============================================================================
