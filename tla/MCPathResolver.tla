--------------------------- MODULE MCPathResolver ---------------------------
(* find_file_in_path on images of 5 bytes and records whose extents start  *)
(* at block 0 or 1: enough for a directory that is padded, that holds a    *)
(* short or a long record, that crosses a block boundary or the image end. *)
EXTENDS PathResolver

MCByteVals == {0, 1, 34}
MCBlockSizes == {0, 2, 4}
=============================================================================
