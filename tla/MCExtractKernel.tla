--------------------------- MODULE MCExtractKernel ---------------------------
(* Small images for ExtractKernel: up to three descriptor sectors, the     *)
(* boot (0), primary (1), supplementary (2) and terminator (255) codes,    *)
(* and last-sector lengths on each side of the thresholds the code meets: *)
(* 136 (last PVD unpack), 156 (root field empty), 157 and 158 (root slice *)
(* of 1 and 2 bytes) and 190 (full 34-byte root slice).                   *)
EXTENDS ExtractKernel

MCTypeCodes == {0, 1, 2, 255}
MCLastLens == {100, 150, 157, 158, 2048}
MCRootBytes == {0, 34}
=============================================================================
