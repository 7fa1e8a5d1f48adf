----------------------------- MODULE MCCEncodings -----------------------------
(* CEncodings on the registers at the edges of the 5-bit field and at the  *)
(* boundary x16, and immediates that exercise each encoder's bit fields:   *)
(* 2 and 8 put bits 0 and 2 of a branch's imm_bits on bit 12; 0 and 128    *)
(* differ only in the sixth bit of a C.LWSP offset; 4096 and 266240 have   *)
(* the same bits 17:12 modulo 64.                                           *)
EXTENDS CEncodings

MCRegs == {0, 1, 2, 16, 31}

MCImms == {-4, 0, 2, 8, 32, 128, 4096, 266240}
=============================================================================
