------------------------------ MODULE CEncodings ------------------------------
(***************************************************************************)
(* The encoders of RISC-V compressed instructions of                       *)
(* src/generate_c_encodings.py (lines 7-211).  Each encode_c_* function    *)
(* checks its operands, raises ValueError on a bad one, and otherwise ORs  *)
(* shifted fields together and keeps the low 16 bits.                      *)
(*                                                                         *)
(* Python's x & (2^w - 1) is x % 2^w (also for negative x), x << k is      *)
(* x * 2^k and x >> k is x \div 2^k (both floor).  The OR of fields is     *)
(* Bitwise's |, since fields may overlap.  A caller is modelled as a log   *)
(* of the calls made and the words they returned.                          *)
(***************************************************************************)
EXTENDS Integers, FiniteSets, Bitwise

CONSTANTS
  Regs,      \* register numbers passed in
  Imms,      \* immediates passed in
  MaxCalls   \* calls the caller makes

\* What a call that raises ValueError returns in the model.
ValueError == -1

Field(x, k) == x * 2^k

\* Lines 7-16.
encode_c_add(rd, rs2) ==
  IF rd < 0 \/ rd > 31 \/ rs2 < 0 \/ rs2 > 31 THEN ValueError
  ELSE (Field(2, 0) | Field(2, 13) | Field(rd, 7) | Field(rs2, 2)) % 2^16

\* Lines 18-27.
encode_c_mv(rd, rs2) ==
  IF rd < 0 \/ rd > 31 \/ rs2 < 0 \/ rs2 > 31 THEN ValueError
  ELSE (Field(2, 0) | Field(1, 13) | Field(rd, 7) | Field(rs2, 2)) % 2^16

\* Lines 29-38.
encode_c_jr(rs1) ==
  IF rs1 < 0 \/ rs1 > 31 THEN ValueError
  ELSE (Field(2, 0) | Field(1, 13) | Field(rs1, 7)) % 2^16

\* Lines 40-49.
encode_c_jalr(rs1) ==
  IF rs1 < 0 \/ rs1 > 31 THEN ValueError
  ELSE (Field(2, 0) | Field(2, 13) | Field(rs1, 7)) % 2^16

\* Lines 51-57.
encode_c_ebreak == (Field(2, 0) | Field(2, 13)) % 2^16

\* The 6-bit immediate of lines 69-70, 83-84 and 97-98: bits 4:0 at 6:2,
\* bit 5 at 12.
Imm6(u) == Field(u % 2^5, 2) | Field(u \div 2^5, 12)

\* Lines 59-71.
encode_c_addi(rd, imm) ==
  IF rd < 0 \/ rd > 31 \/ imm < -32 \/ imm > 31 THEN ValueError
  ELSE (Field(1, 0) | Field(rd, 7) | Imm6(imm % 2^6)) % 2^16

\* Lines 73-85.
encode_c_li(rd, imm) ==
  IF rd < 0 \/ rd > 31 \/ imm < -32 \/ imm > 31 THEN ValueError
  ELSE (Field(1, 0) | Field(2, 13) | Field(rd, 7) | Imm6(imm % 2^6)) % 2^16

\* Lines 87-99: no range check on imm; bits 17:12 of it are kept.
encode_c_lui(rd, imm) ==
  IF rd < 0 \/ rd > 31 \/ rd = 0 \/ rd = 2 THEN ValueError
  ELSE (Field(1, 0) | Field(3, 13) | Field(rd, 7) | Imm6((imm \div 2^12) % 2^6)) % 2^16

\* Lines 101-112.
encode_c_slli(rd, shamt) ==
  IF rd < 0 \/ rd > 31 \/ shamt < 0 \/ shamt > 31 THEN ValueError
  ELSE (Field(2, 0) | Field(rd, 7) | Field(shamt, 2)) % 2^16

\* Lines 114-130: imm_bits 1:0 at 5:4, 3:2 at 3:2, 4 at 12; bit 5 of
\* imm_bits is not placed anywhere.
encode_c_lwsp(rd, imm) ==
  IF rd < 0 \/ rd > 31 \/ rd = 0 \/ imm < 0 \/ imm > 255 \/ imm % 4 # 0 THEN ValueError
  ELSE LET b == (imm \div 4) % 2^6
       IN  (Field(2, 0) | Field(2, 10) | Field(rd, 7) | Field(b % 4, 4)
              | (b & 12) | Field(b & 16, 8)) % 2^16

\* Lines 132-143.
encode_c_swsp(rs2, imm) ==
  IF rs2 < 0 \/ rs2 > 31 \/ imm < 0 \/ imm > 255 \/ imm % 4 # 0 THEN ValueError
  ELSE LET b == (imm \div 4) % 2^6
       IN  (Field(2, 0) | Field(3, 13) | Field(1, 10) | Field(rs2, 2)
              | Field(b % 4, 12) | Field(b & 4, 7) | Field(b & 56, 9)) % 2^16

\* Lines 145-183: C.SUB, C.XOR, C.OR and C.AND differ only in funct4.
EncodeArith(funct4, rd, rs2) ==
  IF rd < 0 \/ rd > 31 \/ rs2 < 0 \/ rs2 > 31 THEN ValueError
  ELSE (Field(2, 0) | Field(funct4, 12) | Field(rd, 7) | Field(rs2, 2)) % 2^16

\* Lines 185-211: C.BEQZ and C.BNEZ differ only in funct3.  imm_bits bit
\* 0 goes to bit 12, bits 2:1 to 12:11, bits 4:3 to 7:6, bits 7:5 to 5:3.
EncodeBranch(funct3, rs1, imm) ==
  IF rs1 < 0 \/ rs1 > 31 \/ imm < -256 \/ imm > 255 \/ imm % 2 # 0 THEN ValueError
  ELSE LET b == (imm \div 2) % 2^8
       IN  (Field(1, 0) | Field(funct3, 13) | Field(rs1, 7) | Field(b % 2, 12)
              | Field(b & 6, 10) | Field(b & 24, 3) | ((b & 224) \div 4)) % 2^16

\* The encoders with two operands, and the ones with a register only.
RegRegOps == {"add", "mv", "sub", "xor", "or", "and"}
RegImmOps == {"addi", "li", "lui", "slli", "lwsp", "swsp", "beqz", "bnez"}
RegOps == {"jr", "jalr"}

Calls ==
  [op : RegRegOps, x : Regs, y : Regs] \cup [op : RegImmOps, x : Regs, y : Imms]
    \cup [op : RegOps, x : Regs, y : {0}] \cup [op : {"ebreak"}, x : {0}, y : {0}]

\* The word a call returns, or ValueError.
Encode(c) ==
  CASE c.op = "add"    -> encode_c_add(c.x, c.y)
    [] c.op = "mv"     -> encode_c_mv(c.x, c.y)
    [] c.op = "sub"    -> EncodeArith(8, c.x, c.y)
    [] c.op = "xor"    -> EncodeArith(9, c.x, c.y)
    [] c.op = "or"     -> EncodeArith(10, c.x, c.y)
    [] c.op = "and"    -> EncodeArith(11, c.x, c.y)
    [] c.op = "jr"     -> encode_c_jr(c.x)
    [] c.op = "jalr"   -> encode_c_jalr(c.x)
    [] c.op = "ebreak" -> encode_c_ebreak
    [] c.op = "addi"   -> encode_c_addi(c.x, c.y)
    [] c.op = "li"     -> encode_c_li(c.x, c.y)
    [] c.op = "lui"    -> encode_c_lui(c.x, c.y)
    [] c.op = "slli"   -> encode_c_slli(c.x, c.y)
    [] c.op = "lwsp"   -> encode_c_lwsp(c.x, c.y)
    [] c.op = "swsp"   -> encode_c_swsp(c.x, c.y)
    [] c.op = "beqz"   -> EncodeBranch(6, c.x, c.y)
    [] c.op = "bnez"   -> EncodeBranch(7, c.x, c.y)

VARIABLE log   \* the calls made so far, each with what it returned

Init == log = {}

\* One call of an encoder.
Call ==
  /\ Cardinality(log) < MaxCalls
  /\ \E c \in Calls : log' = log \cup {[call |-> c, word |-> Encode(c)]}

\* The caller has made its calls.
Done == Cardinality(log) = MaxCalls /\ UNCHANGED log

Next == Call \/ Done

Spec == Init /\ [][Next]_log

-----------------------------------------------------------------------------
(* Properties.                                                             *)

\* The module docstring: each function generates the encoding of its
\* instruction, so a decoder can recover the operands: two calls of one
\* encoder that both return a word return the same word only for the same
\* operands.
OperandsRecoverable ==
  \A l1, l2 \in log :
    /\ l1.call.op = l2.call.op
    /\ l1.word # ValueError /\ l1.word = l2.word
    => l1.call = l2.call
=============================================================================
