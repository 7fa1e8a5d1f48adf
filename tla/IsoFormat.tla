------------------------------ MODULE IsoFormat ------------------------------
(***************************************************************************)
(* Data-level operators of src/extract_kernel.py: Python slice lengths,    *)
(* the Primary Volume Descriptor field parse and the directory-record      *)
(* decode.  Byte strings are abstracted to their lengths and to the few    *)
(* byte values the code branches on.  A conversion is modelled by what it  *)
(* does to those: a struct.unpack handed a buffer of the wrong width       *)
(* raises, as in CPython.                                                  *)
(***************************************************************************)
EXTENDS Integers

\* The smaller and the larger of two integers.
Lesser(a, b) == IF a <= b THEN a ELSE b
Greater(a, b) == IF a >= b THEN a ELSE b

\* Length of the Python slice s[lo:hi] of a byte string of length n, for
\* 0 <= lo <= hi: the slice is clipped to the string and never raises.
SliceLen(n, lo, hi) == Greater(0, Lesser(hi, n) - lo)

\* Values of a Python statement sequence are tagged records: None, an
\* exception, or a value of one of the kinds below.
None == [kind |-> "none"]
Raise(exc) == [kind |-> "raise", exc |-> exc]
IsRaise(v) == v.kind = "raise"

\* Width struct.unpack('<I', b) requires of b.
U32Width == 4

(***************************************************************************)
(* parse_iso9660_primary_volume_descriptor, lines 27-42, once the type     *)
(* code 1 has been seen.  A descriptor sector is a record: its type code,  *)
(* its length (2048 unless it is the image's truncated last sector),       *)
(* whether the id fields [8:72) are ASCII, and the first byte of the       *)
(* root-record field [156:190).  The id decodes (lines 27-28) come first,  *)
(* then five unpacks of fixed slices ending at byte 136 (lines 29-33).     *)
(***************************************************************************)
PvdFields == { [lo |-> 80, hi |-> 84],  [lo |-> 120, hi |-> 122],
               [lo |-> 124, hi |-> 126], [lo |-> 128, hi |-> 130],
               [lo |-> 132, hi |-> 136] }

\* Fault variant of PvdParse: the root-record slice taken as pvd[156:191].
PvdParseWideRoot(s) ==
  IF ~s.ascii THEN Raise("UnicodeDecodeError")
  ELSE IF \E f \in PvdFields : SliceLen(s.len, f.lo, f.hi) # f.hi - f.lo
       THEN Raise("StructError")
  ELSE [kind |-> "root", len |-> SliceLen(s.len, 156, 191), b0 |-> s.root0]

PvdParse(s) ==
  IF ~s.ascii THEN Raise("UnicodeDecodeError")
  ELSE IF \E f \in PvdFields : SliceLen(s.len, f.lo, f.hi) # f.hi - f.lo
       THEN Raise("StructError")
  ELSE [kind |-> "root", len |-> SliceLen(s.len, 156, 190), b0 |-> s.root0]

(***************************************************************************)
(* parse_directory_record(record_data), lines 52-75, for a byte string of  *)
(* length n whose first byte is b0.  The statements run in order and the   *)
(* first one that fails raises.  Lines 59 and 60 append 4 zero bytes to a  *)
(* slice before unpacking it as '<I', so the buffer is 4 + SliceLen wide   *)
(* and the unpack succeeds only on an empty slice.  A record value (the    *)
(* only field kept is its span) is what the function would return.        *)
(***************************************************************************)
DecodeRecord(n, b0) ==
  IF n = 0 \/ b0 = 0 THEN None                                  \* line 54
  ELSE IF n <= 1 THEN Raise("IndexError")                       \* line 58
  ELSE IF SliceLen(n, 2, 6) + 4 # U32Width
       THEN Raise("StructError")                                \* line 59
  ELSE IF SliceLen(n, 10, 14) + 4 # U32Width
       THEN Raise("StructError")                                \* line 60
  ELSE IF n <= 32 THEN Raise("IndexError")                      \* line 64
  ELSE [kind |-> "record", span |-> n]

=============================================================================
