---------------------------- MODULE PathResolver ----------------------------
(***************************************************************************)
(* find_file_in_path(iso_data, root_record, block_size, path_components), *)
(* src/extract_kernel.py lines 77-120, called with any record a caller     *)
(* may pass (spec section 8 builds fixtures and calls it directly).  The   *)
(* image is a short byte string; each byte is abstracted to the values    *)
(* the loop branches on: 0 (padding) or a record length.  Path components *)
(* are counted, not named: a name is compared only after a record has     *)
(* been decoded, and that comparison is a free choice of the model.       *)
(***************************************************************************)
EXTENDS Integers, Sequences, IsoFormat

CONSTANTS
  ImageLen,       \* bytes in iso_data
  ByteVals,       \* values a byte of iso_data may take
  BlockSizes,     \* values the caller may pass as block_size
  MaxExtent,      \* largest extent of a record passed in
  MaxLength,      \* largest data length of a record passed in
  MaxComponents   \* longest path_components

ASSUME ResolverAssumption ==
  /\ ImageLen \in Nat
  /\ ByteVals \subseteq 0..255 /\ 0 \in ByteVals
  /\ BlockSizes \subseteq Nat
  /\ MaxExtent \in Nat /\ MaxLength \in Nat /\ MaxComponents \in Nat

\* The dicts that parse_directory_record builds (lines 69-75), as far as
\* the walk reads them: 'is_dir', 'extent' and 'length'.
Entries == [kind : {"record"}, is_dir : BOOLEAN, extent : 0..MaxExtent,
            length : 0..MaxLength]

VARIABLES
  img,      \* iso_data
  bs,       \* block_size
  ncomp,    \* len(path_components)
  k,        \* index of the component being looked up
  current,  \* current: the record the walk stands on, or None
  dir,      \* dir_data: the bytes of current's extent
  offset,   \* offset into dir_data
  pc,       \* where the function is
  result    \* what it returns, or the exception it raises

vars == << img, bs, ncomp, k, current, dir, offset, pc, result >>

Init ==
  /\ img \in [0..(ImageLen - 1) -> ByteVals]
  /\ bs \in BlockSizes
  /\ ncomp \in 0..MaxComponents
  /\ k = 1
  /\ current \in {None} \cup Entries
  /\ dir = << >>
  /\ offset = 0
  /\ pc = "start"
  /\ result = None

\* Fault variant of Extent: a read past the end of the image is filled
\* with zero bytes instead of being cut short.
ExtentZeroFilled(lo, len) ==
  [i \in 1..len |-> IF lo + i - 1 < ImageLen THEN img[lo + i - 1] ELSE 0]

\* iso_data[lo:lo+len], clipped to the image as a Python slice is.
Extent(lo, len) == [i \in 1..SliceLen(ImageLen, lo, lo + len) |-> img[lo + i - 1]]

Return(v) == pc' = "done" /\ result' = v

-----------------------------------------------------------------------------

\* Lines 79-80: an empty path returns None.
EmptyPath ==
  /\ pc = "start" /\ ncomp = 0
  /\ Return(None)
  /\ UNCHANGED << img, bs, ncomp, k, current, dir, offset >>

\* Lines 82-85: the walk starts at root_record.
StartWalk ==
  /\ pc = "start" /\ ncomp > 0
  /\ pc' = "comp"
  /\ UNCHANGED << img, bs, ncomp, k, current, dir, offset, result >>

\* Lines 85-95 and 120: the next component.  current['is_dir'] raises
\* TypeError on None; a non-directory returns None; otherwise the
\* directory's extent is read (a clipped slice, never an error) and the
\* scan starts at offset 0.  Once every component is matched, current is
\* returned.
Descend ==
  /\ pc = "comp"
  /\ IF k > ncomp THEN Return(current) /\ UNCHANGED << dir, offset >>
     ELSE IF current = None THEN Return(Raise("TypeError")) /\ UNCHANGED << dir, offset >>
     ELSE IF ~current.is_dir THEN Return(None) /\ UNCHANGED << dir, offset >>
     ELSE /\ dir' = Extent(current.extent * bs, current.length)
          /\ offset' = 0
          /\ pc' = "scan"
          /\ UNCHANGED result
  /\ UNCHANGED << img, bs, ncomp, k, current >>

\* Lines 97 and 117-118: the directory is exhausted without a match.
ScanEnd ==
  /\ pc = "scan" /\ offset >= Len(dir)
  /\ Return(None)
  /\ UNCHANGED << img, bs, ncomp, k, current, dir, offset >>

\* Lines 98-104: a zero byte is padding.  offset % block_size raises on a
\* zero block size.
PadZeroDivision ==
  /\ pc = "scan" /\ offset < Len(dir) /\ dir[offset + 1] = 0
  /\ bs = 0
  /\ Return(Raise("ZeroDivisionError"))
  /\ UNCHANGED << img, bs, ncomp, k, current, dir, offset >>

\* Lines 100-104: a zero byte is padding.  Inside a sector the offset
\* skips to the next sector boundary; at a boundary the remainder equals
\* block_size, the offset is left as it is and `continue` re-reads the
\* same zero byte.
PadByte ==
  /\ pc = "scan" /\ offset < Len(dir) /\ dir[offset + 1] = 0
  /\ bs > 0
  /\ LET remainder == bs - (offset % bs)
     IN  offset' = IF remainder < bs THEN offset + remainder ELSE offset
  /\ UNCHANGED << img, bs, ncomp, k, current, dir, pc, result >>

\* Lines 106-115: a record of record_length bytes (clipped to dir_data) is
\* decoded.  If the decode returns an entry, its name either matches the
\* component (the walk descends into it) or not; a None entry, like a
\* mismatch, advances offset by record_length.
Record ==
  /\ pc = "scan" /\ offset < Len(dir) /\ dir[offset + 1] # 0
  /\ LET len == dir[offset + 1]
         d   == DecodeRecord(SliceLen(Len(dir), offset, offset + len), len)
     IN  IF IsRaise(d)
           THEN Return(d) /\ UNCHANGED << k, current, offset >>
           ELSE \E matched \in BOOLEAN :
                  IF matched /\ d # None
                    THEN /\ \E e \in Entries : current' = e
                         /\ k' = k + 1 /\ pc' = "comp"
                         /\ UNCHANGED << offset, result >>
                    ELSE /\ offset' = offset + len
                         /\ UNCHANGED << k, current, pc, result >>
  /\ UNCHANGED << img, bs, ncomp, dir >>

Terminated == pc = "done" /\ UNCHANGED vars

Next ==
  \/ EmptyPath \/ StartWalk \/ Descend \/ ScanEnd
  \/ PadZeroDivision \/ PadByte \/ Record
  \/ Terminated

\* The call runs on one thread to its end: every enabled step is taken.
Spec == Init /\ [][Next]_vars /\ WF_vars(Next)

-----------------------------------------------------------------------------
(* Properties.                                                             *)

\* Every variable keeps its type.
TypeOK ==
  /\ img \in [0..(ImageLen - 1) -> ByteVals]
  /\ bs \in BlockSizes
  /\ ncomp \in 0..MaxComponents
  /\ k \in 1..(MaxComponents + 1)
  /\ current \in {None} \cup Entries
  /\ dir \in Seq(ByteVals) /\ Len(dir) <= ImageLen
  /\ offset \in Nat
  /\ pc \in {"start", "comp", "scan", "done"}

=============================================================================
