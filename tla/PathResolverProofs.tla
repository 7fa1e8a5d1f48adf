-------------------------- MODULE PathResolverProofs --------------------------
(***************************************************************************)
(* Proofs about find_file_in_path (module PathResolver, src/extract_kernel *)
(* lines 77-120), for every image length, byte values, block sizes and     *)
(* path length: the walk keeps its types, and the directory it scans is   *)
(* a clipped slice of the image, never longer than the image.             *)
(***************************************************************************)
EXTENDS PathResolver, TLAPS

USE ResolverAssumption DEF ResolverAssumption

\* The control facts the walk keeps between its steps: the component loop
\* runs only on a non-empty path; a directory is scanned only for a
\* component that exists and only below a record; once a component has
\* matched, current is a record.
Control ==
  /\ pc = "start" => k = 1
  /\ pc \in {"comp", "scan"} => ncomp >= 1 /\ k <= ncomp + 1
  /\ pc = "scan" => k <= ncomp /\ current \in Entries
  /\ k > 1 => current \in Entries

\* The inductive invariant: the type invariant and the control facts.
IInv == TypeOK /\ Control

-----------------------------------------------------------------------------
(* Lemmas about the data operators.                                        *)

\* The extent read of line 91 is a sequence of bytes of the image, no
\* longer than the image, whatever the offset and length asked for.
LEMMA ExtentType ==
  ASSUME NEW lo \in Nat, NEW len \in Nat, img \in [0..(ImageLen - 1) -> ByteVals]
  PROVE  /\ Extent(lo, len) \in Seq(ByteVals)
         /\ Len(Extent(lo, len)) <= ImageLen
<1>1. SliceLen(ImageLen, lo, lo + len) \in 0..ImageLen
  BY DEF SliceLen, Lesser, Greater
<1>2. \A i \in 1..SliceLen(ImageLen, lo, lo + len) : lo + i - 1 \in 0..(ImageLen - 1)
  BY DEF SliceLen, Lesser, Greater
<1>3. Extent(lo, len) \in [1..SliceLen(ImageLen, lo, lo + len) -> ByteVals]
  BY <1>2 DEF Extent
<1>. QED
  BY <1>1, <1>3 DEF Extent, SliceLen, Lesser, Greater

\* Every byte value is a natural number.
LEMMA ByteNat == \A v \in ByteVals : v \in Nat
BY DEF ResolverAssumption

\* The skip of a padding byte (lines 101-103) never moves the offset back.
LEMMA PadAdvance ==
  ASSUME NEW o \in Nat, NEW b \in Nat, b > 0
  PROVE  LET r == b - (o % b) IN (IF r < b THEN o + r ELSE o) \in Nat
OBVIOUS

-----------------------------------------------------------------------------
(* The invariance proof.                                                   *)

LEMMA InitIInv == Init => IInv
BY DEF Init, IInv, TypeOK, Control

\* One case per action; each establishes both parts of IInv.
LEMMA NextIInv == IInv /\ [Next]_vars => IInv'
<1>. SUFFICES ASSUME IInv, [Next]_vars PROVE IInv'
  OBVIOUS
<1>. USE DEF IInv, TypeOK, Control, Return
<1>1. CASE EmptyPath
  BY <1>1 DEF EmptyPath
<1>2. CASE StartWalk
  BY <1>2 DEF StartWalk
<1>3. CASE Descend
  <2>1. CASE k > ncomp
    BY <1>3, <2>1 DEF Descend, None, Entries
  <2>2. CASE ~(k > ncomp) /\ current = None
    BY <1>3, <2>2 DEF Descend, None, Raise
  <2>3. CASE ~(k > ncomp) /\ current # None /\ ~current.is_dir
    BY <1>3, <2>3 DEF Descend
  <2>4. CASE ~(k > ncomp) /\ current # None /\ current.is_dir
    <3>1. current \in Entries
      BY <2>4
    <3>2. current.extent * bs \in Nat /\ current.length \in Nat
      BY <3>1 DEF Entries
    <3>3. dir' = Extent(current.extent * bs, current.length) /\ offset' = 0 /\ pc' = "scan"
          /\ UNCHANGED << img, bs, ncomp, k, current, result >>
      BY <1>3, <2>4 DEF Descend
    <3>4. dir' \in Seq(ByteVals) /\ Len(dir') <= ImageLen
      BY <3>2, <3>3, ExtentType, Zenon
    <3>. QED
      BY <2>4, <3>1, <3>3, <3>4
  <2>. QED
    BY <2>1, <2>2, <2>3, <2>4
<1>4. CASE ScanEnd
  BY <1>4 DEF ScanEnd
<1>5. CASE PadZeroDivision
  BY <1>5 DEF PadZeroDivision, None, Raise
<1>6. CASE PadByte
  <2>1. bs \in Nat /\ bs > 0 /\ offset \in Nat
    BY <1>6 DEF PadByte
  <2>. QED
    BY <1>6, <2>1, PadAdvance DEF PadByte
<1>7. CASE Record
  <2>. DEFINE len == dir[offset + 1]
              d   == DecodeRecord(SliceLen(Len(dir), offset, offset + len), len)
  <2>0. pc = "scan" /\ offset \in Nat /\ offset < Len(dir)
    BY <1>7 DEF Record
  <2>1. pc = "scan" /\ offset \in Nat /\ offset < Len(dir) /\ len \in Nat
    <3>1. offset + 1 \in 1..Len(dir)
      BY <2>0
    <3>2. len \in ByteVals
      BY <3>1
    <3>3. len \in Nat
      BY <3>2, ByteNat, Zenon
    <3>. QED
      BY <2>0, <3>3
  <2>2. CASE IsRaise(d)
    <3>1. pc' = "done" /\ result' = d /\ UNCHANGED << img, bs, ncomp, k, current, dir, offset >>
      BY <1>7, <2>2 DEF Record
    <3>2. d # None
      BY <2>2 DEF IsRaise, None
    <3>. QED
      BY <2>1, <3>1, <3>2
  <2>3. CASE ~IsRaise(d)
    <3>1. \/ /\ current' \in Entries /\ k' = k + 1 /\ pc' = "comp"
             /\ UNCHANGED << img, bs, ncomp, dir, offset, result >>
          \/ /\ offset' = offset + len
             /\ UNCHANGED << img, bs, ncomp, k, current, dir, pc, result >>
      BY <1>7, <2>3 DEF Record
    <3>2. CASE current' \in Entries /\ k' = k + 1 /\ pc' = "comp"
               /\ UNCHANGED << img, bs, ncomp, dir, offset, result >>
      BY <2>1, <3>2
    <3>3. CASE offset' = offset + len
               /\ UNCHANGED << img, bs, ncomp, k, current, dir, pc, result >>
      BY <2>1, <3>3
    <3>. QED
      BY <3>1, <3>2, <3>3
  <2>. QED
    BY <2>2, <2>3
<1>8. CASE Terminated
  BY <1>8 DEF Terminated, vars
<1>9. CASE UNCHANGED vars
  BY <1>9 DEF vars
<1>. QED
  BY <1>1, <1>2, <1>3, <1>4, <1>5, <1>6, <1>7, <1>8, <1>9 DEF Next

\* find_file_in_path keeps the types of its variables on every image,
\* for every block size and path length: in particular the extent it
\* reads (line 91) is a clipped slice of the image, never longer.
THEOREM TypeCorrect == Spec => []TypeOK
<1>. QED
  BY InitIInv, NextIInv, PTL DEF Spec, IInv

=============================================================================
