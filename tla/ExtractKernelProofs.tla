------------------------- MODULE ExtractKernelProofs -------------------------
(***************************************************************************)
(* Proofs about main() of src/extract_kernel.py (module ExtractKernel):    *)
(* type correctness, and that the root record main works with is the one  *)
(* of the first Primary Volume Descriptor, for every image of any number   *)
(* of sectors.                                                             *)
(***************************************************************************)
EXTENDS ExtractKernel, TLAPS

\* The descriptor types at which the scan loop stops (lines 22 and 44).
StopTypes == {1, 255}

\* Every sector the scan has passed is neither a PVD nor a terminator.
ScannedClean == \A j \in 1..(sector - 1) : image[j].type \notin StopTypes

-----------------------------------------------------------------------------
(* Lemmas about the data operators.                                        *)

\* An image read by main is a sequence of at most MaxSectors sectors, each
\* of which is a possibly truncated descriptor sector.
LEMMA ImageShape ==
  ASSUME NEW img \in Images
  PROVE  /\ img \in Seq(LastSector)
         /\ Len(img) \in 0..MaxSectors
<1>1. CASE img = << >>
  BY <1>1, ConstantsAssumption DEF ConstantsAssumption
<1>2. CASE img # << >>
  <2>1. PICK n \in 1..MaxSectors :
          \E f \in [1..(n-1) -> FullSector], l \in LastSector :
            img = [k \in 1..n |-> IF k < n THEN f[k] ELSE l]
    BY <1>2 DEF Images
  <2>2. PICK f \in [1..(n-1) -> FullSector], l \in LastSector :
          img = [k \in 1..n |-> IF k < n THEN f[k] ELSE l]
    BY <2>1
  <2>3. FullSector \subseteq LastSector
    BY ConstantsAssumption DEF ConstantsAssumption, FullSector, LastSector, SectorLen
  <2>4. img \in [1..n -> LastSector]
    BY <2>2, <2>3
  <2>5. img \in Seq(LastSector) /\ Len(img) = n
    BY <2>4, ConstantsAssumption DEF ConstantsAssumption
  <2>. QED
    BY <2>1, <2>5
<1>. QED
  BY <1>1, <1>2

\* parse_directory_record (lines 52-75) never returns an entry: an entry
\* needs record_data[32] (line 64), hence 33 bytes, while the unpack of
\* line 59 succeeds only when record_data[2:6] is empty, on 2 bytes at most.
THEOREM DecodeNeverYieldsEntry ==
  ASSUME NEW n \in Nat, NEW b0 \in Nat
  PROVE  DecodeRecord(n, b0) \in {None, Raise("IndexError"), Raise("StructError")}
<1>1. n > 2 => SliceLen(n, 2, 6) + 4 # U32Width
  BY DEF SliceLen, Lesser, Greater, U32Width
<1>. QED
  BY <1>1 DEF DecodeRecord

\* The root-record slice pvd[156:190] of a sector of any length has at
\* most 34 bytes.
LEMMA RootSliceLen ==
  ASSUME NEW n \in Nat
  PROVE  SliceLen(n, 156, 190) \in 0..34
BY DEF SliceLen, Lesser, Greater

\* The PVD parse (lines 27-42) either raises or returns a root-record
\* slice of at most 34 bytes (pvd[156:190]) and its first byte.
LEMMA PvdParseShape ==
  ASSUME NEW s \in LastSector
  PROVE  PvdParse(s) \in {Raise("UnicodeDecodeError"), Raise("StructError")} \cup RootInfo
<1>1. s.len \in LastLens
  BY Zenon DEF LastSector
<1>2. s.len \in Nat
  <2>1. \A x \in LastLens : x \in Nat
    BY ConstantsAssumption DEF ConstantsAssumption
  <2>. QED
    BY <1>1, <2>1
<1>3. SliceLen(s.len, 156, 190) \in 0..34
  BY <1>2, RootSliceLen
<1>. QED
  BY <1>3 DEF PvdParse, RootInfo, LastSector

\* The scan stops at the first sector of type 1 or 255: if sector k is one
\* and every earlier one is not, StopAt names k.
LEMMA StopAtFirst ==
  ASSUME NEW img \in Seq(LastSector), NEW k \in 1..Len(img),
         img[k].type \in StopTypes,
         \A j \in 1..(k-1) : img[j].type \notin StopTypes
  PROVE  StopAt(img) = k
<1>1. \E i \in 1..Len(img) : img[i].type \in {1, 255}
  BY DEF StopTypes
<1>2. \A i, m \in 1..Len(img) :
         /\ img[i].type \in {1, 255} /\ \A j \in 1..(i-1) : img[j].type \notin {1, 255}
         /\ img[m].type \in {1, 255} /\ \A j \in 1..(m-1) : img[j].type \notin {1, 255}
         => i = m
  BY DEF StopTypes
<1>. QED
  BY <1>1, <1>2 DEF StopAt, StopTypes

-----------------------------------------------------------------------------
(***************************************************************************)
(* The inductive strengthening of ScanFindsFirstPrimary.  While the scan   *)
(* runs, the sectors before `sector` were all passed over; once it has     *)
(* handed main a root record, `sector` still points at the PVD it parsed,  *)
(* which is the first stop.  main keeps `sector`, so the fact survives the *)
(* scan's end and is what ties root to StopAt(image).                      *)
(***************************************************************************)
\* The scan stopped at `sector`, on a Set Terminator.
TermStop ==
  /\ sector \in 1..Len(image) /\ ScannedClean /\ image[sector].type = 255

\* The scan stopped at `sector`, on a PVD whose root-record field is cut
\* off by the end of the image.
EmptyRootStop ==
  /\ sector \in 1..Len(image) /\ ScannedClean /\ image[sector].type = 1
  /\ PvdParse(image[sector]).len = 0

IInv ==
  /\ TypeOK
  /\ sector <= Len(image) + 1
  /\ pc = "scan" => ScannedClean /\ root = None
  /\ pc = "main" /\ root # None =>
       /\ sector \in 1..Len(image)
       /\ ScannedClean
       /\ image[sector].type = 1
       /\ root = PvdParse(image[sector])
  /\ pc # "done" => outcome = None
  /\ pc = "main" /\ root = None => TermStop
  /\ outcome = Exit(1) => TermStop \/ EmptyRootStop

\* IInv holds initially.
LEMMA InitIInv == Init => IInv
<1>. SUFFICES ASSUME Init PROVE IInv
  OBVIOUS
<1>1. Len(image) \in 0..MaxSectors
  BY ImageShape DEF Init
<1>2. None # Exit(1)
  BY DEF None, Exit
<1>. QED
  BY <1>1, <1>2, ConstantsAssumption DEF ConstantsAssumption, Init, IInv, TypeOK, ScannedClean, None

\* An exception is neither None nor the exit code 1.
LEMMA RaiseDistinct ==
  ASSUME NEW e PROVE Raise(e) # None /\ Raise(e) # Exit(1)
BY DEF Raise, None, Exit

\* Every step of main preserves IInv.
LEMMA NextIInv == IInv /\ [Next]_vars => IInv'
<1>. SUFFICES ASSUME IInv, [Next]_vars PROVE IInv'
  OBVIOUS
<1>0. /\ image \in Seq(LastSector)
      /\ Len(image) \in 0..MaxSectors
      /\ sector \in 1..(MaxSectors + 1)
  BY ImageShape DEF IInv, TypeOK
<1>1. CASE ScanPastEnd
  BY <1>1, RaiseDistinct DEF ScanPastEnd, IInv, TypeOK, ScannedClean, Raise
<1>2. CASE ScanSkip
  <2>1. sector' = sector + 1 /\ sector \in 1..Len(image)
    BY <1>0, <1>2 DEF ScanSkip
  <2>2. ScannedClean'
    BY <1>2, <2>1 DEF ScanSkip, ScannedClean, StopTypes, IInv
  <2>3. sector' \in 1..(MaxSectors + 1) /\ sector' <= Len(image') + 1
    BY <1>0, <1>2, <2>1, ConstantsAssumption DEF ConstantsAssumption, ScanSkip
  <2>4. UNCHANGED << image, sig, root, pc, outcome >> /\ pc = "scan" /\ root = None
        /\ outcome = None
    BY <1>2 DEF ScanSkip, IInv
  <2>5. None # Exit(1)
    BY DEF None, Exit
  <2>. QED
    BY <2>2, <2>3, <2>4, <2>5 DEF IInv, TypeOK
<1>3. CASE ScanPrimary
  <2>1. sector \in 1..Len(image) /\ image[sector] \in LastSector
    BY <1>0, <1>3 DEF ScanPrimary
  <2>2. PvdParse(image[sector]) \in {Raise("UnicodeDecodeError"), Raise("StructError")} \cup RootInfo
    BY <2>1, PvdParseShape
  <2>3. CASE IsRaise(PvdParse(image[sector]))
    <3>1. outcome' \in {Raise("UnicodeDecodeError"), Raise("StructError")} /\ pc' = "done"
          /\ UNCHANGED << image, sig, sector, root >>
      BY <1>3, <2>2, <2>3 DEF ScanPrimary, IsRaise, Raise, RootInfo
    <3>. QED
      BY <3>1, RaiseDistinct DEF IInv, TypeOK, ScannedClean, Raise
  <2>4. CASE ~IsRaise(PvdParse(image[sector]))
    <3>1. root' = PvdParse(image[sector]) /\ pc' = "main" /\ root' \in RootInfo
      BY <1>3, <2>2, <2>4 DEF ScanPrimary, IsRaise, Raise, RootInfo
    <3>2. root' # None
      BY <3>1 DEF RootInfo, None
    <3>3. outcome' = None /\ outcome = None
      BY <1>3, <2>4 DEF ScanPrimary, IInv
    <3>. QED
      BY <1>3, <2>1, <3>1, <3>2, <3>3 DEF ScanPrimary, IInv, TypeOK, ScannedClean, None, Exit
  <2>. QED
    BY <2>3, <2>4
<1>4. CASE ScanTerminator
  <2>1. sector \in 1..Len(image) /\ image[sector].type = 255 /\ ScannedClean /\ root = None
        /\ outcome = None
    BY <1>0, <1>4 DEF ScanTerminator, IInv
  <2>2. TermStop'
    BY <1>4, <2>1 DEF ScanTerminator, TermStop, ScannedClean
  <2>. QED
    BY <1>4, <2>1, <2>2 DEF ScanTerminator, IInv, TypeOK, ScannedClean
<1>5. CASE MainNoPvd
  <2>1. outcome' = Exit(1) /\ pc' = "done" /\ UNCHANGED << image, sig, sector, root >>
        /\ pc = "main" /\ root \in NoRoot
    BY <1>5 DEF MainNoPvd
  <2>2. TermStop \/ EmptyRootStop
    <3>1. CASE root = None
      BY <2>1, <3>1 DEF IInv
    <3>2. CASE root # None
      <4>1. root.len = 0
        BY <2>1, <3>2 DEF NoRoot
      <4>. QED
        BY <2>1, <3>2, <4>1 DEF IInv, EmptyRootStop
    <3>. QED
      BY <3>1, <3>2
  <2>3. TermStop' = TermStop /\ EmptyRootStop' = EmptyRootStop
    BY <2>1 DEF TermStop, EmptyRootStop, ScannedClean
  <2>. QED
    BY <2>1, <2>2, <2>3 DEF IInv, TypeOK, ScannedClean
<1>6. CASE MainDecodeRoot
  <2>1. root \in RootInfo
    BY <1>6 DEF MainDecodeRoot, IInv, TypeOK, NoRoot
  <2>2. DecodeRecord(root.len, root.b0) \in {None, Raise("IndexError"), Raise("StructError")}
    <3>0. \A x \in RootBytes : x \in Nat
      BY ConstantsAssumption DEF ConstantsAssumption
    <3>1. root.len \in Nat /\ root.b0 \in Nat
      BY <2>1, <3>0 DEF RootInfo
    <3>. QED
      BY <3>1, DecodeNeverYieldsEntry
  <2>3. outcome = None
    BY <1>6 DEF MainDecodeRoot, IInv
  <2>. QED
    BY <1>6, <2>2, <2>3, RaiseDistinct DEF MainDecodeRoot, IInv, TypeOK, IsRaise, Raise, None, Exit
<1>7. CASE MainFindKernel
  BY <1>7, RaiseDistinct DEF MainFindKernel, IInv, TypeOK, ScannedClean, Raise
<1>8. CASE Terminated
  BY <1>8 DEF Terminated, vars, IInv, TypeOK, ScannedClean, TermStop, EmptyRootStop
<1>9. CASE UNCHANGED vars
  BY <1>9 DEF vars, IInv, TypeOK, ScannedClean, TermStop, EmptyRootStop
<1>. QED
  BY <1>1, <1>2, <1>3, <1>4, <1>5, <1>6, <1>7, <1>8, <1>9 DEF Next

\* IInv is an invariant of main.
THEOREM IInvariant == Spec => []IInv
BY InitIInv, NextIInv, PTL DEF Spec

\* Type correctness of main: image, sector, root_record and the way the
\* process ends stay within their types on every image.
THEOREM TypeCorrect == Spec => []TypeOK
BY IInvariant, PTL DEF IInv

\* The root record main decodes at line 152 is always the one of the first
\* Primary Volume Descriptor, with no Set Terminator before it, whatever
\* the number of sectors of the image.
THEOREM FirstPrimaryFound == Spec => []ScanFindsFirstPrimary
<1>1. IInv => ScanFindsFirstPrimary
  <2>. SUFFICES ASSUME IInv, pc = "main", root # None
                PROVE  ScanFindsFirstPrimary
    BY DEF ScanFindsFirstPrimary
  <2>1. image \in Seq(LastSector)
    BY ImageShape DEF IInv, TypeOK
  <2>2. sector \in 1..Len(image) /\ image[sector].type = 1 /\ ScannedClean
        /\ root = PvdParse(image[sector])
    BY DEF IInv
  <2>3. StopAt(image) = sector
    BY <2>1, <2>2, StopAtFirst DEF ScannedClean, StopTypes
  <2>. QED
    BY <2>2, <2>3 DEF ScanFindsFirstPrimary
<1>. QED
  BY IInvariant, <1>1, PTL

\* main returns 1 at line 150 only when the image has no usable PVD: the
\* scan stopped at a Set Terminator, or at a PVD whose root-record field
\* pvd[156:190] is cut off by the end of the image, for every image.
THEOREM ExitOneJustified == Spec => []ExitOneOnlyWithoutPvd
<1>1. IInv => ExitOneOnlyWithoutPvd
  <2>. SUFFICES ASSUME IInv, outcome = Exit(1)
                PROVE  ExitOneOnlyWithoutPvd
    BY DEF ExitOneOnlyWithoutPvd
  <2>1. image \in Seq(LastSector)
    BY ImageShape DEF IInv, TypeOK
  <2>2. TermStop \/ EmptyRootStop
    BY DEF IInv
  <2>3. sector \in 1..Len(image) /\ ScannedClean /\ image[sector].type \in StopTypes
    BY <2>2 DEF TermStop, EmptyRootStop, StopTypes
  <2>4. StopAt(image) = sector
    BY <2>1, <2>3, StopAtFirst DEF ScannedClean
  <2>. QED
    BY <2>2, <2>4 DEF TermStop, EmptyRootStop, ExitOneOnlyWithoutPvd
<1>. QED
  BY IInvariant, <1>1, PTL
=============================================================================
