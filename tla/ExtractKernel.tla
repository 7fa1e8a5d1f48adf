---------------------------- MODULE ExtractKernel ----------------------------
(***************************************************************************)
(* main() of src/extract_kernel.py with the volume-descriptor scan it      *)
(* calls first.  The image is read once (lines 142-143) and never changes: *)
(* it is chosen in Init among all small images.  From sector 16 on         *)
(* (offset 0x8000) it is a sequence of 2048-byte descriptor sectors, the   *)
(* last of which may be truncated; sig says whether the kernel magic       *)
(* b'\xb8\xc0\x07\x8e' occurs anywhere in it.                              *)
(*                                                                         *)
(* After the scan, main decodes the 34-byte root record (line 152) and     *)
(* walks the kernel candidates (line 164), the first of which calls        *)
(* find_file_in_path with that record.                                     *)
(***************************************************************************)
EXTENDS Integers, Sequences, IsoFormat

CONSTANTS
  MaxSectors,   \* most descriptor sectors the image has after offset 0x8000
  TypeCodes,    \* type codes a descriptor sector may carry
  LastLens,     \* byte lengths the image's last sector may have
  RootBytes     \* values of the first byte of the PVD's root-record field

ASSUME ConstantsAssumption ==
  /\ MaxSectors \in Nat \ {0}
  /\ TypeCodes \subseteq 0..255
  /\ LastLens \subseteq 1..2048 /\ 2048 \in LastLens
  /\ RootBytes \subseteq 0..255

SectorLen == 2048

\* A descriptor sector that is followed by another one is complete.
FullSector == [type : TypeCodes, len : {SectorLen}, ascii : BOOLEAN, root0 : RootBytes]
LastSector == [type : TypeCodes, len : LastLens, ascii : BOOLEAN, root0 : RootBytes]

\* The image from offset 0x8000 on: no sector at all when iso_data ends at
\* or before 0x8000 (the first read of line 18 then raises), or 1 to
\* MaxSectors sectors, all complete but the last.
Images ==
  {<< >>} \cup
  UNION { { [k \in 1..n |-> IF k < n THEN f[k] ELSE l] : f \in [1..(n-1) -> FullSector],
                                                       l \in LastSector }
          : n \in 1..MaxSectors }

VARIABLES
  image,    \* the descriptor sectors of iso_data, from offset 0x8000 on
  sig,      \* iso_data contains the kernel magic
  sector,   \* the scan's offset, as 1 + (offset - 0x8000) \div 2048
  root,     \* root_record: None, or what the scan returned (length, first byte)
  pc,       \* where main is
  outcome   \* how the process ends: an exit code or an uncaught exception

vars == << image, sig, sector, root, pc, outcome >>

Exit(code) == [kind |-> "exit", code |-> code]


\* Values of root_record that the test `not root_record` (line 148) rejects:
\* None and the empty slice.
NoRoot == {None} \cup [kind : {"root"}, len : {0}, b0 : RootBytes]

Init ==
  /\ image \in Images
  /\ sig \in BOOLEAN
  /\ sector = 1
  /\ root = None
  /\ pc = "scan"
  /\ outcome = None

-----------------------------------------------------------------------------
(* parse_iso9660_primary_volume_descriptor, lines 11-50.                   *)

\* Lines 17-18: the slice past the end of iso_data is empty and
\* descriptor[0] raises.
ScanPastEnd ==
  /\ pc = "scan"
  /\ sector > Len(image)
  /\ pc' = "done"
  /\ outcome' = Raise("IndexError")
  /\ UNCHANGED << image, sig, sector, root >>

\* Fault variant of ScanSkip: the offset is not advanced (a `continue`
\* before line 48), so the same descriptor is read again.
ScanSkipStuck ==
  /\ pc = "scan"
  /\ sector <= Len(image)
  /\ image[sector].type \notin {1, 255}
  /\ UNCHANGED << image, sig, sector, root, pc, outcome >>

\* Lines 20-21 and 48: a boot descriptor, or any other type code that is
\* neither 1 nor 255, is passed over.
ScanSkip ==
  /\ pc = "scan"
  /\ sector <= Len(image)
  /\ image[sector].type \notin {1, 255}
  /\ sector' = sector + 1
  /\ UNCHANGED << image, sig, root, pc, outcome >>

\* Lines 22-42: the Primary Volume Descriptor; its fields are parsed and
\* the root-record slice is returned, unless a field parse raises.
ScanPrimary ==
  /\ pc = "scan"
  /\ sector <= Len(image)
  /\ image[sector].type = 1
  /\ LET r == PvdParse(image[sector]) IN
       IF IsRaise(r)
         THEN /\ pc' = "done" /\ outcome' = r /\ UNCHANGED root
         ELSE /\ pc' = "main" /\ root' = r /\ UNCHANGED outcome
  /\ UNCHANGED << image, sig, sector >>

\* Fault variant of ScanTerminator: the `break` of line 46 dropped, so the
\* scan goes on past the Set Terminator.
ScanTerminatorContinue ==
  /\ pc = "scan"
  /\ sector <= Len(image)
  /\ image[sector].type = 255
  /\ sector' = sector + 1
  /\ UNCHANGED << image, sig, root, pc, outcome >>

\* Lines 44-46 and 50: the Set Terminator ends the scan with (None, None).
ScanTerminator ==
  /\ pc = "scan"
  /\ sector <= Len(image)
  /\ image[sector].type = 255
  /\ pc' = "main"
  /\ UNCHANGED << image, sig, sector, root, outcome >>

-----------------------------------------------------------------------------
(* main, lines 146-166.                                                    *)

\* Lines 148-150: no root record (None, or the empty slice of a truncated
\* PVD) is reported and main returns 1.
MainNoPvd ==
  /\ pc = "main"
  /\ root \in NoRoot
  /\ pc' = "done"
  /\ outcome' = Exit(1)
  /\ UNCHANGED << image, sig, sector, root >>

\* Fault variant of MainDecodeRoot: the `not root_record` test of line 148
\* repeated after the decode, so a None decode also returns 1.
MainDecodeRootExitOnNone ==
  /\ pc = "main"
  /\ root \notin NoRoot
  /\ LET d == DecodeRecord(root.len, root.b0) IN
       CASE IsRaise(d) -> pc' = "done" /\ outcome' = d /\ UNCHANGED root
         [] d = None   -> pc' = "done" /\ outcome' = Exit(1) /\ UNCHANGED root
         [] OTHER      -> pc' = "kernel" /\ root' = d /\ UNCHANGED outcome
  /\ UNCHANGED << image, sig, sector >>

\* Line 152: root_record = parse_directory_record(root_record).  A zero
\* first byte yields None and main goes on to the kernel candidates.
MainDecodeRoot ==
  /\ pc = "main"
  /\ root \notin NoRoot
  /\ LET d == DecodeRecord(root.len, root.b0) IN
       IF IsRaise(d)
         THEN /\ pc' = "done" /\ outcome' = d /\ UNCHANGED root
         ELSE /\ pc' = "kernel" /\ root' = d /\ UNCHANGED outcome
  /\ UNCHANGED << image, sig, sector >>

\* Lines 164-166 and 79-86: the first candidate ['install.amd', 'vmlinuz']
\* is non-empty, so find_file_in_path sets current = root_record and
\* evaluates current['is_dir']; on None that raises TypeError.
MainFindKernel ==
  /\ pc = "kernel"
  /\ root = None
  /\ pc' = "done"
  /\ outcome' = Raise("TypeError")
  /\ UNCHANGED << image, sig, sector, root >>

\* The process has ended.
Terminated ==
  /\ pc = "done"
  /\ UNCHANGED vars

Next ==
  \/ ScanPastEnd \/ ScanSkip \/ ScanPrimary \/ ScanTerminator
  \/ MainNoPvd \/ MainDecodeRoot \/ MainFindKernel
  \/ Terminated

\* main runs to completion on one thread: every enabled step is taken.
Spec == Init /\ [][Next]_vars /\ WF_vars(Next)

-----------------------------------------------------------------------------
(* Properties.                                                             *)

RootInfo == [kind : {"root"}, len : 0..34, b0 : RootBytes]

\* Every variable keeps its type.
TypeOK ==
  /\ image \in Images
  /\ sig \in BOOLEAN
  /\ sector \in 1..(MaxSectors + 1)
  /\ root \in {None} \cup RootInfo
  /\ pc \in {"scan", "main", "kernel", "done"}
  /\ outcome \in {None, Exit(1)} \cup [kind : {"raise"}, exc : {"IndexError",
                   "StructError", "UnicodeDecodeError", "TypeError"}]

\* The index of the sector the scan stops at: the first one whose type
\* code is 1 or 255 (0 when there is none).
StopAt(img) ==
  IF \E k \in 1..Len(img) : img[k].type \in {1, 255}
    THEN CHOOSE k \in 1..Len(img) : img[k].type \in {1, 255}
                                    /\ \A j \in 1..(k-1) : img[j].type \notin {1, 255}
    ELSE 0

\* The scan (lines 16-48) returns the root record of the FIRST Primary
\* Volume Descriptor, and only if no Set Terminator comes before it: a
\* root record held by main is the parse of sector StopAt(image), which is
\* of type 1.
ScanFindsFirstPrimary ==
  pc = "main" /\ root # None =>
    /\ StopAt(image) > 0
    /\ image[StopAt(image)].type = 1
    /\ root = PvdParse(image[StopAt(image)])

\* main returns 1 (line 150) only when the image really has no usable
\* PVD: the scan met the terminator first, or the PVD's root-record field
\* is cut off by the end of the image.
ExitOneOnlyWithoutPvd ==
  outcome = Exit(1) =>
    \/ StopAt(image) = 0
    \/ image[StopAt(image)].type = 255
    \/ PvdParse(image[StopAt(image)]).len = 0

\* The scan loop ends on every image, even one with neither a PVD nor a
\* terminator (line 18 then raises), so main always terminates.
MainTerminates == <>(pc = "done")

\* The first descriptor the scan stops at is a complete, ASCII-clean PVD.
WellFormedPvd(img) ==
  /\ StopAt(img) > 0
  /\ img[StopAt(img)].type = 1
  /\ img[StopAt(img)].len = SectorLen
  /\ img[StopAt(img)].ascii

\* Spec sections 6-7: when the kernel cannot be resolved structurally the
\* orchestrator falls back to the signature scan, and the process exits 0
\* when the kernel is obtained by either; it never ends in an uncaught
\* exception.  Checked against main (lines 146-188) on images whose PVD is
\* well formed and which carry the kernel magic.
KernelObtainedWhenMagicPresent ==
  (pc = "done" /\ sig /\ WellFormedPvd(image)) => outcome = Exit(0)

\* Spec section 4.1: the scan returns the PVD's root record or reports
\* MissingVolumeDescriptor; no step of the scan ends the process with an
\* exception.
ScanNeverRaises ==
  [][pc = "scan" /\ pc' = "done" => ~IsRaise(outcome')]_vars
=============================================================================
