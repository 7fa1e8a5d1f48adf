----------------------------- MODULE BitMaskFixes -----------------------------
(***************************************************************************)
(* The two scripts that rewrite the bad_bit_mask comparisons               *)
(* (insn & M) == C of vm-frontend-arm64/src/lib.rs:                        *)
(* src/fix_bad_bit_mask.py and src/fix_all_bad_bit_masks.py.  Each reads   *)
(* the file, applies its re.sub rules in order, and writes it back.        *)
(*                                                                         *)
(* The file is a sequence of sites: the conditions the patterns are        *)
(* written against.  A site has a shape (the text around its comparisons:  *)
(* "or" for A || B, "if_and" for `if A && B) {`, "if_or" for               *)
(* `if A || B || C)`, "if" for `if A`) and its comparisons, each a mask    *)
(* and a constant.  Sites do not overlap, so a re.sub over the whole text  *)
(* is the same rewrite applied to every site.                              *)
(***************************************************************************)
EXTENDS Integers, Sequences

Word == 0..(2^32 - 1)

Cmp(m, c) == [m |-> m, c |-> c]

\* Bit i of n.
Bit(n, i) == (n \div 2^i) % 2

\* (x & cmp.m) == cmp.c, bit by bit, for 32-bit x and constants.
Holds(x, cmp) == \A i \in 0..31 : Bit(x, i) * Bit(cmp.m, i) = Bit(cmp.c, i)

\* A comparison some instruction word satisfies.
CanHold(cmp) == \E x \in Word : Holds(x, cmp)

Site(shape, cmps) == [shape |-> shape, cmps |-> cmps]

\* The conditions the rules are written against.
CmpTail == Cmp(2096128, 2031616)                       \* (insn & 0x1FFC00) == 0x1F0000
NegSite == Site("or", << Cmp(534773760, 1258291200),   \* 0x1FE00000, 0x4B000000
                         Cmp(534773760, 1260388352) >>) \* 0x1FE00000, 0x4B200000
CmpSite == Site("if_and", << Cmp(534773760, 1258291200), CmpTail >>)
CmnSite == Site("if_and", << Cmp(534773760, 721420288), CmpTail >>) \* 0x2B000000
LdrSite == Site("if_or", << Cmp(1056964608, 956301312),  \* 0x3F000000, 0x39000000
                            Cmp(1056964608, 956301313),
                            Cmp(1056964608, 956301314) >>)
DivSite == Site("if", << Cmp(528482304, 448790528) >>)  \* 0x1F800000, 0x1AC00000

\* A re.sub whose pattern is a whole site: the site is replaced.
SiteRule(s, from, to) == IF s = from THEN to ELSE s

\* A re.sub whose pattern is one comparison: every occurrence of it, in
\* any site, is replaced.
CmpRule(s, from, to) ==
  Site(s.shape, [k \in DOMAIN s.cmps |-> IF s.cmps[k] = from THEN to ELSE s.cmps[k]])

\* fix_bad_bit_mask.py, lines 15-19: the NEG/NEGS pair widened to
\* 0x1FF00000.
NegWiden(s) ==
  SiteRule(s, NegSite, Site("or", << Cmp(535822336, 1258291200), Cmp(535822336, 1260388352) >>))

\* fix_bad_bit_mask.py, lines 24-28: the CMP check widened to 0x1FF00000.
CmpWiden(s) == SiteRule(s, CmpSite, Site("if_and", << Cmp(535822336, 1258291200), CmpTail >>))

\* fix_bad_bit_mask.py, lines 33-37: the CMN check widened to 0x1FF00000.
CmnWiden(s) == SiteRule(s, CmnSite, Site("if_and", << Cmp(535822336, 721420288), CmpTail >>))

\* The rules of fix_bad_bit_mask.py, in order.
FixBadSite(s) == CmnWiden(CmpWiden(NegWiden(s)))

\* fix_all_bad_bit_masks.py, lines 20-24: the LDR/STR chain cut to its
\* first comparison (the closing parenthesis the pattern consumes is not
\* written back).
LdrCut(s) == SiteRule(s, LdrSite, Site("if", << Cmp(1056964608, 956301312) >>))

\* Lines 276-280: the 0x1FF00000 pair of NEG/NEGS turned into
\* 0x9FF00000 == 0xCB000000 || 0x9FF00000 == 0xCB200000.
NegPairSet(s) ==
  SiteRule(s, Site("or", << Cmp(535822336, 1258291200), Cmp(535822336, 1260388352) >>),
              Site("or", << Cmp(2683305984, 3405774848), Cmp(2683305984, 3407872000) >>))

\* Lines 285-289: every 0x1FE00000 == 0x4B000000 into
\* 0x9FE00000 == 0xCB000000.
NegCmpSet(s) == CmpRule(s, Cmp(534773760, 1258291200), Cmp(2682257408, 3405774848))

\* Lines 308-312: every 0x1FE00000 == 0x2B000000 into
\* 0x9FE00000 == 0x2B000000.
CmnCmpSet(s) == CmpRule(s, Cmp(534773760, 721420288), Cmp(2682257408, 721420288))

\* Lines 380-384: the DIV mask 0x1F800000 widened to 0x1FC00000.
DivWiden(s) == CmpRule(s, Cmp(528482304, 448790528), Cmp(532676608, 448790528))

\* The rules of fix_all_bad_bit_masks.py, in order.
FixAllSite(s) == DivWiden(CmnCmpSet(NegCmpSet(NegPairSet(LdrCut(s)))))

Sites == [shape : {"or", "if_and", "if_or", "if"}, cmps : Seq([m : Word, c : Word])]

VARIABLES
  file,   \* the sites of lib.rs, as on disk
  orig    \* history: the sites before either script ran

vars == << file, orig >>

Init == file \in Seq(Sites) /\ orig = file

\* fix_bad_bit_mask.py, run once: read (lines 8-9), rewrite, write
\* (lines 46-47).
RunFixBad == file' = [k \in DOMAIN file |-> FixBadSite(file[k])] /\ UNCHANGED orig

\* fix_all_bad_bit_masks.py, run once: read (lines 8-9), rewrite, write
\* (lines 386-387).
RunFixAll == file' = [k \in DOMAIN file |-> FixAllSite(file[k])] /\ UNCHANGED orig

Next == RunFixBad \/ RunFixAll

Spec == Init /\ [][Next]_vars

-----------------------------------------------------------------------------
(* Properties.                                                             *)

\* Some instruction word makes the site's condition true.
SiteCanHold(s) ==
  \E x \in Word :
    IF s.shape = "if_and" THEN \A k \in DOMAIN s.cmps : Holds(x, s.cmps[k])
    ELSE \E k \in DOMAIN s.cmps : Holds(x, s.cmps[k])

\* The NEG/NEGS, CMP and CMN checks both scripts set out to repair: in
\* whatever order and however often the scripts run, each of these
\* conditions can still never be true, because its constant keeps a bit
\* (30, or 29 for CMN) that its mask clears.
RepairedChecksStayDead ==
  \A k \in DOMAIN orig :
    orig[k] \in {NegSite, CmpSite, CmnSite} => ~SiteCanHold(file[k])
=============================================================================
