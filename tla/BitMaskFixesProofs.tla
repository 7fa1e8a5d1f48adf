-------------------------- MODULE BitMaskFixesProofs --------------------------
(***************************************************************************)
(* Proofs about BitMaskFixes, for every file and every order of runs.      *)
(***************************************************************************)
EXTENDS BitMaskFixes, TLAPS

\* A comparison whose constant has bit i set while its mask clears it
\* never holds: (x & m) has bit i clear for every x.
LEMMA DeadBit ==
  ASSUME NEW m \in Nat, NEW c \in Nat, NEW i \in 0..31,
         Bit(c, i) = 1, Bit(m, i) = 0
  PROVE  \A x \in Word : ~Holds(x, Cmp(m, c))
<1>. SUFFICES ASSUME NEW x \in Word, Holds(x, Cmp(m, c)) PROVE FALSE
  BY Zenon
<1>1. Bit(x, i) * Bit(m, i) = Bit(c, i)
  BY DEF Holds, Cmp
<1>2. Bit(x, i) \in Int
  BY DEF Bit, Word
<1>. QED
  BY <1>1, <1>2

\* The comparisons the rewrites leave in the NEG/NEGS, CMP and CMN checks,
\* each with the bit that kills it.
LEMMA DeadCmps ==
  /\ \A x \in Word : ~Holds(x, Cmp(534773760, 1258291200))   \* 0x1FE00000, 0x4B000000
  /\ \A x \in Word : ~Holds(x, Cmp(534773760, 1260388352))   \* 0x1FE00000, 0x4B200000
  /\ \A x \in Word : ~Holds(x, Cmp(535822336, 1258291200))   \* 0x1FF00000, 0x4B000000
  /\ \A x \in Word : ~Holds(x, Cmp(535822336, 1260388352))   \* 0x1FF00000, 0x4B200000
  /\ \A x \in Word : ~Holds(x, Cmp(2683305984, 3405774848))  \* 0x9FF00000, 0xCB000000
  /\ \A x \in Word : ~Holds(x, Cmp(2683305984, 3407872000))  \* 0x9FF00000, 0xCB200000
  /\ \A x \in Word : ~Holds(x, Cmp(2682257408, 3405774848))  \* 0x9FE00000, 0xCB000000
  /\ \A x \in Word : ~Holds(x, Cmp(534773760, 721420288))    \* 0x1FE00000, 0x2B000000
  /\ \A x \in Word : ~Holds(x, Cmp(535822336, 721420288))    \* 0x1FF00000, 0x2B000000
  /\ \A x \in Word : ~Holds(x, Cmp(2682257408, 721420288))   \* 0x9FE00000, 0x2B000000
<1>1. Bit(1258291200, 30) = 1 /\ Bit(1260388352, 30) = 1 /\ Bit(3405774848, 30) = 1
      /\ Bit(3407872000, 30) = 1 /\ Bit(721420288, 29) = 1
  BY DEF Bit
<1>2. /\ Bit(534773760, 30) = 0 /\ Bit(535822336, 30) = 0
      /\ Bit(2683305984, 30) = 0 /\ Bit(2682257408, 30) = 0
      /\ Bit(534773760, 29) = 0 /\ Bit(535822336, 29) = 0 /\ Bit(2682257408, 29) = 0
  BY DEF Bit
<1>. QED
  BY <1>1, <1>2, DeadBit

-----------------------------------------------------------------------------
(* The forms the NEG/NEGS, CMP and CMN checks take under the two scripts.  *)

NegFF    == Site("or", << Cmp(535822336, 1258291200), Cmp(535822336, 1260388352) >>)
Neg9FF   == Site("or", << Cmp(2683305984, 3405774848), Cmp(2683305984, 3407872000) >>)
NegMixed == Site("or", << Cmp(2682257408, 3405774848), Cmp(534773760, 1260388352) >>)
CmpFF    == Site("if_and", << Cmp(535822336, 1258291200), CmpTail >>)
Cmp9FE   == Site("if_and", << Cmp(2682257408, 3405774848), CmpTail >>)
CmnFF    == Site("if_and", << Cmp(535822336, 721420288), CmpTail >>)
Cmn9FE   == Site("if_and", << Cmp(2682257408, 721420288), CmpTail >>)

DeadForms == {NegSite, NegFF, Neg9FF, NegMixed, CmpSite, CmpFF, Cmp9FE,
              CmnSite, CmnFF, Cmn9FE}

\* fix_bad_bit_mask.py takes each form to a form.
LEMMA FixBadClosed == \A s \in DeadForms : FixBadSite(s) \in DeadForms
<1>. SUFFICES ASSUME NEW s \in DeadForms PROVE FixBadSite(s) \in DeadForms
  OBVIOUS
<1>. USE DEF DeadForms, FixBadSite, NegWiden, CmpWiden, CmnWiden, SiteRule, Site, Cmp, CmpTail,
             NegSite, CmpSite, CmnSite, NegFF, Neg9FF, NegMixed, CmpFF, Cmp9FE, CmnFF, Cmn9FE
<1>1. CASE s = NegSite  BY <1>1
<1>2. CASE s = NegFF    BY <1>2
<1>3. CASE s = Neg9FF   BY <1>3
<1>4. CASE s = NegMixed BY <1>4
<1>5. CASE s = CmpSite  BY <1>5
<1>6. CASE s = CmpFF    BY <1>6
<1>7. CASE s = Cmp9FE   BY <1>7
<1>8. CASE s = CmnSite  BY <1>8
<1>9. CASE s = CmnFF    BY <1>9
<1>10. CASE s = Cmn9FE  BY <1>10
<1>. HIDE DEF FixBadSite, NegWiden, CmpWiden, CmnWiden, SiteRule, Site, Cmp, CmpTail,
              NegSite, CmpSite, CmnSite, NegFF, Neg9FF, NegMixed, CmpFF, Cmp9FE, CmnFF, Cmn9FE
<1>. QED
  BY <1>1, <1>2, <1>3, <1>4, <1>5, <1>6, <1>7, <1>8, <1>9, <1>10

\* A comparison rule applied to a site of two comparisons rewrites each.
LEMMA CmpRulePair ==
  ASSUME NEW sh, NEW a, NEW b, NEW from, NEW to
  PROVE  CmpRule(Site(sh, << a, b >>), from, to)
           = Site(sh, << IF a = from THEN to ELSE a, IF b = from THEN to ELSE b >>)
BY DEF CmpRule, Site

\* The three comparison rules of fix_all_bad_bit_masks.py, in order, on one
\* comparison.
CmpFix(c) ==
  LET c3 == IF c = Cmp(534773760, 1258291200) THEN Cmp(2682257408, 3405774848) ELSE c
      c4 == IF c3 = Cmp(534773760, 721420288) THEN Cmp(2682257408, 721420288) ELSE c3
  IN  IF c4 = Cmp(528482304, 448790528) THEN Cmp(532676608, 448790528) ELSE c4

\* On a two-comparison site that neither site rule matches,
\* fix_all_bad_bit_masks.py rewrites each comparison on its own.
LEMMA FixAllPair ==
  ASSUME NEW sh, NEW a, NEW b,
         Site(sh, << a, b >>) # LdrSite,
         Site(sh, << a, b >>) # NegFF
  PROVE  FixAllSite(Site(sh, << a, b >>)) = Site(sh, << CmpFix(a), CmpFix(b) >>)
<1>. DEFINE s == Site(sh, << a, b >>)
            F3(c) == IF c = Cmp(534773760, 1258291200) THEN Cmp(2682257408, 3405774848) ELSE c
            F4(c) == IF c = Cmp(534773760, 721420288) THEN Cmp(2682257408, 721420288) ELSE c
            F5(c) == IF c = Cmp(528482304, 448790528) THEN Cmp(532676608, 448790528) ELSE c
<1>1. LdrCut(s) = s
  BY DEF LdrCut, SiteRule
<1>2. NegPairSet(s) = s
  BY DEF NegPairSet, SiteRule, NegFF
<1>3. NegCmpSet(s) = Site(sh, << F3(a), F3(b) >>)
  BY CmpRulePair DEF NegCmpSet
<1>4. CmnCmpSet(Site(sh, << F3(a), F3(b) >>)) = Site(sh, << F4(F3(a)), F4(F3(b)) >>)
  BY CmpRulePair DEF CmnCmpSet
<1>5. DivWiden(Site(sh, << F4(F3(a)), F4(F3(b)) >>)) = Site(sh, << F5(F4(F3(a))), F5(F4(F3(b))) >>)
  BY CmpRulePair DEF DivWiden
<1>6. \A c : CmpFix(c) = F5(F4(F3(c)))
  BY DEF CmpFix
<1>. QED
  BY <1>1, <1>2, <1>3, <1>4, <1>5, <1>6 DEF FixAllSite

\* Rule 2 of fix_all_bad_bit_masks.py (lines 276-280) takes the pair that
\* fix_bad_bit_mask.py wrote to 0x9FF00000, and the rules after it leave
\* that pair alone.
LEMMA FixAllNegFF == FixAllSite(NegFF) = Neg9FF
<1>. DEFINE a == Cmp(2683305984, 3405774848)
            b == Cmp(2683305984, 3407872000)
<1>1. LdrCut(NegFF) = NegFF
  BY DEF LdrCut, SiteRule, NegFF, LdrSite, Site, Cmp
<1>2. NegPairSet(NegFF) = Site("or", << a, b >>)
  BY DEF NegPairSet, SiteRule, NegFF
<1>3. NegCmpSet(Site("or", << a, b >>)) = Site("or", << a, b >>)
  BY CmpRulePair DEF NegCmpSet, Cmp
<1>4. CmnCmpSet(Site("or", << a, b >>)) = Site("or", << a, b >>)
  BY CmpRulePair DEF CmnCmpSet, Cmp
<1>5. DivWiden(Site("or", << a, b >>)) = Neg9FF
  BY CmpRulePair DEF DivWiden, Cmp, Neg9FF
<1>. QED
  BY <1>1, <1>2, <1>3, <1>4, <1>5 DEF FixAllSite

\* fix_all_bad_bit_masks.py takes each form to a form.
LEMMA FixAllClosed == \A s \in DeadForms : FixAllSite(s) \in DeadForms
<1>. SUFFICES ASSUME NEW s \in DeadForms PROVE FixAllSite(s) \in DeadForms
  OBVIOUS
<1>. USE DEF DeadForms, Site, Cmp, CmpTail, CmpFix, LdrSite,
             NegSite, CmpSite, CmnSite, NegFF, Neg9FF, NegMixed, CmpFF, Cmp9FE, CmnFF, Cmn9FE
<1>1. CASE s = NegFF
  BY <1>1, FixAllNegFF
<1>2. CASE s # NegFF
  <2>1. PICK sh, a, b : s = Site(sh, << a, b >>)
    OBVIOUS
  <2>2. FixAllSite(s) = Site(sh, << CmpFix(a), CmpFix(b) >>)
    <3>1. Site(sh, << a, b >>) # LdrSite /\ Site(sh, << a, b >>) # NegFF
      BY <1>2, <2>1
    <3>. HIDE DEF DeadForms, Site, Cmp, CmpTail, CmpFix, LdrSite,
                  NegSite, CmpSite, CmnSite, NegFF, Neg9FF, NegMixed, CmpFF, Cmp9FE, CmnFF, Cmn9FE
    <3>. QED
      BY <2>1, <3>1, FixAllPair, Zenon
  <2>3. CASE s = NegSite
    BY <2>1, <2>2, <2>3, SMTT(30)
  <2>4. CASE s = Neg9FF
    BY <2>1, <2>2, <2>4, SMTT(30)
  <2>5. CASE s = NegMixed
    BY <2>1, <2>2, <2>5, SMTT(30)
  <2>6. CASE s = CmpSite
    BY <2>1, <2>2, <2>6, SMTT(30)
  <2>7. CASE s = CmpFF
    BY <2>1, <2>2, <2>7, SMTT(30)
  <2>8. CASE s = Cmp9FE
    BY <2>1, <2>2, <2>8, SMTT(30)
  <2>9. CASE s = CmnSite
    BY <2>1, <2>2, <2>9, SMTT(30)
  <2>10. CASE s = CmnFF
    BY <2>1, <2>2, <2>10, SMTT(30)
  <2>11. CASE s = Cmn9FE
    BY <2>1, <2>2, <2>11, SMTT(30)
  <2>. HIDE DEF Site, Cmp, CmpTail, CmpFix, LdrSite,
                NegSite, CmpSite, CmnSite, NegFF, Neg9FF, NegMixed, CmpFF, Cmp9FE, CmnFF, Cmn9FE
  <2>. QED
    BY <1>2, <2>3, <2>4, <2>5, <2>6, <2>7, <2>8, <2>9, <2>10, <2>11
<1>. HIDE DEF DeadForms, Site, Cmp, CmpTail, CmpFix, LdrSite,
              NegSite, CmpSite, CmnSite, NegFF, Neg9FF, NegMixed, CmpFF, Cmp9FE, CmnFF, Cmn9FE
<1>. QED
  BY <1>1, <1>2

\* A disjunction of two comparisons that never hold never holds.
LEMMA OrDead ==
  ASSUME NEW a, NEW b, \A x \in Word : ~Holds(x, a), \A x \in Word : ~Holds(x, b)
  PROVE  ~SiteCanHold(Site("or", << a, b >>))
<1>. SUFFICES ASSUME NEW x \in Word, NEW k \in 1..2, Holds(x, << a, b >>[k]) PROVE FALSE
  BY DEF SiteCanHold, Site
<1>. QED
  BY k = 1 \/ k = 2

\* A conjunction whose first comparison never holds never holds.
LEMMA AndDead ==
  ASSUME NEW a, NEW b, \A x \in Word : ~Holds(x, a)
  PROVE  ~SiteCanHold(Site("if_and", << a, b >>))
<1>. SUFFICES ASSUME NEW x \in Word, \A k \in 1..2 : Holds(x, << a, b >>[k]) PROVE FALSE
  BY DEF SiteCanHold, Site
<1>1. Holds(x, a)
  BY 1 \in 1..2
<1>. QED
  BY <1>1

\* No instruction word satisfies any of the forms.
LEMMA FormsDead == \A s \in DeadForms : ~SiteCanHold(s)
<1>. SUFFICES ASSUME NEW s \in DeadForms PROVE ~SiteCanHold(s)
  OBVIOUS
<1>. USE DeadCmps DEF CmpTail
<1>1. CASE s = NegSite  BY <1>1, OrDead DEF NegSite
<1>2. CASE s = NegFF    BY <1>2, OrDead DEF NegFF
<1>3. CASE s = Neg9FF   BY <1>3, OrDead DEF Neg9FF
<1>4. CASE s = NegMixed BY <1>4, OrDead DEF NegMixed
<1>5. CASE s = CmpSite  BY <1>5, AndDead DEF CmpSite
<1>6. CASE s = CmpFF    BY <1>6, AndDead DEF CmpFF
<1>7. CASE s = Cmp9FE   BY <1>7, AndDead DEF Cmp9FE
<1>8. CASE s = CmnSite  BY <1>8, AndDead DEF CmnSite
<1>9. CASE s = CmnFF    BY <1>9, AndDead DEF CmnFF
<1>10. CASE s = Cmn9FE  BY <1>10, AndDead DEF Cmn9FE
<1>. QED
  BY <1>1, <1>2, <1>3, <1>4, <1>5, <1>6, <1>7, <1>8, <1>9, <1>10 DEF DeadForms

-----------------------------------------------------------------------------
(* The NEG/NEGS, CMP and CMN checks stay dead.  The invariant is inductive *)
(* once the checks are known to stay among the forms above.                *)

IInv ==
  /\ DOMAIN file = DOMAIN orig
  /\ \A k \in DOMAIN orig : orig[k] \in {NegSite, CmpSite, CmnSite} => file[k] \in DeadForms

LEMMA InitIInv == Init => IInv
BY DEF Init, IInv, DeadForms

LEMMA NextIInv == IInv /\ [Next]_vars => IInv'
<1>. SUFFICES ASSUME IInv, [Next]_vars PROVE IInv'
  OBVIOUS
<1>1. CASE RunFixBad
  <2>. SUFFICES ASSUME NEW k \in DOMAIN orig, orig[k] \in {NegSite, CmpSite, CmnSite}
               PROVE  FixBadSite(file[k]) \in DeadForms
    BY <1>1 DEF IInv, RunFixBad
  <2>. QED
    BY FixBadClosed DEF IInv
<1>2. CASE RunFixAll
  <2>. SUFFICES ASSUME NEW k \in DOMAIN orig, orig[k] \in {NegSite, CmpSite, CmnSite}
               PROVE  FixAllSite(file[k]) \in DeadForms
    BY <1>2 DEF IInv, RunFixAll
  <2>. QED
    BY FixAllClosed DEF IInv
<1>3. CASE UNCHANGED vars
  BY <1>3 DEF IInv, vars
<1>. QED
  BY <1>1, <1>2, <1>3 DEF Next

\* Running fix_bad_bit_mask.py and fix_all_bad_bit_masks.py, in any order
\* and any number of times, on any file, never makes the NEG/NEGS, CMP or
\* CMN checks of lib.rs satisfiable: the bad_bit_mask they target stays.
THEOREM RepairsStayDead == Spec => []RepairedChecksStayDead
<1>1. IInv => RepairedChecksStayDead
  BY FormsDead DEF IInv, RepairedChecksStayDead
<1>. QED
  BY <1>1, InitIInv, NextIInv, PTL DEF Spec

-----------------------------------------------------------------------------
(* The order the two scripts run in.                                       *)

\* fix_bad_bit_mask.py rewrites both masks of the NEG/NEGS pair.
LEMMA FixBadNeg == FixBadSite(NegSite) = NegFF
BY DEF FixBadSite, NegWiden, CmpWiden, CmnWiden, SiteRule, NegSite, NegFF, CmpSite, CmnSite, Site, Cmp, CmpTail

\* fix_all_bad_bit_masks.py, run on the original pair, rewrites only its
\* first comparison (line 286); the second keeps the 0x1FE00000 mask.
LEMMA FixAllNeg == FixAllSite(NegSite) = NegMixed
<1>1. NegSite # LdrSite /\ NegSite # NegFF
  BY DEF NegSite, LdrSite, NegFF, Site, Cmp
<1>2. FixAllSite(NegSite) = Site("or", << CmpFix(Cmp(534773760, 1258291200)),
                                         CmpFix(Cmp(534773760, 1260388352)) >>)
  BY <1>1, FixAllPair DEF NegSite
<1>. QED
  BY <1>2 DEF CmpFix, NegMixed, Cmp

\* fix_bad_bit_mask.py leaves the half-rewritten pair alone.
LEMMA FixBadMixed == FixBadSite(NegMixed) = NegMixed
BY DEF FixBadSite, NegWiden, CmpWiden, CmnWiden, SiteRule, NegSite, NegMixed, CmpSite, CmnSite, Site, Cmp, CmpTail

\* The two scripts do not commute: run on the NEG/NEGS check, fix_bad then
\* fix_all leaves both comparisons with mask 0x9FF00000, fix_all then
\* fix_bad leaves masks 0x9FE00000 and 0x1FE00000.
THEOREM OrderMatters ==
  FixAllSite(FixBadSite(NegSite)) # FixBadSite(FixAllSite(NegSite))
<1>1. FixAllSite(FixBadSite(NegSite)) = Neg9FF
  BY FixBadNeg, FixAllNegFF
<1>2. FixBadSite(FixAllSite(NegSite)) = NegMixed
  BY FixAllNeg, FixBadMixed
<1>3. Neg9FF # NegMixed
  BY DEF Neg9FF, NegMixed, Site, Cmp
<1>. QED
  BY <1>1, <1>2, <1>3

-----------------------------------------------------------------------------
(* The one repair among the rewrites.                                      *)

\* fix_all_bad_bit_masks.py widens the DIV mask 0x1F800000 to 0x1FC00000
\* (lines 380-384), and no earlier rule touches that check.
LEMMA FixAllDiv == FixAllSite(DivSite) = Site("if", << Cmp(532676608, 448790528) >>)
<1>1. LdrCut(DivSite) = DivSite
  BY DEF LdrCut, SiteRule, DivSite, LdrSite, Site, Cmp
<1>2. NegPairSet(DivSite) = DivSite
  BY DEF NegPairSet, SiteRule, DivSite, Site, Cmp
<1>3. ASSUME NEW e, NEW from, NEW to
      PROVE  CmpRule(Site("if", << e >>), from, to) = Site("if", << IF e = from THEN to ELSE e >>)
  BY DEF CmpRule, Site
<1>4. NegCmpSet(DivSite) = DivSite
  BY <1>3 DEF NegCmpSet, DivSite, Cmp
<1>5. CmnCmpSet(DivSite) = DivSite
  BY <1>3 DEF CmnCmpSet, DivSite, Cmp
<1>6. DivWiden(DivSite) = Site("if", << Cmp(532676608, 448790528) >>)
  BY <1>3 DEF DivWiden, DivSite
<1>. QED
  BY <1>1, <1>2, <1>4, <1>5, <1>6 DEF FixAllSite

\* 0x1AC00000 has bit 22 set, which 0x1F800000 clears and 0x1FC00000 keeps.
LEMMA DivBits ==
  /\ Bit(448790528, 22) = 1 /\ Bit(528482304, 22) = 0
  /\ \A i \in 0..31 : Bit(448790528, i) = 1 => Bit(532676608, i) = 1
<1>1. Bit(448790528, 22) = 1 /\ Bit(528482304, 22) = 0
  BY DEF Bit
<1>2. ASSUME NEW i \in 0..31 PROVE Bit(448790528, i) = 1 => Bit(532676608, i) = 1
  <2>0. CASE i = 0  BY <2>0 DEF Bit
  <2>1. CASE i = 1  BY <2>1 DEF Bit
  <2>2. CASE i = 2  BY <2>2 DEF Bit
  <2>3. CASE i = 3  BY <2>3 DEF Bit
  <2>4. CASE i = 4  BY <2>4 DEF Bit
  <2>5. CASE i = 5  BY <2>5 DEF Bit
  <2>6. CASE i = 6  BY <2>6 DEF Bit
  <2>7. CASE i = 7  BY <2>7 DEF Bit
  <2>8. CASE i = 8  BY <2>8 DEF Bit
  <2>9. CASE i = 9  BY <2>9 DEF Bit
  <2>10. CASE i = 10  BY <2>10 DEF Bit
  <2>11. CASE i = 11  BY <2>11 DEF Bit
  <2>12. CASE i = 12  BY <2>12 DEF Bit
  <2>13. CASE i = 13  BY <2>13 DEF Bit
  <2>14. CASE i = 14  BY <2>14 DEF Bit
  <2>15. CASE i = 15  BY <2>15 DEF Bit
  <2>16. CASE i = 16  BY <2>16 DEF Bit
  <2>17. CASE i = 17  BY <2>17 DEF Bit
  <2>18. CASE i = 18  BY <2>18 DEF Bit
  <2>19. CASE i = 19  BY <2>19 DEF Bit
  <2>20. CASE i = 20  BY <2>20 DEF Bit
  <2>21. CASE i = 21  BY <2>21 DEF Bit
  <2>22. CASE i = 22  BY <2>22 DEF Bit
  <2>23. CASE i = 23  BY <2>23 DEF Bit
  <2>24. CASE i = 24  BY <2>24 DEF Bit
  <2>25. CASE i = 25  BY <2>25 DEF Bit
  <2>26. CASE i = 26  BY <2>26 DEF Bit
  <2>27. CASE i = 27  BY <2>27 DEF Bit
  <2>28. CASE i = 28  BY <2>28 DEF Bit
  <2>29. CASE i = 29  BY <2>29 DEF Bit
  <2>30. CASE i = 30  BY <2>30 DEF Bit
  <2>31. CASE i = 31  BY <2>31 DEF Bit
  <2>. QED
    BY <2>0, <2>1, <2>2, <2>3, <2>4, <2>5, <2>6, <2>7, <2>8, <2>9, <2>10, <2>11, <2>12, <2>13, <2>14, <2>15, <2>16, <2>17, <2>18, <2>19, <2>20, <2>21, <2>22, <2>23, <2>24, <2>25, <2>26, <2>27, <2>28, <2>29, <2>30, <2>31
<1>. QED
  BY <1>1, <1>2

\* The DIV check of lib.rs can never hold before fix_all_bad_bit_masks.py
\* runs, and the instruction 0x1AC00000 satisfies it after.
THEOREM DivRepaired ==
  ~SiteCanHold(DivSite) /\ SiteCanHold(FixAllSite(DivSite))
<1>1. ~SiteCanHold(DivSite)
  <2>1. \A x \in Word : ~Holds(x, Cmp(528482304, 448790528))
    BY DivBits, DeadBit
  <2>. QED
    BY <2>1 DEF SiteCanHold, DivSite, Site
<1>2. Holds(448790528, Cmp(532676608, 448790528))
  <2>. SUFFICES ASSUME NEW i \in 0..31
                PROVE  Bit(448790528, i) * Bit(532676608, i) = Bit(448790528, i)
    BY DEF Holds, Cmp
  <2>1. Bit(448790528, i) \in {0, 1} /\ Bit(532676608, i) \in {0, 1}
    BY DEF Bit
  <2>. QED
    BY <2>1, DivBits
<1>3. 448790528 \in Word
  BY DEF Word
<1>. QED
  BY <1>1, <1>2, <1>3, FixAllDiv DEF SiteCanHold, Site
=============================================================================
