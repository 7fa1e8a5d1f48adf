-------------------------- MODULE TodoClassifyProofs --------------------------
(***************************************************************************)
(* What classify_todos.py (module TodoClassify) does with every TODO of    *)
(* every project, proved over all texts and paths.  Each fact comes from   *)
(* one keyword or marker lying inside another, which the script's          *)
(* substring tests cannot tell apart.                                      *)
(***************************************************************************)
EXTENDS TodoClassify, TLAPS

\* Two facts of Texts: a text holding "optional" or "documentation" holds
\* "io"; a line holding "DEBUG" holds "BUG".
LEMMA InsideIo ==
  ASSUME NEW c \in Texts, "optional" \in c \/ "documentation" \in c
  PROVE  "io" \in c
<1>1. << "io", "optional" >> \in Inside /\ << "io", "documentation" >> \in Inside
  BY DEF Inside
<1>. QED
  BY <1>1 DEF Texts

LEMMA InsideBug ==
  ASSUME NEW t \in Texts, "DEBUG" \in t
  PROVE  "BUG" \in t
<1>1. << "BUG", "DEBUG" >> \in Inside
  BY DEF Inside
<1>. QED
  BY <1>1 DEF Texts

\* classify_priority (lines 41-43) gives "high" to every TODO whose text
\* says "optional" (a low keyword, line 31) or "documentation" (a medium
\* keyword, line 25): both hold the high keyword "io", so the loops of
\* lines 46 and 51 never see them and these two keywords decide nothing.
THEOREM ShadowedKeywordsHigh ==
  ASSUME NEW c \in Texts, NEW p \in Texts,
         "optional" \in c \/ "documentation" \in c
  PROVE  ClassifyPriority(c, p) = "high"
<1>1. "io" \in c
  BY InsideIo
<1>2. "io" \in HighKeywords
  BY DEF HighKeywords
<1>. QED
  BY <1>1, <1>2 DEF ClassifyPriority

\* The path loop of lines 59-60 makes a TODO "high" only when its path
\* says "engine": its other words (core, jit, gc, mmu, accel) are high
\* keywords that lines 41-43 already test against the same path.
THEOREM PathRuleOnlyEngine ==
  ASSUME NEW c \in Texts, NEW p \in Texts,
         ClassifyPriority(c, p) = "high",
         \A kw \in HighKeywords : kw \notin c /\ kw \notin p
  PROVE  "engine" \in p
<1>1. HighPathWords \ {"engine"} \subseteq HighKeywords
  BY Zenon DEF HighPathWords, HighKeywords
<1>2. \E w \in HighPathWords : w \in p
  BY DEF ClassifyPriority
<1>. QED
  BY <1>1, <1>2 DEF HighPathWords

\* scan_todos reports a BUG entry (lines 84-91) for a line that only says
\* DEBUG: "BUG" in line is a substring test, and the regex of line 87
\* matches "BUG" inside "DEBUG".
THEOREM DebugReportedAsBug ==
  ASSUME NEW f \in Files, NEW n \in DOMAIN f.lines,
         "DEBUG" \in f.lines[n].words, f.lines[n].rest["BUG"] # NoMatch
  PROVE  \E e \in ScanFile(f) : e.line = n /\ e.marker = "BUG"
<1>1. f.lines[n] \in Lines
  BY DEF Files
<1>2. "BUG" \in Found(f.lines[n])
  BY <1>1, InsideBug DEF Lines, Found, Markers
<1>. DEFINE e == [line |-> n, marker |-> "BUG",
                  priority |-> ClassifyPriority(f.lines[n].rest["BUG"], f.path)]
<1>3. e \in ScanFile(f)
  BY <1>2 DEF ScanFile
<1>. QED
  BY <1>3

\* A line that holds two markers (say "TODO" and "FIXME", or "DEBUG" and
\* "TODO") is appended once per marker (the loop of line 84 does not break),
\* so the report counts one TODO twice.
THEOREM OneLineTwoEntries ==
  ASSUME NEW f \in Files, NEW n \in DOMAIN f.lines,
         NEW m1 \in Found(f.lines[n]), NEW m2 \in Found(f.lines[n]), m1 # m2
  PROVE  \E e1, e2 \in ScanFile(f) : e1.line = n /\ e2.line = n /\ e1 # e2
<1>. DEFINE e(m) == [line |-> n, marker |-> m,
                     priority |-> ClassifyPriority(f.lines[n].rest[m], f.path)]
<1>1. e(m1) \in ScanFile(f) /\ e(m2) \in ScanFile(f)
  BY DEF ScanFile
<1>2. e(m1) # e(m2)
  OBVIOUS
<1>. QED
  BY <1>1, <1>2
=============================================================================
