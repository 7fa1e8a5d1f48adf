----------------------------- MODULE TodoClassify -----------------------------
(***************************************************************************)
(* src/scripts/classify_todos.py: scan_todos (lines 65-95) finds the       *)
(* TODO/FIXME/XXX/HACK/BUG markers of every .rs and .md file and           *)
(* classify_priority (lines 35-63) gives each a priority from the keywords *)
(* its text and its file path contain.                                     *)
(*                                                                         *)
(* Every test the script makes is `word in text`, a substring test.  A     *)
(* text is therefore abstracted to the set of words of the script that     *)
(* occur in it (after .lower() for the keyword tests, as written for the   *)
(* case-sensitive marker test).  Such a set is not arbitrary: a text that  *)
(* contains a word contains every word inside it.  Inside lists those      *)
(* pairs, computed from the lists of lines 14-33 and the markers of line   *)
(* 84, and Texts keeps only the sets closed under them.                    *)
(***************************************************************************)
EXTENDS Integers, Sequences, FiniteSets

\* Lines 14-20.
HighKeywords ==
  { "core", "critical", "bug", "crash", "security", "memory leak",
    "race condition", "deadlock", "panic", "error", "fail", "broken",
    "fix", "implement", "missing", "incomplete", "not implemented",
    "jit", "aot", "gc", "mmu", "execution", "compilation", "runtime",
    "kvm", "hvf", "whpx", "accel", "device", "io", "interrupt" }

\* Lines 23-27.
MediumKeywords ==
  { "optimize", "performance", "improve", "enhance", "refactor",
    "cleanup", "documentation", "test", "coverage", "monitoring",
    "metrics", "logging", "config", "settings" }

\* Lines 30-33.
LowKeywords ==
  { "nice to have", "future", "later", "optional", "enhancement",
    "polish", "ui", "ux", "cosmetic", "minor", "wait", "depends" }

\* The path words of lines 56 and 59.
LowPathWords == {"test", "example", "bench", "doc"}
HighPathWords == {"core", "engine", "jit", "gc", "mmu", "accel"}

\* The markers of line 84, and DEBUG, the common word that holds one.
Markers == {"TODO", "FIXME", "XXX", "HACK", "BUG"}

Words == HighKeywords \cup MediumKeywords \cup LowKeywords \cup LowPathWords
           \cup HighPathWords \cup Markers \cup {"DEBUG"}

\* << a, b >>: the word a occurs inside the word b.  These are all such
\* pairs among Words.
Inside ==
  { << "doc", "documentation" >>, << "enhance", "enhancement" >>,
    << "implement", "not implemented" >>, << "io", "compilation" >>,
    << "io", "documentation" >>, << "io", "execution" >>,
    << "io", "optional" >>, << "io", "race condition" >>,
    << "BUG", "DEBUG" >> }

\* The texts: sets of words that hold every word inside one of theirs.
Texts == { t \in SUBSET Words : \A p \in Inside : p[2] \in t => p[1] \in t }

\* What re.search(rf'{marker}[:\s]*(.+)', line, re.IGNORECASE) of line 87
\* gives when nothing follows the marker on its line.
NoMatch == "no match"

-----------------------------------------------------------------------------

\* classify_priority(content, file_path), lines 35-63, for the words of
\* content.lower() and of file_path.lower().  Each loop returns on its
\* first hit, and every hit of one loop returns the same value, so a loop
\* is an existential.
ClassifyPriority(content, path) ==
  IF \E kw \in HighKeywords : kw \in content \/ kw \in path THEN "high"
  ELSE IF \E kw \in LowKeywords : kw \in content THEN "low"
  ELSE IF \E kw \in MediumKeywords : kw \in content THEN "medium"
  ELSE IF \E w \in LowPathWords : w \in path THEN "low"
  ELSE IF \E w \in HighPathWords : w \in path THEN "high"
  ELSE "medium"

\* A line of a scanned file: the words in it, as written, and for each
\* marker the words of the stripped text the regex of line 87 captures
\* after it (lowercased by classify_priority), or NoMatch.
Lines == [words : Texts, rest : [Markers -> Texts \cup {NoMatch}]]

\* The names line 72 skips a directory for, when its root path holds one.
SkipWords == {"target", ".git", "node_modules"}

\* A .rs or .md file os.walk reaches (lines 70-80): which skip names its
\* root holds, the words of its path, lowercased, and its lines.
Files == [root : SUBSET SkipWords, path : Texts, lines : Seq(Lines)]

\* scan_todos for one file, lines 81-91: every marker written in a line
\* whose regex matches gives an entry (line number, marker, priority).
Found(l) == { m \in Markers : m \in l.words /\ l.rest[m] # NoMatch }

ScanFile(f) ==
  UNION { { [line |-> n, marker |-> m,
             priority |-> ClassifyPriority(f.lines[n].rest[m], f.path)] :
            m \in Found(f.lines[n]) } : n \in DOMAIN f.lines }

\* scan_todos, lines 65-95, over a project: files indexed by their paths.
\* A file under a root that holds a skip name is never read (line 72).
ScanTodos(project) ==
  UNION { { [file |-> x, line |-> e.line, marker |-> e.marker, priority |-> e.priority] :
            e \in ScanFile(project[x]) } :
          x \in { x \in DOMAIN project : project[x].root = {} } }
=============================================================================
