----------------------------- MODULE TodoCleanup -----------------------------
(***************************************************************************)
(* The interactive batch cleanup of src/scripts/cleanup_todos.py:          *)
(* cleanup_batch (lines 200-247) running cleanup_file_interactive (lines   *)
(* 152-198) on each file, whose choices call replace_todo_with_issue       *)
(* (lines 73-93) and remove_todo (lines 95-116), each of which first       *)
(* calls create_backup (lines 44-50).                                      *)
(*                                                                         *)
(* A file is a sequence of lines; a line keeps an identity (its number in  *)
(* the original file, 0 for a line the script inserts) and its kind, the   *)
(* only thing the regular expressions of the script tell apart:            *)
(*   "code"   no comment the patterns match                                *)
(*   "todo"   a line that is only "// TODO: ..." (or FIXME)                *)
(*   "trail"  code followed by "// TODO: ..."                              *)
(*   "note"   a comment-only line that mentions TODO without the colon     *)
(*   "issue"  a comment-only line "// See: Issue #n - title"               *)
(*   "blank"  an empty line                                                *)
(* The backup directory maps a backup name, the file's base name and the   *)
(* time in seconds (line 47), to the content copied there.                 *)
(***************************************************************************)
EXTENDS Integers, Sequences, FiniteSets, Functions

\* The sequence helpers of SequencesExt, written over SubSeq so that the
\* module can be reasoned about (SequencesExt reaches RECURSIVE operators).
InsertAt(s, i, e) == SubSeq(s, 1, i - 1) \o << e >> \o SubSeq(s, i, Len(s))
RemoveAt(s, i) == SubSeq(s, 1, i - 1) \o SubSeq(s, i + 1, Len(s))

CONSTANTS
  Batch,       \* files_to_process (lines 206-223), in order
  BaseName,    \* file_path.name of each of them
  MaxLines,    \* most lines of a file
  MaxClock     \* last second the clock reaches

Paths == Range(Batch)

\* files_to_process is a list of sixteen distinct paths.
ASSUME CleanupAssumption ==
  /\ Batch \in Seq(Paths) /\ Len(Batch) > 0
  /\ \A i, j \in 1..Len(Batch) : i # j => Batch[i] # Batch[j]
  /\ BaseName \in [Paths -> STRING]
  /\ MaxLines \in Nat \ {0}
  /\ MaxClock \in Nat

\* Kinds of the lines a file may hold before the script runs.
SourceKinds == {"code", "todo", "trail", "note"}

Line == [id : 0..MaxLines, kind : SourceKinds \cup {"issue", "blank"}]

\* Files of 1..MaxLines lines, each identified by its original number.
SourceFiles ==
  UNION { { [k \in 1..n |-> [id |-> k, kind |-> f[k]]] : f \in [1..n -> SourceKinds] }
          : n \in 1..MaxLines }

VARIABLES
  content,   \* the text of each file, as it is on disk
  original,  \* the text each file had before the script ran
  fi,        \* index in files_to_process of the file being processed
  todos,     \* the (line_num, ...) list find_todos returned for it
  ti,        \* index in todos of the TODO being shown
  backups,   \* BACKUP_DIR: backup name -> the lines copied there
  clock,     \* datetime.now() in whole seconds
  pc

vars == << content, original, fi, todos, ti, backups, clock, pc >>

Init ==
  /\ content \in [Paths -> SourceFiles]
  /\ original = content
  /\ fi = 1
  /\ todos = << >>
  /\ ti = 1
  /\ backups = << >>
  /\ clock = 0
  /\ pc = "next_file"

-----------------------------------------------------------------------------
(* Helpers.                                                                *)

\* The lines of a file that match //\s*(TODO|FIXME):\s*(.+?)$ (line 58).
TodoLines(file) == { k \in 1..Len(file) : file[k].kind \in {"todo", "trail"} }

\* How many lines of H are at or before line k.
Rank(H, k) == Cardinality({ i \in H : i <= k })

\* Fault variant of FindTodos: line numbers counted from 0, as
\* enumerate(f) without its start argument gives them.
FindTodosFromZero(file) ==
  LET H == TodoLines(file) IN
  [j \in 1..Cardinality(H) |->
     LET k == CHOOSE k \in H : Rank(H, k) = j IN [ln |-> k - 1, id |-> file[k].id]]

\* find_todos (lines 52-71): the loop over enumerate(f, 1) appends the
\* matching lines in file order, so its j-th entry is the matching line
\* with j matching lines up to it.  The id of the line is kept beside its
\* number: it is what was shown to the user.
FindTodos(file) ==
  LET H == TodoLines(file) IN
  [j \in 1..Cardinality(H) |->
     LET k == CHOOSE k \in H : Rank(H, k) = j IN [ln |-> k, id |-> file[k].id]]

\* create_backup (lines 44-50): copy2 to BACKUP_DIR/<name>.backup.<second>,
\* replacing a backup of the same name.
Backup(p) ==
  LET name == << BaseName[p], clock >> IN
  backups' = [n \in DOMAIN backups \cup {name} |-> IF n = name THEN content[p] ELSE backups[n]]

\* Fault variant of ReplaceLine: the reference written over whatever line
\* the number points at, as if the re.sub of line 82 always matched.
ReplaceLineAnyKind(file, ln) ==
  IF ln <= Len(file)
    THEN InsertAt([file EXCEPT ![ln] = [id |-> @.id, kind |-> IF @.kind = "trail" THEN "code" ELSE "issue"]],
                  ln + 1, [id |-> 0, kind |-> "blank"])
    ELSE file

\* replace_todo_with_issue, lines 80-89: re.sub replaces "// TODO: ..." up
\* to the end of the line by "// See: Issue #n - title\n"; the line's own
\* newline stays after it, so an empty line follows the reference.
ReplaceLine(file, ln) ==
  IF ln <= Len(file) /\ file[ln].kind \in {"todo", "trail"}
    THEN InsertAt([file EXCEPT ![ln] = [id |-> @.id, kind |-> IF @.kind = "todo" THEN "issue" ELSE "code"]],
                  ln + 1, [id |-> 0, kind |-> "blank"])
    ELSE file

\* Fault variant of RemoveLine: the startswith('//') test of line 105
\* dropped, so any line that contains TODO is deleted.
RemoveLineAnyTodo(file, ln) ==
  IF ln <= Len(file) /\ file[ln].kind \in {"todo", "note", "trail"}
    THEN RemoveAt(file, ln)
    ELSE file

\* remove_todo, lines 102-112: a stripped line that starts with // and
\* contains TODO or FIXME is deleted; otherwise the trailing comment that
\* matches \s*//\s*(TODO|FIXME):.* is cut off.
RemoveLine(file, ln) ==
  IF ln > Len(file) THEN file
  ELSE IF file[ln].kind \in {"todo", "note"} THEN RemoveAt(file, ln)
  ELSE IF file[ln].kind = "trail" THEN [file EXCEPT ![ln] = [id |-> @.id, kind |-> "code"]]
  ELSE file

\* The file cleanup_file_interactive works on.
Cur == Batch[fi]

\* The for loop of line 170 moves to the next TODO; after the last one the
\* batch loop (line 227) moves to the next file.
NextTodo ==
  IF ti < Len(todos)
    THEN ti' = ti + 1 /\ UNCHANGED << fi, pc >>
    ELSE ti' = 1 /\ fi' = fi + 1 /\ pc' = "next_file"

-----------------------------------------------------------------------------
(* Actions.                                                                *)

\* Lines 227-245 and 161-165: the next file of the batch; its TODOs are
\* found once (lines 234 and 161), and a file without any is passed over.
OpenFile ==
  /\ pc = "next_file" /\ fi <= Len(Batch)
  /\ LET found == FindTodos(content[Cur]) IN
       IF found = << >>
         THEN fi' = fi + 1 /\ UNCHANGED << todos, ti, pc >>
         ELSE todos' = found /\ ti' = 1 /\ pc' = "ask" /\ UNCHANGED fi
  /\ UNCHANGED << content, original, backups, clock >>

\* Line 247: the batch is over.
BatchDone ==
  /\ pc = "next_file" /\ fi > Len(Batch)
  /\ pc' = "done"
  /\ UNCHANGED << content, original, fi, todos, ti, backups, clock >>

\* Choice 1 (lines 181-184): back up, then replace at the listed line.
ChooseReplace ==
  /\ pc = "ask"
  /\ Backup(Cur)
  /\ content' = [content EXCEPT ![Cur] = ReplaceLine(@, todos[ti].ln)]
  /\ NextTodo
  /\ UNCHANGED << original, todos, clock >>

\* Choice 2 (lines 185-186): back up, then remove at the listed line.
ChooseRemove ==
  /\ pc = "ask"
  /\ Backup(Cur)
  /\ content' = [content EXCEPT ![Cur] = RemoveLine(@, todos[ti].ln)]
  /\ NextTodo
  /\ UNCHANGED << original, todos, clock >>

\* Choice 3, and any other answer (lines 187-188, 195-196): keep it.
ChooseKeep ==
  /\ pc = "ask"
  /\ NextTodo
  /\ UNCHANGED << content, original, todos, backups, clock >>

\* Choice 4 (lines 189-191): break out to the next file.
ChooseSkipFile ==
  /\ pc = "ask"
  /\ fi' = fi + 1 /\ ti' = 1 /\ pc' = "next_file"
  /\ UNCHANGED << content, original, todos, backups, clock >>

\* Choice q (lines 192-194): sys.exit(0) ends the whole batch.
ChooseQuit ==
  /\ pc = "ask"
  /\ pc' = "done"
  /\ UNCHANGED << content, original, fi, todos, ti, backups >> /\ UNCHANGED clock

\* A second passes while the script waits for input or works.
Tick ==
  /\ pc # "done" /\ clock < MaxClock
  /\ clock' = clock + 1
  /\ UNCHANGED << content, original, fi, todos, ti, backups, pc >>

Terminated == pc = "done" /\ UNCHANGED vars

Next ==
  \/ OpenFile \/ BatchDone
  \/ ChooseReplace \/ ChooseRemove \/ ChooseKeep \/ ChooseSkipFile \/ ChooseQuit
  \/ Tick \/ Terminated

\* The script runs on one thread; the user answers every prompt.
Spec == Init /\ [][Next]_vars /\ WF_vars(Next)

-----------------------------------------------------------------------------
(* Properties.                                                             *)

\* Every variable keeps its type.
TypeOK ==
  /\ content \in [Paths -> Seq(Line)]
  /\ fi \in 1..(Len(Batch) + 1)
  /\ todos \in Seq([ln : 1..MaxLines, id : 1..MaxLines])
  /\ ti \in 1..MaxLines
  /\ clock \in 0..MaxClock
  /\ pc \in {"next_file", "ask", "done"}

\* The lines of file p that hold code: they have no TODO pattern of their
\* own, or one that follows code.
CodeIds(p) == { original[p][k].id : k \in { k \in 1..Len(original[p]) :
                                             original[p][k].kind \in {"code", "trail"} } }

\* remove_todo deletes a line only when it starts with // (line 105), so
\* whatever line numbers the stale list of line 161 hands it, no line that
\* holds code ever disappears from a file.
NoCodeLost ==
  \A p \in Paths : \A i \in CodeIds(p) : \E k \in 1..Len(content[p]) : content[p][k].id = i

\* The TODO shown as "Line N" (line 171) is still at line N of the file
\* when the user chooses what to do with it: the list of line 161 is
\* computed once, before any change is written.
ShownTodoAtItsLine ==
  pc = "ask" =>
    /\ todos[ti].ln <= Len(content[Cur])
    /\ content[Cur][todos[ti].ln].id = todos[ti].id

\* The module docstring: backups are created before modifications, so the
\* text a file had before the script ran is kept in some backup once the
\* file has changed.
OriginalBackedUp ==
  \A p \in Paths : content[p] # original[p] =>
    \E n \in DOMAIN backups : backups[n] = original[p]

\* The docstring (lines 2-9): the script only removes TODO comments or
\* replaces them with issue references.  Every change the interactive
\* cleanup writes, at the line numbers of the list computed before the
\* first change (line 161), is one TODO line rewritten as TodoEdits allows.
Edits == INSTANCE TodoEdits WITH files <- content

EditsRefined == Edits!Spec
=============================================================================
