--------------------------- MODULE RegressionDetect ---------------------------
(***************************************************************************)
(* Successive runs of src/scripts/detect_regression.py against one         *)
(* baseline file, benches/baselines/main.json.  A run of main() (lines     *)
(* 220-310) loads the baseline, parses the current Criterion results and   *)
(* either compares them with the baseline (exit 1 on a regression) or,    *)
(* when there is no usable baseline, saves them as the baseline.  The     *)
(* save truncates the file before it writes it (line 215), and a run may   *)
(* be killed between the two.                                              *)
(*                                                                         *)
(* A set of results is a dict from benchmark names (model values) to       *)
(* their mean in ms, taken from a small set of integers.                   *)
(***************************************************************************)
EXTENDS Integers, FiniteSets

CONSTANTS
  Metrics,   \* benchmark names that may appear under target/criterion
  Vals,      \* values of a benchmark mean, in ms
  MaxRuns    \* number of runs of the script

ASSUME RegressionAssumption ==
  /\ Vals \subseteq Nat /\ 0 \in Vals
  /\ MaxRuns \in Nat

\* REGRESSION_THRESHOLD (line 16), in percent.
RegressionThreshold == 10

\* A dict from some benchmark names to values.
Dicts == UNION { [S -> Vals] : S \in SUBSET Metrics }

EmptyDict == [m \in {} |-> 0]

\* Fault variant of Results: the means taken in their raw unit, the
\* division of lines 69-72 dropped.
ResultsRaw == UNION { [S -> {v * 1000 : v \in Vals}] : S \in SUBSET Metrics }

\* parse_criterion_results (lines 47-83): whatever benchmarks have an
\* estimates.json, each with its converted mean; a file without the
\* PointEstimate key gives 0 (line 65).
Results == Dicts

\* The baseline file: absent, unreadable JSON, or a JSON dict.
Files == [st : {"absent", "corrupt"}, data : {EmptyDict}]
           \cup [st : {"json"}, data : Dicts]

NoVal == -1

VARIABLES
  file,      \* benches/baselines/main.json
  pc,        \* "idle" between runs; "save", "dump" inside save_baseline
  runs,      \* runs started so far
  results,   \* current_results of the latest run
  loaded,    \* the baseline the latest run loaded (line 228, {} if none)
  pending,   \* the dict save_baseline is about to write (lines 206-213)
  outcome,   \* how the latest run ended
  firstVal   \* history: each benchmark's value in the first run measuring it

vars == << file, pc, runs, results, loaded, pending, outcome, firstVal >>

Init ==
  /\ file \in Files
  /\ pc = "idle"
  /\ runs = 0
  /\ results = EmptyDict /\ loaded = EmptyDict /\ pending = EmptyDict
  /\ outcome = "none"
  /\ firstVal = [m \in Metrics |-> NoVal]

-----------------------------------------------------------------------------
(* Helpers.                                                                *)

\* load_json_file (lines 36-45): None for a missing or unparsable file;
\* main and save_baseline both turn None into {} (lines 233 and 206).
Load(f) == IF f.st = "json" THEN f.data ELSE EmptyDict

\* compare_with_baseline (lines 85-121), the regressions it returns: a
\* benchmark in both dicts, with a positive baseline, whose change
\* ((current - baseline) / baseline) * 100 exceeds the threshold.
Regressions(cur, base) ==
  { m \in DOMAIN cur \cap DOMAIN base :
      base[m] > 0 /\ (cur[m] - base[m]) * 100 > RegressionThreshold * base[m] }

\* save_baseline, lines 208-213: every benchmark of the current results
\* replaces its entry of the existing baseline; the others stay.
LayOver(cur, existing) ==
  [m \in DOMAIN cur \cup DOMAIN existing |->
     IF m \in DOMAIN cur THEN cur[m] ELSE existing[m]]

-----------------------------------------------------------------------------
(* Actions.                                                                *)

\* Fault variant of Run: a comparing run also refreshes the baseline with
\* its results, as save_baseline's "Update existing baseline" suggests.
RunSaveAlways ==
  /\ pc = "idle" /\ runs < MaxRuns
  /\ \E r \in Results :
       LET b == Load(file) IN
       /\ results' = r /\ loaded' = b
       /\ IF DOMAIN r = {}
            THEN outcome' = "no_results" /\ UNCHANGED pc
            ELSE outcome' = "running" /\ pc' = "save"
       /\ firstVal' = [m \in Metrics |->
                         IF firstVal[m] = NoVal /\ m \in DOMAIN r THEN r[m] ELSE firstVal[m]]
  /\ runs' = runs + 1
  /\ UNCHANGED << file, pending >>

\* main, lines 226-251 and 283-298: load the baseline, parse the results;
\* no results exit 1; a non-empty baseline is compared with them (exit 1
\* on a regression, exit 0 otherwise); no usable baseline goes on to
\* save_baseline (line 303).
Run ==
  /\ pc = "idle" /\ runs < MaxRuns
  /\ \E r \in Results :
       LET b == Load(file) IN
       /\ results' = r /\ loaded' = b
       /\ IF DOMAIN r = {}
            THEN outcome' = "no_results" /\ UNCHANGED pc
          ELSE IF DOMAIN b # {}
            THEN /\ outcome' = IF Regressions(r, b) # {} THEN "regression" ELSE "clean"
                 /\ UNCHANGED pc
          ELSE outcome' = "running" /\ pc' = "save"
       /\ firstVal' = [m \in Metrics |->
                         IF firstVal[m] = NoVal /\ m \in DOMAIN r THEN r[m] ELSE firstVal[m]]
  /\ runs' = runs + 1
  /\ UNCHANGED << file, pending >>

\* save_baseline, lines 203-215: reload the file, lay the results over it,
\* and open it for writing, which truncates it.
SaveOpen ==
  /\ pc = "save"
  /\ pending' = LayOver(results, Load(file))
  /\ file' = [st |-> "corrupt", data |-> EmptyDict]
  /\ pc' = "dump"
  /\ UNCHANGED << runs, results, loaded, outcome, firstVal >>

\* Lines 216-218 and 304-310: json.dump writes the dict; the run exits 0.
SaveDump ==
  /\ pc = "dump"
  /\ file' = [st |-> "json", data |-> pending]
  /\ pc' = "idle" /\ outcome' = "baselined"
  /\ UNCHANGED << runs, results, loaded, pending, firstVal >>

\* The run is killed (a CI timeout or cancel) inside save_baseline,
\* before or after the truncation.
Crash ==
  /\ pc \in {"save", "dump"}
  /\ pc' = "idle" /\ outcome' = "crashed"
  /\ UNCHANGED << file, runs, results, loaded, pending, firstVal >>

Finished == pc = "idle" /\ runs = MaxRuns /\ UNCHANGED vars

Next == Run \/ SaveOpen \/ SaveDump \/ Crash \/ Finished

Spec == Init /\ [][Next]_vars

-----------------------------------------------------------------------------
(* Properties.                                                             *)

\* Every variable keeps its type.
TypeOK ==
  /\ file \in Files
  /\ pc \in {"idle", "save", "dump"}
  /\ runs \in 0..MaxRuns
  /\ results \in Dicts /\ loaded \in Dicts /\ pending \in Dicts
  /\ outcome \in {"none", "no_results", "regression", "clean", "running",
                  "baselined", "crashed"}
  /\ firstVal \in [Metrics -> Vals \cup {NoVal}]

\* Benchmark m runs more than 10% slower at value c than at value b.
SlowerThan(c, b) == 100 * c > 110 * b

\* A baseline that holds benchmarks is never rewritten: no run, whether it
\* finishes or is killed in save_baseline, truncates or replaces it.
EstablishedBaselineKept ==
  [][file.st = "json" /\ DOMAIN file.data # {} => file' = file]_vars

\* "Future runs will compare against this baseline" (line 305): a run that
\* exits 0 has no benchmark more than 10% slower than the first time a run
\* measured it with a positive value.
NoRegressionAccepted ==
  outcome \in {"clean", "baselined"} =>
    \A m \in DOMAIN results :
       firstVal[m] > 0 => ~SlowerThan(results[m], firstVal[m])
=============================================================================
