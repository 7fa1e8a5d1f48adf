------------------------ MODULE RegressionDetectProofs ------------------------
(***************************************************************************)
(* Proofs about runs of src/scripts/detect_regression.py (module           *)
(* RegressionDetect), for any benchmarks, values and number of runs: the   *)
(* variables keep their types, and a baseline that holds benchmarks       *)
(* survives every later run, killed or not.                               *)
(***************************************************************************)
EXTENDS RegressionDetect, TLAPS

-----------------------------------------------------------------------------
(* Lemmas about dicts.                                                     *)

\* A dict maps some benchmarks to values.
LEMMA DictShape ==
  ASSUME NEW d \in Dicts
  PROVE  /\ DOMAIN d \subseteq Metrics
         /\ \A m \in DOMAIN d : d[m] \in Vals
<1>1. PICK S \in SUBSET Metrics : d \in [S -> Vals]
  BY DEF Dicts
<1>. QED
  BY <1>1

\* The empty dict ({} at lines 233 and 206) is a dict.
LEMMA EmptyIsDict == EmptyDict \in Dicts
<1>1. EmptyDict \in [{} -> Vals]
  BY DEF EmptyDict
<1>. QED
  BY <1>1 DEF Dicts

\* Laying one dict over another (lines 208-213) gives a dict.
LEMMA DictMerge ==
  ASSUME NEW f \in Dicts, NEW g \in Dicts
  PROVE  LayOver(f, g) \in Dicts
<1>1. PICK S \in SUBSET Metrics : f \in [S -> Vals]
  BY DEF Dicts
<1>2. PICK T \in SUBSET Metrics : g \in [T -> Vals]
  BY DEF Dicts
<1>3. LayOver(f, g) \in [S \cup T -> Vals]
  BY <1>1, <1>2 DEF LayOver
<1>. QED
  BY <1>3 DEF Dicts

-----------------------------------------------------------------------------
\* The file holds a baseline that main will compare against (line 249).
Established(f) == f.st = "json" /\ DOMAIN f.data # {}

(***************************************************************************)
(* The inductive invariant.  Inside save_baseline the run is still         *)
(* "running", it got there only because the file held no baseline, and    *)
(* after the truncation the file is unreadable until the dump.            *)
(***************************************************************************)
IInv ==
  /\ TypeOK
  /\ pc # "idle" => outcome = "running"
  /\ pc = "save" => ~Established(file)
  /\ pc = "dump" => file.st = "corrupt"

\* IInv holds initially.
LEMMA InitIInv == Init => IInv
<1>. SUFFICES ASSUME Init PROVE IInv
  OBVIOUS
<1>1. firstVal \in [Metrics -> Vals \cup {NoVal}]
  BY DEF Init
<1>. QED
  BY <1>1, EmptyIsDict, RegressionAssumption DEF RegressionAssumption, Init, IInv, TypeOK

\* Every step of the runs preserves IInv.
LEMMA NextIInv == IInv /\ [Next]_vars => IInv'
<1>. SUFFICES ASSUME IInv, [Next]_vars PROVE IInv'
  OBVIOUS
<1>1. CASE Run
  <2>1. PICK r \in Results :
          LET b == Load(file) IN
          /\ results' = r /\ loaded' = b
          /\ IF DOMAIN r = {}
               THEN outcome' = "no_results" /\ UNCHANGED pc
             ELSE IF DOMAIN b # {}
               THEN /\ outcome' = IF Regressions(r, b) # {} THEN "regression" ELSE "clean"
                    /\ UNCHANGED pc
             ELSE outcome' = "running" /\ pc' = "save"
          /\ firstVal' = [m \in Metrics |->
                            IF firstVal[m] = NoVal /\ m \in DOMAIN r THEN r[m] ELSE firstVal[m]]
    BY <1>1 DEF Run
  <2>. DEFINE b == Load(file)
  <2>2. b \in Dicts
    BY EmptyIsDict DEF Load, IInv, TypeOK, Files
  <2>3. firstVal' \in [Metrics -> Vals \cup {NoVal}]
    BY <2>1, DictShape DEF IInv, TypeOK, Results
  <2>4. UNCHANGED << file, pending >> /\ runs' = runs + 1 /\ runs < MaxRuns /\ pc = "idle"
    BY <1>1 DEF Run
  <2>5. runs' \in 0..MaxRuns
    BY <2>4, RegressionAssumption DEF RegressionAssumption, IInv, TypeOK
  <2>6. CASE DOMAIN r = {}
    <3>1. outcome' = "no_results" /\ pc' = pc
      BY <2>1, <2>6
    <3>. QED
      BY <2>1, <2>2, <2>3, <2>4, <2>5, <3>1 DEF IInv, TypeOK, Results
  <2>7. CASE DOMAIN r # {} /\ DOMAIN b # {}
    <3>1. /\ outcome' = IF Regressions(r, b) # {} THEN "regression" ELSE "clean"
          /\ pc' = pc
      BY <2>1, <2>7
    <3>. QED
      BY <2>1, <2>2, <2>3, <2>4, <2>5, <3>1 DEF IInv, TypeOK, Results
  <2>8. CASE DOMAIN r # {} /\ DOMAIN b = {}
    <3>1. outcome' = "running" /\ pc' = "save"
      BY <2>1, <2>8
    <3>2. ~Established(file)
      BY <2>8 DEF Established, Load
    <3>. QED
      BY <2>1, <2>2, <2>3, <2>4, <2>5, <3>1, <3>2 DEF IInv, TypeOK, Results
  <2>. QED
    BY <2>6, <2>7, <2>8, Zenon
<1>2. CASE SaveOpen
  <2>1. pending' \in Dicts
    <3>1. Load(file) \in Dicts
      BY EmptyIsDict DEF Load, IInv, TypeOK, Files
    <3>. QED
      BY <1>2, <3>1, DictMerge DEF SaveOpen, IInv, TypeOK
  <2>2. file' \in Files /\ file'.st = "corrupt"
    BY <1>2, EmptyIsDict DEF SaveOpen, Files
  <2>. QED
    BY <1>2, <2>1, <2>2 DEF SaveOpen, IInv, TypeOK
<1>3. CASE SaveDump
  <2>1. file' \in Files
    BY <1>3 DEF SaveDump, IInv, TypeOK, Files
  <2>. QED
    BY <1>3, <2>1 DEF SaveDump, IInv, TypeOK
<1>4. CASE Crash
  BY <1>4 DEF Crash, IInv, TypeOK
<1>5. CASE Finished
  BY <1>5 DEF Finished, vars, IInv, TypeOK, Established
<1>6. CASE UNCHANGED vars
  BY <1>6 DEF vars, IInv, TypeOK, Established
<1>. QED
  BY <1>1, <1>2, <1>3, <1>4, <1>5, <1>6 DEF Next

\* IInv is an invariant of every sequence of runs.
THEOREM IInvariant == Spec => []IInv
BY InitIInv, NextIInv, PTL DEF Spec

\* Type correctness of the runs: the baseline file, the dicts a run holds
\* and the way it ended stay within their types.
THEOREM TypeCorrect == Spec => []TypeOK
BY IInvariant, PTL DEF IInv

\* No step replaces an established baseline: main only reaches
\* save_baseline when the file held none, and the file stays unreadable
\* from the truncation to the dump.
LEMMA StepKeepsBaseline ==
  IInv /\ [Next]_vars => [Established(file) => file' = file]_vars
<1>. SUFFICES ASSUME IInv, [Next]_vars, Established(file) PROVE file' = file
  BY DEF vars
<1>1. CASE SaveOpen
  BY <1>1 DEF SaveOpen, IInv
<1>2. CASE SaveDump
  BY <1>2 DEF SaveDump, IInv, Established
<1>3. CASE Run \/ Crash \/ Finished \/ UNCHANGED vars
  BY <1>3 DEF Run, Crash, Finished, vars
<1>. QED
  BY <1>1, <1>2, <1>3 DEF Next

\* A baseline that holds benchmarks is never truncated or replaced by a
\* later run, whether that run finishes or is killed in save_baseline.
THEOREM BaselineKept == Spec => EstablishedBaselineKept
<1>1. [Established(file) => file' = file]_vars
        => [file.st = "json" /\ DOMAIN file.data # {} => file' = file]_vars
  BY DEF Established
<1>. QED
  BY IInvariant, StepKeepsBaseline, <1>1, PTL DEF Spec, EstablishedBaselineKept
=============================================================================
