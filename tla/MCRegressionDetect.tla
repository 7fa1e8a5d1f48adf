------------------------- MODULE MCRegressionDetect -------------------------
(* Two benchmarks, values around the 10% line, three runs of the script.  *)
EXTENDS RegressionDetect, TLC

CONSTANTS bench_a, bench_b

MCMetrics == {bench_a, bench_b}

\* 11 is exactly 10% above 10 (not a regression), 12 is above it; 0 is a
\* benchmark without an estimate.
MCVals == {0, 10, 11, 12}

MCSymmetry == Permutations(MCMetrics)
=============================================================================
