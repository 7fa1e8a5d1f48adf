CONSTANTS
  bench_a = bench_a
  bench_b = bench_b
  Metrics <- MCMetrics
  Vals <- MCVals
  MaxRuns = 3
SYMMETRY MCSymmetry
SPECIFICATION Spec
INVARIANTS TypeOK
PROPERTIES EstablishedBaselineKept
