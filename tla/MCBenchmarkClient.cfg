CONSTANTS
  Client = {c1, c2}
  Requests = 3
  TestPayload <- AsyncNet
  BadMagic = 0
  MaxBad = 1
SPECIFICATION FairSpec
\* The benchmark has ended.
CHECK_DEADLOCK FALSE
INVARIANTS
  TypeOK
  ReportAddsUp
  InStep
PROPERTIES
  CompletedMeansEchoed
  BenchmarkEnds
