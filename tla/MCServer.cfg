CONSTANTS
  SessionId = {s1, s2}
  Nobody = Nobody
  PoolSize = 3
  SpawnMayFail = TRUE
  SignalMayCome = TRUE
SPECIFICATION FairSpec
\* The process may have exited, or sleep with nothing left to serve.
CHECK_DEADLOCK FALSE
INVARIANTS
  TypeOK
  NoGhosts
  AcceptorListens
PROPERTIES
  KeepsSessionLife
  ShutdownEndsWorkers
  UnwindingEnds
