CONSTANTS
  SessionId = {s1}
  Nobody = Nobody
  PoolSize = 2
  SpawnMayFail = FALSE
  SignalMayCome = TRUE
SPECIFICATION Spec
\* The process may have exited, or sleep with nothing left to serve.
CHECK_DEADLOCK FALSE
INVARIANTS
  ShutdownStopsSessions
