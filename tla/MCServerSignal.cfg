CONSTANTS
  SessionId = {s1}
  Nobody = Nobody
  PoolSize = 2
  SpawnMayFail = FALSE
  SignalMayCome = TRUE
SPECIFICATION FairSpec
\* The process may have exited, or sleep with nothing left to serve.
CHECK_DEADLOCK FALSE
PROPERTIES
  SignalStopsServer
