--------------------------- MODULE MCBenchmarkClient ---------------------------
(***************************************************************************)
(* An instance of BenchmarkClient for TLC.  The payload is the beginning   *)
(* of the real one: "AsyncNet", one header long as that is seven.          *)
(***************************************************************************)
EXTENDS BenchmarkClient

AsyncNet == <<65, 115, 121, 110, 99, 78, 101, 116>>
=============================================================================
