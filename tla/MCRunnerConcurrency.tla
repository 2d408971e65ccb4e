------------------------ MODULE MCRunnerConcurrency ------------------------
(* A small instance of RunnerConcurrency for TLC. *)
EXTENDS RunnerConcurrency, TLC
=============================================================================
