---------------------------- MODULE MCLifecycle ----------------------------
(* Small instances of Lifecycle for TLC. *)
EXTENDS Lifecycle, TLC

\* Request ids and processes are interchangeable in every safety property.
Symmetry == Permutations(Requests) \cup Permutations(Procs)
=============================================================================
