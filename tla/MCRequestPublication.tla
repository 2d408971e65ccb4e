------------------------ MODULE MCRequestPublication ------------------------
(* Small instances of RequestPublication for TLC. *)
EXTENDS RequestPublication, TLC

\* Request ids, file names and processes are interchangeable in every safety
\* property.
Symmetry == Permutations(Requests) \cup Permutations(Files) \cup Permutations(Procs)
=============================================================================
