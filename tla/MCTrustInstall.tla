--------------------------- MODULE MCTrustInstall ---------------------------
(* Small instances of TrustInstall for TLC. *)
EXTENDS TrustInstall, TLC

\* Names and processes are interchangeable in every safety property.
Symmetry == Permutations(Names) \cup Permutations(Procs)
=============================================================================
