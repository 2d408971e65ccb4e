--------------------------- MODULE MCAlloyInitial ---------------------------
(* A small instance of AlloyInitial for TLC. *)
EXTENDS AlloyInitial, TLC
=============================================================================
