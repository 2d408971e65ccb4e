-------------------------- MODULE MCSourceTransfer --------------------------
(* A small instance of SourceTransfer for TLC: the tasks of different targets *)
(* share only the source, which none of them writes.                          *)
EXTENDS SourceTransfer, TLC
=============================================================================
