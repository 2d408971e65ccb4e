------------------------- MODULE MCOperationSummary -------------------------
(* Instances of OperationSummary for TLC. *)
EXTENDS OperationSummary, TLC

\* A gated operation has a later phase that its gate can keep from starting.
MCOperations == [plain |-> 1, gated |-> 2, failover |-> 1]
=============================================================================
