----------------------------- MODULE MCFailover -----------------------------
(* A small instance of Failover for TLC. *)
EXTENDS Failover, TLC
=============================================================================
