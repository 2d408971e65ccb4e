----------------------------- MODULE FaultOnce ------------------------------
(***************************************************************************)
(* What the failover test promises of a reviewed plan: HAProxy is taken    *)
(* down for it at most once, only after the plan was reserved, and a plan  *)
(* whose owner was restored or released never takes it down again.         *)
(***************************************************************************)
CONSTANT Plans

VARIABLE st   \* per plan: "unused", "reserved", "faulted" or "settled"

Init == st = [p \in Plans |-> "unused"]

Move(p, from, to) == st[p] = from /\ st' = [st EXCEPT ![p] = to]

Reserve(p) == Move(p, "unused", "reserved")
Fault(p)   == Move(p, "reserved", "faulted")
Restore(p) == Move(p, "faulted", "settled")
Release(p) == Move(p, "reserved", "settled")   \* no fault was injected

Next == \E p \in Plans : Reserve(p) \/ Fault(p) \/ Restore(p) \/ Release(p)

Spec == Init /\ [][Next]_st
=============================================================================
