----------------------------- MODULE CertSwitch -----------------------------
(***************************************************************************)
(* What the target-local certificate lifecycle promises: one committed     *)
(* selection, changed in one step, and only to a request that was signed   *)
(* for the selection it replaces; and for every request at most one        *)
(* outcome, decided in that same step.  An activation that fails, is       *)
(* rolled back or is interrupted leaves the selection alone.               *)
(***************************************************************************)
CONSTANTS Requests, None

VARIABLES
    selected,   \* the committed certificate version, None before the first
    bound,      \* the predecessor each published request binds
    outcome     \* "open", "complete" or "failed"

vars == <<selected, bound, outcome>>

Unrequested == "unrequested"

Init ==
    /\ selected = None
    /\ bound = [r \in Requests |-> Unrequested]
    /\ outcome = [r \in Requests |-> "open"]

\* A request is published for the version that is committed now.
Request(r) ==
    /\ bound[r] = Unrequested
    /\ bound' = [bound EXCEPT ![r] = selected]
    /\ UNCHANGED <<selected, outcome>>

\* An activation commits.
Switch(r) ==
    /\ bound[r] = selected
    /\ outcome[r] = "open"
    /\ selected' = r
    /\ outcome' = [outcome EXCEPT ![r] = "complete"]
    /\ UNCHANGED bound

\* An activation is given up.
Abort(r) ==
    /\ bound[r] = selected
    /\ outcome[r] = "open"
    /\ outcome' = [outcome EXCEPT ![r] = "failed"]
    /\ UNCHANGED <<selected, bound>>

Next == \E r \in Requests : Request(r) \/ Switch(r) \/ Abort(r)

Spec == Init /\ [][Next]_vars
=============================================================================
