------------------------------ MODULE Failover ------------------------------
(***************************************************************************)
(* The OpenBao HAProxy failover test: the guard on every host              *)
(* (roles/openbao/files/platform-openbao-failover-guard), the reviewed     *)
(* plan (plugins/module_utils/platform_openbao_failover_plan.py and the    *)
(* activation plan it builds on), the playbook that runs a test or a       *)
(* recovery (playbooks/maintenance/openbao-haproxy-failover.yml) and the   *)
(* HAProxy and Keepalived activations that share the guard                 *)
(* (platform-openbao-edge-guard).                                          *)
(*                                                                         *)
(* A guard command holds the host's flock, so it is one step here; it may  *)
(* be killed between its durable effects, its answer may be lost, and the  *)
(* command of a dead controller may land later.  Runs of the playbook are  *)
(* serialized; an activation runs beside them.                             *)
(***************************************************************************)
EXTENDS Naturals, FiniteSets

CONSTANTS
    N,          \* hosts are 1..N in sorted order; the plan requires three
    Owner,      \* plan.owner: the host that held the VIP
    Plans,      \* failover plan identities
    Edge,       \* the plan of a HAProxy or Keepalived activation
    None,
    MaxFaults,  \* bound: lost answers, kills, failed observations, crashes
    MaxLate     \* bound: commands of a dead run that land later

ASSUME FailoverAssumption ==
    /\ N \in Nat /\ Owner \in 1..N
    /\ None \notin Plans \cup {Edge} /\ Edge \notin Plans
    /\ {"incomplete"} \cap (Plans \cup {Edge, None}) = {}
    /\ MaxFaults \in Nat /\ MaxLate \in Nat

Hosts == 1..N

VARIABLES
    active,     \* per host, active/: None, "incomplete" or owner.json's plan
    consumed,   \* per host and plan, consumed/<plan>: a record or None
    debris,     \* hosts with a .pending-* file under consumed/
    haproxy,    \* the owner's haproxy.service: "up" or "stopped"
    artifact,   \* per plan, the file write_plan published
    stale,      \* plans past their expiry
    drifted,    \* plans whose evidence no longer matches the hosts
    pc, mode, plan, fresh,   \* the playbook run
    ans, seen,  \* per host, the answer to the current command and its record
    present,    \* hosts with openbao_failover_record_present
    result,     \* per host, openbao_failover_test_result
    late,       \* per host, a command of a dead run that has not landed
    edge,       \* the activation: its step and the guards it holds
    faults,     \* bound on faults
    reported,   \* history: plans a test run reported as passed
    overtaken   \* history: hosts where a dead run's fail landed during a run

guards == <<active, consumed, debris>>
run    == <<pc, mode, plan, fresh, ans, seen, present, result>>
env    == <<artifact, stale, drifted, edge, reported, overtaken>>
vars   == <<guards, haproxy, run, env, late, faults>>

Phases == {"claimed", "armed", "failover-proven", "restoring", "closed"}
Record == [phase : Phases, outcome : {"pending", "proven", "failed"}]
Rec(ph, out) == [phase |-> ph, outcome |-> out]

\* A missing record is not a record.
ASSUME NoneAssumption == None \notin Record

-----------------------------------------------------------------------------
(***************************************************************************)
(* The guard                                                               *)
(***************************************************************************)

\* _locked: unknown entries, incomplete or foreign ownership refuse everything.
Blocked(h) == h \in debris \/ active[h] \in {"incomplete", Edge}

\* The owner file matches the record, or the record is closed and released.
Owned(h, p) == \/ active[h] = p
               \/ active[h] = None /\ consumed[h][p].phase = "closed"

Retained(h, p) == ~Blocked(h) /\ consumed[h][p] # None /\ Owned(h, p)

\* The plan inspect reads: the one asked for, or that of owner.json.
Selected(h, p) == IF p = None THEN active[h] ELSE p

\* inspect
Inspect(h, p) ==
    LET q == Selected(h, p) IN
    IF q # None /\ Retained(h, q) THEN "record"
    ELSE IF /\ ~Blocked(h) /\ active[h] = None
            /\ q # None => consumed[h][q] = None THEN "absent"
    ELSE "no"

\* Slip: the proof is accepted whatever was recorded before it.
AcceptsLateProof(c, h, r) ==
    \/ r.phase = "closed" /\ c \in {"restore", "finish"}
    \/ /\ r.phase # "closed"
       /\ \/ c = "arm" /\ h = Owner /\ r = Rec("claimed", "pending")
          \/ c \in {"prove", "fail", "restore"}
          \/ c = "finish" /\ r.phase = "restoring"

\* Slip: the stop intent may be armed in any phase.
AcceptsLateArm(c, h, r) ==
    \/ r.phase = "closed" /\ c \in {"restore", "finish"}
    \/ /\ r.phase # "closed"
       /\ \/ c = "arm" /\ h = Owner
          \/ /\ c = "prove"
             /\ r = Rec(IF h = Owner THEN "armed" ELSE "claimed", "pending")
          \/ c \in {"fail", "restore"}
          \/ c = "finish" /\ r.phase = "restoring"

\* arm, prove, fail, restore, finish: which record each accepts ...
Accepts(c, h, r) ==
    \/ r.phase = "closed" /\ c \in {"restore", "finish"}
    \/ /\ r.phase # "closed"
       /\ \/ c = "arm" /\ h = Owner /\ r = Rec("claimed", "pending")
          \/ /\ c = "prove"
             /\ r = Rec(IF h = Owner THEN "armed" ELSE "claimed", "pending")
          \/ c \in {"fail", "restore"}
          \/ c = "finish" /\ r.phase = "restoring"

\* ... and what it becomes.
Becomes(c, r) ==
    IF r.phase = "closed" THEN r ELSE
    CASE c = "arm"     -> [r EXCEPT !.phase = "armed"]
      [] c = "prove"   -> Rec("failover-proven", "proven")
      [] c = "fail"    -> Rec(IF r.phase = "failover-proven" THEN "restoring"
                              ELSE r.phase, "failed")
      [] c = "restore" -> Rec("restoring", IF r.outcome = "pending"
                                           THEN "failed" ELSE r.outcome)
      [] c = "finish"  -> [r EXCEPT !.phase = "closed"]

\* claim: the exclusion, then the owner, then the consumed record.
ClaimRefused(h, p) ==
    Blocked(h) \/ active[h] # None \/ consumed[h][p] # None \/ p \in stale

\* The refusals of the other commands; arm also reads the clock.
Refused(c, h, p) ==
    IF c = "claim" THEN ClaimRefused(h, p)
    ELSE ~(/\ Retained(h, p) /\ Accepts(c, h, consumed[h][p])
           /\ c = "arm" => p \notin stale)

Put(h, p, r) == [consumed EXCEPT ![h] = [@ EXCEPT ![p] = r]]

\* A command that ran to its end; finish closes the record, then releases.
Done(c, h, p) ==
    /\ ~Refused(c, h, p)
    /\ consumed' = Put(h, p, IF c = "claim" THEN Rec("claimed", "pending")
                             ELSE Becomes(c, consumed[h][p]))
    /\ active' = [active EXCEPT ![h] = CASE c = "claim"  -> p
                                         [] c = "finish" -> None
                                         [] OTHER -> @]
    /\ UNCHANGED debris

\* A command killed between two of its durable effects.
ClaimKilled(h, p) ==
    /\ ~ClaimRefused(h, p)
    /\ \/ active' = [active EXCEPT ![h] = "incomplete"] /\ UNCHANGED debris
       \/ /\ active' = [active EXCEPT ![h] = p]
          /\ debris' \in {debris, debris \cup {h}}
    /\ UNCHANGED consumed

Killed(c, h, p) ==
    \/ c = "claim" /\ ClaimKilled(h, p)
    \/ /\ c # "claim" /\ ~Refused(c, h, p)
       /\ consumed[h][p].phase # "closed"          \* the record is replaced
       /\ debris' = debris \cup {h} /\ UNCHANGED <<active, consumed>>
    \/ /\ c = "finish" /\ ~Refused(c, h, p) /\ active[h] = p
       /\ consumed' = Put(h, p, Becomes(c, consumed[h][p]))
       /\ \/ UNCHANGED active                      \* closed, not released
          \/ active' = [active EXCEPT ![h] = "incomplete"]
       /\ UNCHANGED debris

-----------------------------------------------------------------------------
(***************************************************************************)
(* The reviewed plan                                                       *)
(***************************************************************************)

\* validate: the lane and the sources; a recovery may run in a later pipeline.
Contexts == {"plan's pipeline", "later pipeline", "other sources"}
SameSource(m, c) ==
    IF m = "recover" THEN c # "other sources" ELSE c = "plan's pipeline"

\* validate: a test also needs a fresh plan and the reviewed owner and evidence.
Fresh(p) == p \notin stale \cup drifted

\* The plan plugin in the context c; read_plan accepts only a whole artifact.
Prepared(m, p, c) == SameSource(m, c) /\ (m = "test" => Fresh(p))
ReadPlan(p) == artifact[p] = "whole"

Fault == faults < MaxFaults /\ faults' = faults + 1
NoFault == UNCHANGED faults

\* write_plan: exclusive publication, perhaps only in part.
WritePlan(p) ==
    /\ artifact[p] = "absent"
    /\ \/ artifact' = [artifact EXCEPT ![p] = "whole"] /\ NoFault
       \/ artifact' = [artifact EXCEPT ![p] = "partial"] /\ Fault

\* plan mode: nothing is retained and the smoke passes.
Publish(p) ==
    /\ pc = "idle" /\ haproxy = "up"
    /\ \A h \in Hosts : Inspect(h, None) = "absent"
    /\ WritePlan(p)
    /\ UNCHANGED <<guards, haproxy, run, stale, drifted, edge, reported, overtaken, late>>

\* The plan's half hour passes.  Only a claim, an arm and a fresh test read the
\* clock, so it matters only until the owner's record has left "claimed".
Expire(p) ==
    /\ artifact[p] = "whole" /\ p \notin stale
    /\ consumed[Owner][p] # None => consumed[Owner][p].phase = "claimed"
    /\ stale' = stale \cup {p}
    /\ UNCHANGED <<guards, haproxy, run, artifact, drifted, edge, reported, overtaken, late, faults>>

\* The hosts are reconfigured: prohibited while a test or a recovery runs.
Drift(p) ==
    /\ pc = "idle" /\ artifact[p] = "whole" /\ p \notin drifted
    /\ drifted' = drifted \cup {p}
    /\ UNCHANGED <<guards, haproxy, run, artifact, stale, edge, reported, overtaken, late, faults>>

-----------------------------------------------------------------------------
(***************************************************************************)
(* The playbook                                                            *)
(***************************************************************************)
Commands == {"discover", "inspect", "claim", "arm", "prove", "reinspect",
             "fail", "restore", "finish"}
Inspections == {"discover", "inspect", "reinspect"}

Keep(xs) == UNCHANGED <<guards, haproxy, env, late>> /\ UNCHANGED xs

\* Go to a task and send it to the hosts it runs on.
Call(task, on) ==
    /\ pc' = task
    /\ ans' = [h \in Hosts |-> IF h \in on THEN "wait" ELSE "skip"]
    /\ seen' = [h \in Hosts |-> None]

\* The answer to a command: what happened and the record it returned.
Reply(h, a, p, r) ==
    /\ ans' = [ans EXCEPT ![h] = a]
    /\ seen' = [seen EXCEPT ![h] = IF a = "record" THEN [plan |-> p, rec |-> r] ELSE None]

\* Commands on different hosts commute: the model serves them in host order.
Turn(h) == ans[h] = "wait" /\ \A g \in 1..(h - 1) : ans[g] # "wait"

Answered == \A h \in Hosts : ans[h] # "wait"
Found == {h \in Hosts : ans[h] = "record"}
InspectedAll == \A h \in Hosts : ans[h] # "no"

\* The play ends; facts of the run are gone.
End == /\ pc' = "idle" /\ mode' = None /\ plan' = None
       /\ fresh' = FALSE /\ present' = {}
       /\ ans' = [h \in Hosts |-> "skip"] /\ seen' = [h \in Hosts |-> None]
       /\ result' = [h \in Hosts |-> "not_run"]

\* A route starts: recover takes no artifact, test names one.
Start(m, p) ==
    /\ pc = "idle"
    /\ IF m = "recover" THEN p = None ELSE p # None /\ ReadPlan(p)
    /\ Call("discover", Hosts)
    /\ mode' = m /\ plan' = p
    /\ Keep(<<fresh, present, result, faults>>)

\* One guard command on one host.  It is served or refused; or its answer is
\* lost, before or after its effect; or it is killed.
Ask(h) ==
    /\ pc \in Commands \ Inspections /\ Turn(h)
    /\ \/ /\ Done(pc, h, plan) /\ NoFault
          /\ Reply(h, "record", plan, consumed'[h][plan])
       \/ /\ Refused(pc, h, plan) /\ NoFault /\ UNCHANGED guards
          /\ Reply(h, "no", None, None)
       \/ /\ Fault
          /\ \/ UNCHANGED guards
             \/ Done(pc, h, plan)
             \/ Killed(pc, h, plan)
          /\ Reply(h, "no", None, None)
    /\ UNCHANGED <<haproxy, pc, mode, plan, fresh, present, result, env, late>>

AskInspect(h) ==
    /\ pc \in Inspections /\ Turn(h)
    /\ LET p == IF pc = "discover" THEN None ELSE plan
           q == Selected(h, p)
       IN \/ /\ Reply(h, Inspect(h, p), q, IF q \in Plans THEN consumed[h][q] ELSE None)
             /\ NoFault
          \/ Reply(h, "no", None, None) /\ Fault
    /\ Keep(<<pc, mode, plan, fresh, present, result>>)

\* Every answer and at most one transaction, which an artifact must name.
FoundPlans == {seen[h].plan : h \in Found}

OneTransaction ==
    /\ InspectedAll
    /\ \A p, q \in FoundPlans : p = q
    /\ mode = "test" => FoundPlans \subseteq {plan}

Discovered ==
    /\ pc = "discover" /\ Answered
    /\ \/ ~OneTransaction /\ End
       \/ /\ OneTransaction /\ mode = "recover" /\ FoundPlans = {}
          /\ Call("none", {})
          /\ UNCHANGED <<mode, plan, fresh, present, result>>
       \/ /\ OneTransaction
          /\ \E p \in IF mode = "test" THEN {plan} ELSE FoundPlans : plan' = p
          /\ Call("inspect", Hosts)
          /\ UNCHANGED <<mode, fresh, present, result>>
    /\ Keep(<<faults>>)

\* Slip: every host must hold a record.
RecordsGateFull == InspectedAll /\ Found = Hosts

\* Slip: a recovery, too, needs a healthy HAProxy.
RecordsGateHealthy ==
    /\ InspectedAll /\ Found # {} /\ haproxy = "up"
    /\ \/ Found = Hosts
       \/ \A h \in Found : seen[h].rec.phase \in {"claimed", "restoring", "closed"}

\* openbao-failover-records.yml: a missing peer is safe only for an
\* interrupted claim or its failed cleanup.
RecordsGate ==
    /\ InspectedAll /\ Found # {}
    /\ \/ Found = Hosts
       \/ \A h \in Found : \/ seen[h].rec.phase = "claimed"
                           \/ /\ seen[h].rec.phase \in {"restoring", "closed"}
                              /\ seen[h].rec.outcome = "failed"

\* Retained records allow only restoration; a fresh fault needs the whole smoke
\* and a plan that validates in the context c.
Approved(c) ==
    /\ pc = "inspect" /\ Answered
    /\ \/ /\ RecordsGate /\ Prepared("recover", plan, c)
          /\ Call("reinspect", Hosts)
          /\ UNCHANGED fresh
       \/ /\ InspectedAll /\ Found = {} /\ mode = "test"
          /\ haproxy = "up" /\ Prepared("test", plan, c)
          /\ Call("claim", Hosts)
          /\ fresh' = TRUE
    /\ Keep(<<mode, plan, present, result, faults>>)

Rejected ==
    /\ pc = "inspect" /\ Answered
    /\ \/ ~InspectedAll
       \/ Found # {} /\ ~RecordsGate
       \/ Found = {} /\ ~(mode = "test" /\ haproxy = "up" /\ Fresh(plan))
    /\ End
    /\ Keep(<<faults>>)

\* The sources or the lane are not the plan's, the operator declines, or the
\* full smoke fails.
Declined(c) ==
    /\ pc \in {"inspect", "none"} /\ Answered /\ Fault
    /\ ~SameSource(IF Found = {} THEN mode ELSE "recover", c) \/ c = "plan's pipeline"
    /\ End
    /\ Keep(<<>>)

\* recover with nothing retained only runs the smoke.
NothingRetained ==
    /\ pc = "none" /\ End /\ Keep(<<faults>>)

\* Slip: the owner's claim is enough.
ClaimedOwner ==
    /\ pc = "claim" /\ Answered
    /\ IF Owner \in Found THEN Call("recheck", {}) ELSE Call("reinspect", Hosts)
    /\ result' = [h \in Hosts |-> "failed"]
    /\ Keep(<<mode, plan, fresh, present, faults>>)

\* All three claims, or none of them leads to a stop.
Claimed ==
    /\ pc = "claim" /\ Answered
    /\ IF Found = Hosts THEN Call("recheck", {}) ELSE Call("reinspect", Hosts)
    /\ result' = [h \in Hosts |-> "failed"]
    /\ Keep(<<mode, plan, fresh, present, faults>>)

\* An ordinary failure after every host was claimed.
FailTest ==
    /\ present' = Hosts
    /\ result' = [h \in Hosts |-> "failed"]
    /\ Call("fail", Hosts)

\* The smoke, the evidence and the plan once more, under the guards.
Recheck ==
    /\ pc = "recheck"
    /\ \/ /\ haproxy = "up" /\ Fresh(plan) /\ NoFault
          /\ Call("arm", {Owner}) /\ UNCHANGED <<present, result>>
       \/ ~(haproxy = "up" /\ Fresh(plan)) /\ NoFault /\ FailTest
       \/ Fault /\ FailTest
    /\ Keep(<<mode, plan, fresh>>)

Armed ==
    /\ pc = "arm" /\ Answered
    /\ \/ /\ Found = {Owner}
          /\ Call("stop", {}) /\ UNCHANGED <<present, result>>
       \/ Found = {} /\ FailTest
    /\ Keep(<<mode, plan, fresh, faults>>)

\* The stop, only after a fresh arm answer; its own answer may be lost.
Stop ==
    /\ pc = "stop"
    /\ \/ /\ haproxy' = "stopped" /\ NoFault
          /\ Call("proof", {}) /\ UNCHANGED <<present, result>>
       \/ haproxy' \in {haproxy, "stopped"} /\ Fault /\ FailTest
    /\ UNCHANGED <<guards, mode, plan, fresh, env, late>>

\* The alternate owner and the cluster are observed while HAProxy is down.
Proof ==
    /\ pc = "proof"
    /\ \/ /\ haproxy = "stopped" /\ NoFault
          /\ Call("prove", Hosts) /\ UNCHANGED <<present, result>>
       \/ Fault /\ FailTest
    /\ Keep(<<mode, plan, fresh>>)

Proved ==
    /\ pc = "prove" /\ Answered
    /\ present' = Hosts
    /\ result' = [h \in Hosts |-> IF h \in Found THEN "passed" ELSE "failed"]
    /\ Call(IF Found = Hosts THEN "restore" ELSE "fail", Hosts)
    /\ Keep(<<mode, plan, fresh, faults>>)

\* Restoration of retained records, or of a claim that did not complete.
Reinspected ==
    /\ pc = "reinspect" /\ Answered
    /\ IF RecordsGate
       THEN /\ present' = Found
            /\ Call(IF fresh THEN "fail" ELSE "restore", Found)
            /\ UNCHANGED <<mode, plan, fresh, result>>
       ELSE End
    /\ Keep(<<faults>>)

FailRecorded ==
    /\ pc = "fail" /\ Answered
    /\ Call("restore", present)
    /\ Keep(<<mode, plan, fresh, present, result, faults>>)

RestoreOk(h) == h \notin present \/ h \in Found

\* The owner's HAProxy is started on a fresh restore answer, whatever the
\* peers answered; all must have answered before the smoke and the release.
Starts == Owner \in Found /\ seen[Owner].rec.phase = "restoring"

Restored ==
    /\ pc = "restore" /\ Answered
    /\ result' = [h \in Hosts |-> IF h \in Found /\ seen[h].rec.outcome = "proven"
                                  THEN "passed" ELSE "failed"]
    /\ ans' = [h \in Hosts |-> "skip"] /\ seen' = [h \in Hosts |-> None]
    /\ LET onward == IF \A h \in Hosts : RestoreOk(h) THEN "smoke" ELSE "report" IN
       \/ /\ haproxy' = IF Starts THEN "up" ELSE haproxy
          /\ pc' = onward /\ NoFault
       \/ /\ Starts /\ Fault                    \* the start fails or is lost
          /\ haproxy' \in {haproxy, "up"}
          /\ pc' \in {onward, "report"}
    /\ UNCHANGED <<guards, mode, plan, fresh, present, env, late>>

\* The full smoke and the original evidence, before any record is finished.
Smoke ==
    /\ pc = "smoke"
    /\ \/ /\ haproxy = "up" /\ plan \notin drifted /\ NoFault
          /\ Call("finish", present)
       \/ /\ ~(haproxy = "up" /\ plan \notin drifted) /\ NoFault
          /\ Call("report", {})
       \/ Fault /\ Call("report", {})
    /\ Keep(<<mode, plan, fresh, present, result>>)

\* Slip: the report does not wait for the finish answers.
FinishedUnchecked ==
    /\ pc = "finish" /\ Answered
    /\ reported' = IF mode = "test" /\ \A h \in Hosts : result[h] = "passed"
                   THEN reported \cup {plan} ELSE reported
    /\ End
    /\ UNCHANGED <<guards, haproxy, artifact, stale, drifted, edge, overtaken, late, faults>>

\* Finish answers and, in test mode, the permanent outcome decide the report.
Finished ==
    /\ pc = "finish" /\ Answered
    /\ reported' = IF /\ mode = "test" /\ Found = present
                      /\ \A h \in Hosts : result[h] = "passed"
                   THEN reported \cup {plan} ELSE reported
    /\ End
    /\ UNCHANGED <<guards, haproxy, artifact, stale, drifted, edge, overtaken, late, faults>>

Report ==
    /\ pc = "report" /\ End /\ Keep(<<faults>>)

\* The controller dies.  Its unanswered commands may still land; a service
\* command has taken effect by then or never does.
Crash ==
    /\ pc # "idle" /\ Fault
    /\ \E S \in SUBSET {h \in Hosts : ans[h] = "wait" /\ late[h] = None} :
          /\ Cardinality(S) <= MaxLate
          /\ late' = [h \in Hosts |-> IF h \in S /\ pc \notin Inspections
                                      THEN [cmd |-> pc, plan |-> plan] ELSE late[h]]
    /\ haproxy' \in {haproxy} \cup (IF pc = "stop" THEN {"stopped"} ELSE {})
                    \cup (IF pc = "restore" /\ Answered /\ Starts THEN {"up"} ELSE {})
    /\ End
    /\ UNCHANGED <<guards, env>>

\* A command of a dead run lands, is refused or is gone.
Land(h) ==
    /\ late[h] # None
    /\ Done(late[h].cmd, h, late[h].plan) \/ UNCHANGED guards
    /\ late' = [late EXCEPT ![h] = None]
    /\ overtaken' = IF pc # "idle" /\ late[h].cmd = "fail"
                    THEN overtaken \cup {h} ELSE overtaken
    /\ UNCHANGED <<haproxy, run, artifact, stale, drifted, edge, reported, faults>>

-----------------------------------------------------------------------------
(***************************************************************************)
(* HAProxy and Keepalived activations                                      *)
(***************************************************************************)
\* The activation's next step and the guards it still holds.  Once it is over
\* another one may start, which knows nothing of a guard that was retained.
EdgeStep(step, held) == edge' = [step |-> step, held |-> held]
EdgeOver == EdgeStep("acquire", {})

EdgeKeep == UNCHANGED <<haproxy, run, artifact, stale, drifted, reported, overtaken, late,
                        consumed, debris>>

\* Slip: a refused acquisition does not end the loop.
EdgeAcquireAnyway(h) ==
    /\ edge.step = "acquire" /\ edge.held = 1..(h - 1)
    /\ active' = [active EXCEPT ![h] = IF @ = None THEN Edge ELSE @]
    /\ EdgeStep(IF h = N THEN "activate" ELSE "acquire", edge.held \cup {h})
    /\ NoFault /\ EdgeKeep

\* acquire, in sorted order; a partial acquisition is retained.
EdgeAcquire(h) ==
    /\ edge.step = "acquire" /\ edge.held = 1..(h - 1)
    /\ \/ /\ active[h] = None /\ NoFault
          /\ active' = [active EXCEPT ![h] = Edge]
          /\ EdgeStep(IF h = N THEN "activate" ELSE "acquire", edge.held \cup {h})
       \/ /\ active[h] = None /\ Fault                \* killed half way
          /\ \E a \in {"incomplete", Edge} : active' = [active EXCEPT ![h] = a]
          /\ EdgeOver
       \/ /\ active[h] # None /\ NoFault
          /\ UNCHANGED active
          /\ EdgeOver
    /\ EdgeKeep

\* The plan is verified again under the guards; a rejected one retains them.
EdgeRejected ==
    /\ edge.step = "activate" /\ Fault
    /\ EdgeOver
    /\ EdgeKeep /\ UNCHANGED active

\* The services are activated and qualified; an unverified rollback retains
\* the guards.
EdgeActivate ==
    /\ edge.step = "activate"
    /\ \/ EdgeStep("release", edge.held) /\ NoFault
       \/ EdgeOver /\ Fault
    /\ EdgeKeep /\ UNCHANGED active

EdgeRelease(h) ==
    /\ edge.step = "release" /\ edge.held = h..N
    /\ \/ active' = [active EXCEPT ![h] = None] /\ NoFault
       \/ /\ \E a \in {None, "incomplete", Edge} : active' = [active EXCEPT ![h] = a]
          /\ Fault
    /\ IF edge.held = {h} THEN EdgeOver ELSE EdgeStep("release", edge.held \ {h})
    /\ EdgeKeep

-----------------------------------------------------------------------------
Init ==
    /\ active = [h \in Hosts |-> None]
    /\ consumed = [h \in Hosts |-> [p \in Plans |-> None]]
    /\ debris = {}
    /\ haproxy = "up"
    /\ artifact = [p \in Plans |-> "absent"]
    /\ stale = {} /\ drifted = {}
    /\ pc = "idle" /\ mode = None /\ plan = None /\ fresh = FALSE
    /\ ans = [h \in Hosts |-> "skip"] /\ seen = [h \in Hosts |-> None] /\ present = {}
    /\ result = [h \in Hosts |-> "not_run"]
    /\ late = [h \in Hosts |-> None]
    /\ edge = [step |-> "acquire", held |-> {}]
    /\ faults = 0 /\ reported = {} /\ overtaken = {}

\* A step of the running playbook.
Step == pc # "idle" /\
    \/ \E h \in Hosts : Ask(h) \/ AskInspect(h)
    \/ \E c \in Contexts : Approved(c) \/ Declined(c)
    \/ Discovered \/ Rejected \/ NothingRetained
    \/ Claimed \/ Recheck \/ Armed \/ Stop \/ Proof \/ Proved \/ Reinspected
    \/ FailRecorded \/ Restored \/ Smoke \/ Finished \/ Report

EdgeNext ==
    \/ EdgeRejected \/ EdgeActivate
    \/ \E h \in Hosts : EdgeAcquire(h) \/ EdgeRelease(h)

\* The fixed recovery route.
Recover == Start("recover", None)

Next ==
    \/ \E p \in Plans : Publish(p) \/ Expire(p) \/ Drift(p)
    \/ \E p \in Plans : Start("test", p)
    \/ Recover \/ Step \/ Crash \/ EdgeNext
    \/ \E h \in Hosts : Land(h)

Spec == Init /\ [][Next]_vars

\* Ansible runs a play to its end, a started activation likewise, and the
\* operator runs the recovery route again as long as records are retained.
FairSpec == /\ Spec /\ WF_vars(Step) /\ SF_vars(Recover)
            /\ WF_vars(edge.held # {} /\ EdgeNext)

-----------------------------------------------------------------------------
\* Every variable has its type: a record has one of the phases and outcomes that
\* _record admits, whatever command wrote it.
TypeOK ==
    /\ active \in [Hosts -> Plans \cup {None, Edge, "incomplete"}]
    /\ consumed \in [Hosts -> [Plans -> Record \cup {None}]]
    /\ debris \subseteq Hosts
    /\ haproxy \in {"up", "stopped"}
    /\ artifact \in [Plans -> {"absent", "partial", "whole"}]
    /\ stale \subseteq Plans /\ drifted \subseteq Plans
    /\ pc \in Commands \cup {"idle", "none", "recheck", "stop", "proof", "smoke", "report"}
    /\ mode \in {None, "test", "recover"} /\ plan \in Plans \cup {None}
    /\ fresh \in BOOLEAN
    /\ ans \in [Hosts -> {"wait", "skip", "no", "absent", "record"}]
    /\ seen \in [Hosts -> [plan : Plans, rec : Record] \cup {None}]
    /\ present \subseteq Hosts
    /\ result \in [Hosts -> {"not_run", "failed", "passed"}]
    /\ late \in [Hosts -> [cmd : Commands, plan : Plans] \cup {None}]
    /\ edge \in [step : {"acquire", "activate", "release"}, held : SUBSET Hosts]
    /\ faults \in 0..MaxFaults /\ reported \subseteq Plans /\ overtaken \subseteq Hosts

(***************************************************************************)
(* Properties                                                              *)
(***************************************************************************)

\* While the owner's HAProxy is down for the test, one plan holds the guard
\* and an open record on every host: no crash, lost answer or late command
\* lets a host be released (finish) or go unclaimed (claim) under a fault.
HaproxyReserved == haproxy = "stopped" =>
    \E p \in Plans : \A h \in Hosts :
        /\ active[h] = p
        /\ consumed[h][p] # None /\ consumed[h][p].phase # "closed"

\* An activation that touches the services holds every guard it has not yet
\* released, and no failover fault is in place.
ActivationExclusive == edge.step \in {"activate", "release"} =>
    /\ haproxy = "up"
    /\ \A h \in edge.held : active[h] = Edge

\* A test reported as passed left every host released with a closed, proven
\* record; the one exception is a fail of a dead run that lands after the
\* restore answers the report is taken from.
PassedProven == \A p \in reported : \A h \in Hosts :
    /\ consumed[h][p] # None /\ consumed[h][p].phase = "closed"
    /\ consumed[h][p].outcome = "proven" \/ h \in overtaken
    /\ active[h] # p

\* Records are never removed, a failed outcome never becomes anything else and
\* a closed record never changes, in whatever order commands land.
OutcomePermanent == [][\A h \in Hosts, p \in Plans : consumed[h][p] # None =>
    LET r == consumed[h][p]  s == consumed'[h][p] IN
    /\ s # None
    /\ r.outcome = "failed" => s.outcome = "failed"
    /\ r.phase = "closed" => s = r]_vars

\* The abstract state of a plan: the owner's record says whether it is settled.
PlanState(p) ==
    IF haproxy = "stopped" /\ active[Owner] = p THEN "faulted"
    ELSE IF /\ consumed[Owner][p] # None
            /\ consumed[Owner][p].phase \in {"restoring", "closed"} THEN "settled"
    ELSE IF \E h \in Hosts : consumed[h][p] # None THEN "reserved"
    ELSE "unused"

Once == INSTANCE FaultOnce WITH st <- [p \in Plans |-> PlanState(p)]

\* The detailed test implements FaultOnce: one fault per reviewed plan over
\* any number of runs, replays and recoveries.
OneFault == Once!Spec

\* Durable states no command repairs: a temporary file, an active directory
\* without its owner, an owner without its record.
Incomplete(h) == \/ h \in debris \/ active[h] = "incomplete"
                 \/ \E p \in Plans : active[h] = p /\ consumed[h][p] = None

\* A stopped HAProxy is started again, even if the plan has expired or the
\* hosts were reconfigured; only a killed guard command can prevent it.
HaproxyRestored == haproxy = "stopped" ~>
    haproxy = "up" \/ \E h \in Hosts : Incomplete(h)

\* An activation stopped and kept its guard on h.
Kept(h) == active[h] = Edge /\ h \notin edge.held

\* A reserved plan is released on every host, partial claims included, unless
\* the hosts no longer match its evidence, a guard command was killed or an
\* activation kept a guard.
TransactionEnds == \A p \in Plans :
    (\E h \in Hosts : active[h] = p) ~>
        \/ \A h \in Hosts : active[h] # p
        \/ p \in drifted
        \/ \E h \in Hosts : Incomplete(h) \/ Kept(h)
=============================================================================
