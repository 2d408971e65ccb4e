--------------------------- MODULE FailoverProofs ---------------------------
(* Proofs about Failover, for every value of its constants. *)
EXTENDS Failover, TLAPS

(***************************************************************************)
(* The inductive invariant.  RunFacts: what a run of the playbook knows at *)
(* each of its steps.  LateFacts: a command of a dead run acts on a record *)
(* that is there.  FreshFacts: between the last claim and the proof every  *)
(* host is owned by the plan, and no command of a dead run can touch it.   *)
(* FaultFacts: the same, as far as it holds while HAProxy is down.         *)
(* PassFacts: what stands behind the results of a run and its report.      *)
(***************************************************************************)
Replies == {"wait", "skip", "no", "absent", "record"}
Tasks == Commands \cup {"idle", "none", "recheck", "stop", "proof", "smoke", "report"}
Calls == [cmd : Commands, plan : Plans] \cup {None}
Sightings == [plan : Plans, rec : Record] \cup {None}

GuardTypes ==
    /\ active \in [Hosts -> Plans \cup {None, Edge, "incomplete"}]
    /\ consumed \in [Hosts -> [Plans -> Record \cup {None}]]
    /\ debris \subseteq Hosts

EnvTypes ==
    /\ haproxy \in {"up", "stopped"}
    /\ artifact \in [Plans -> {"absent", "partial", "whole"}]
    /\ stale \subseteq Plans /\ drifted \subseteq Plans
    /\ late \in [Hosts -> Calls]
    /\ edge \in [step : {"acquire", "activate", "release"}, held : SUBSET Hosts]
    /\ reported \subseteq Plans /\ overtaken \subseteq Hosts

RunTypes ==
    /\ pc \in Tasks
    /\ mode \in {None, "test", "recover"} /\ plan \in Plans \cup {None}
    /\ ans \in [Hosts -> Replies]
    /\ seen \in [Hosts -> Sightings]
    /\ present \subseteq Hosts
    /\ result \in [Hosts -> {"not_run", "failed", "passed"}]

Marks == fresh \in BOOLEAN /\ faults \in 0..MaxFaults

Types == GuardTypes /\ EnvTypes /\ RunTypes

EdgeFacts ==
    /\ \A h \in edge.held : active[h] = Edge
    /\ edge.step \in {"activate", "release"} => N \in edge.held

Retaining == {"recheck", "arm", "stop", "proof", "prove"}
Restoring == {"fail", "restore", "smoke", "finish"}

RunFacts ==
    /\ pc \notin {"idle", "discover", "none"} => plan \in Plans
    /\ pc = "discover" /\ mode = "test" => plan \in Plans
    /\ \A h \in Hosts :
          /\ ans[h] = "wait" => pc \in Commands
          /\ ans[h] = "record" => seen[h] \in [plan : Plans, rec : Record]
          /\ ans[h] = "record" /\ pc # "discover" =>
                /\ plan \in Plans /\ seen[h].plan = plan
                /\ consumed[h][plan] # None
          /\ pc \in Retaining => consumed[h][plan] # None
          /\ pc \in Restoring /\ h \in present => consumed[h][plan] # None
          /\ pc \in Restoring /\ ans[h] # "skip" => h \in present

LateFacts == \A h \in Hosts :
    late[h] # None /\ late[h].cmd # "claim" => consumed[h][late[h].plan] # None

\* No command c of a dead run is to land on h for the plan p.
Quiet(h, p, c) == late[h] # None /\ late[h].plan = p => late[h].cmd # c

Reserved(h) ==
    /\ active[h] = plan
    /\ consumed[h][plan] # None /\ consumed[h][plan].phase \in {"claimed", "armed"}
    /\ \A c \in Commands \ {"claim"} : Quiet(h, plan, c)

FreshFacts == \A h \in Hosts :
    \/ pc \in {"recheck", "arm", "stop", "proof"}
    \/ pc = "claim" /\ ans[h] = "record"
    => Reserved(h)

\* p holds the guard and an open record on h, and no finish is to land there.
Holds(p, h) ==
    /\ active[h] = p
    /\ consumed[h][p] # None /\ consumed[h][p].phase # "closed"
    /\ Quiet(h, p, "finish")

FaultFacts ==
    /\ haproxy = "stopped" => \E p \in Plans : \A h \in Hosts : Holds(p, h)
    /\ pc = "finish" => haproxy = "up"

Proven(h, p) == consumed[h][p].outcome = "proven" \/ h \in overtaken

PassFacts ==
    /\ \A h \in Hosts :
          /\ pc = "restore" /\ ans[h] = "record" /\ seen[h].rec.outcome = "proven"
                => Proven(h, plan)
          /\ pc \in {"smoke", "finish"} /\ result[h] = "passed"
                => h \in present /\ Proven(h, plan)
          /\ pc = "finish" /\ ans[h] = "record" =>
                consumed[h][plan].phase = "closed" /\ active[h] # plan
    /\ PassedProven

\* What a restore answer of the owner says, for the start that follows it.
SettleFacts == pc = "restore" /\ ans[Owner] = "record" =>
    /\ consumed[Owner][plan].phase \in {"restoring", "closed"}
    /\ seen[Owner].rec.phase = "restoring" /\ haproxy = "stopped" => active[Owner] = plan

IInv == /\ Types /\ EdgeFacts /\ RunFacts /\ LateFacts /\ FreshFacts
        /\ FaultFacts /\ PassFacts /\ SettleFacts
-----------------------------------------------------------------------------
(***************************************************************************)
(* The guard: what one command, served, lost or killed, does to a host.    *)
(***************************************************************************)
Serve(c, h, p) == Done(c, h, p) \/ Killed(c, h, p) \/ UNCHANGED guards

\* Only the record of the plan and the owner of the host can change.
Local(h, p) ==
    /\ \A g \in Hosts \ {h} : active'[g] = active[g] /\ consumed'[g] = consumed[g]
    /\ \A q \in Plans \ {p} : consumed'[h][q] = consumed[h][q]

Claims(h, p) ==
    /\ active[h] = None /\ consumed[h][p] = None
    /\ \/ consumed'[h][p] = Rec("claimed", "pending") /\ active'[h] = p
       \/ consumed'[h][p] = None /\ active'[h] \in {p, "incomplete"}

\* An open record that the host's owner names is replaced.
Replaces(c, h, p) ==
    /\ active[h] = p /\ consumed[h][p] # None /\ consumed[h][p].phase # "closed"
    /\ Accepts(c, h, consumed[h][p])
    /\ consumed'[h][p] = Becomes(c, consumed[h][p])
    /\ active'[h] = p \/ (c = "finish" /\ active'[h] \in {None, "incomplete"})

Releases(h, p) ==
    /\ consumed[h][p] # None /\ consumed[h][p].phase = "closed"
    /\ consumed'[h][p] = consumed[h][p]
    /\ active[h] \in {p, None} /\ active'[h] \in {None, "incomplete"}

Effect(c, h, p) ==
    /\ Local(h, p)
    /\ \/ active'[h] = active[h] /\ consumed'[h][p] = consumed[h][p]
       \/ c = "claim" /\ Claims(h, p)
       \/ c # "claim" /\ Replaces(c, h, p)
       \/ c = "finish" /\ Releases(h, p)

\* What a command makes of a record it accepts.
LEMMA BecomesRecord ==
    ASSUME NEW r \in Record, NEW c \in Commands, NEW h \in Hosts, Accepts(c, h, r)
    PROVE  /\ Becomes(c, r) \in Record
           /\ r.phase = "closed" => Becomes(c, r) = r
           /\ r.phase # "closed" => (Becomes(c, r).phase = "closed" <=> c = "finish")
           /\ r.outcome = "failed" => Becomes(c, r).outcome = "failed"
           /\ r.outcome = "proven" /\ c # "fail" => Becomes(c, r).outcome = "proven"
           /\ r.phase = "restoring" => Becomes(c, r).phase \in {"restoring", "closed"}
           /\ c = "arm" => Becomes(c, r).phase = "armed"
           /\ c = "restore" => Becomes(c, r).phase \in {"restoring", "closed"}
           /\ c = "finish" => Becomes(c, r).outcome = r.outcome
  <1>0. r.phase \in Phases /\ r.outcome \in {"pending", "proven", "failed"}
    BY DEF Record
  <1>1. CASE r.phase = "closed"
    <2>1. c \in {"restore", "finish"}
      BY <1>1 DEF Accepts
    <2>2. Becomes(c, r) = r
      BY <1>1 DEF Becomes
    <2> QED
      BY <1>1, <2>1, <2>2
  <1>2. CASE r.phase # "closed" /\ c = "arm"
    <2>1. Becomes(c, r) = [r EXCEPT !.phase = "armed"] /\ r = Rec("claimed", "pending")
      BY <1>2 DEF Accepts, Becomes
    <2> QED
      BY <1>2, <2>1 DEF Rec, Record, Phases
  <1>3. CASE r.phase # "closed" /\ c = "prove"
    <2>1. Becomes(c, r) = Rec("failover-proven", "proven") /\ r.outcome = "pending"
          /\ r.phase # "restoring"
      BY <1>3 DEF Accepts, Becomes, Rec
    <2> QED
      BY <1>3, <2>1 DEF Rec, Record, Phases
  <1>4. CASE r.phase # "closed" /\ c = "fail"
    <2>1. Becomes(c, r) = Rec(IF r.phase = "failover-proven" THEN "restoring" ELSE r.phase, "failed")
      BY <1>4 DEF Becomes
    <2> QED
      BY <1>0, <1>4, <2>1 DEF Rec, Record, Phases
  <1>5. CASE r.phase # "closed" /\ c = "restore"
    <2>1. Becomes(c, r) = Rec("restoring", IF r.outcome = "pending" THEN "failed" ELSE r.outcome)
      BY <1>5 DEF Becomes
    <2> QED
      BY <1>0, <1>5, <2>1 DEF Rec, Record, Phases
  <1>6. CASE r.phase # "closed" /\ c = "finish"
    <2>1. Becomes(c, r) = [r EXCEPT !.phase = "closed"]
      BY <1>6 DEF Becomes
    <2> QED
      BY <1>0, <1>6, <2>1 DEF Record, Phases
  <1> QED
    BY <1>1, <1>2, <1>3, <1>4, <1>5, <1>6 DEF Accepts

LEMMA ServeEffect ==
    ASSUME GuardTypes, NEW c \in Commands, NEW h \in Hosts, NEW p \in Plans, Serve(c, h, p)
    PROVE  Effect(c, h, p) /\ GuardTypes'
  <1> USE FailoverAssumption, NoneAssumption
  <1> consumed[h] \in [Plans -> Record \cup {None}] /\ consumed[h][p] \in Record \cup {None}
    BY DEF GuardTypes
  <1>0. CASE UNCHANGED guards
    BY <1>0 DEF guards, Effect, Local, GuardTypes
  <1>1. CASE c = "claim" /\ Done(c, h, p)
    <2>1. ~ClaimRefused(h, p) /\ active[h] = None /\ consumed[h][p] = None
      BY <1>1 DEF Done, Refused, ClaimRefused
    <2>2. consumed' = Put(h, p, Rec("claimed", "pending"))
          /\ active' = [active EXCEPT ![h] = p] /\ debris' = debris
      BY <1>1 DEF Done
    <2>3. Rec("claimed", "pending") \in Record
      BY DEF Rec, Record, Phases
    <2> QED
      BY <1>1, <2>1, <2>2, <2>3 DEF Put, Effect, Local, Claims, GuardTypes
  <1>2. CASE c = "claim" /\ Killed(c, h, p)
    <2>1. ClaimKilled(h, p)
      BY <1>2 DEF Killed
    <2>2. active[h] = None /\ consumed[h][p] = None
      BY <2>1 DEF ClaimKilled, ClaimRefused
    <2>3. /\ active' = [active EXCEPT ![h] = "incomplete"] \/ active' = [active EXCEPT ![h] = p]
          /\ consumed' = consumed /\ debris' \subseteq Hosts
      BY <2>1 DEF ClaimKilled, GuardTypes
    <2> QED
      BY <1>2, <2>2, <2>3 DEF Effect, Local, Claims, GuardTypes
  <1>3. ASSUME c # "claim", ~Refused(c, h, p)
        PROVE  /\ consumed[h][p] \in Record /\ Accepts(c, h, consumed[h][p])
               /\ Becomes(c, consumed[h][p]) \in Record
               /\ active[h] = p \/ (active[h] = None /\ consumed[h][p].phase = "closed")
               /\ consumed[h][p].phase = "closed" => /\ Becomes(c, consumed[h][p]) = consumed[h][p]
                                                     /\ c \in {"restore", "finish"}
    <2>1. consumed[h][p] \in Record /\ Accepts(c, h, consumed[h][p]) /\ Owned(h, p)
      BY <1>3 DEF Refused, Retained
    <2>2. consumed[h][p].phase = "closed" => c \in {"restore", "finish"}
      BY <2>1 DEF Accepts
    <2>3. /\ Becomes(c, consumed[h][p]) \in Record
          /\ consumed[h][p].phase = "closed" => Becomes(c, consumed[h][p]) = consumed[h][p]
      BY <2>1, BecomesRecord
    <2> QED
      BY <2>1, <2>2, <2>3 DEF Owned
  <1>4. CASE c # "claim" /\ Done(c, h, p)
    <2>1. ~Refused(c, h, p) /\ debris' = debris
          /\ consumed' = Put(h, p, Becomes(c, consumed[h][p]))
          /\ active' = [active EXCEPT ![h] = IF c = "finish" THEN None ELSE active[h]]
      BY <1>4 DEF Done
    <2> HIDE DEF Put
    <2>2. /\ consumed' = [consumed EXCEPT ![h] = [consumed[h] EXCEPT ![p] = Becomes(c, consumed[h][p])]]
          /\ consumed'[h][p] = Becomes(c, consumed[h][p])
      BY <2>1 DEF Put, GuardTypes
    <2>3. Local(h, p)
      BY <2>1, <2>2 DEF Local, GuardTypes
    <2>4. GuardTypes'
      BY <2>1, <2>2, <1>3, <1>4 DEF GuardTypes
    <2>5. active'[h] = IF c = "finish" THEN None ELSE active[h]
      BY <2>1 DEF GuardTypes
    <2> QED
      BY <1>3, <1>4, <2>1, <2>2, <2>3, <2>4, <2>5 DEF Effect, Replaces, Releases
  <1>5. CASE c # "claim" /\ Killed(c, h, p)
    <2>1. CASE debris' = debris \cup {h} /\ UNCHANGED <<active, consumed>>
      BY <2>1 DEF Effect, Local, GuardTypes
    <2>2. CASE /\ c = "finish" /\ ~Refused(c, h, p) /\ active[h] = p
               /\ consumed' = Put(h, p, Becomes(c, consumed[h][p]))
               /\ \/ UNCHANGED active
                  \/ active' = [active EXCEPT ![h] = "incomplete"]
               /\ UNCHANGED debris
      <3>1. /\ consumed' = [consumed EXCEPT ![h] = [consumed[h] EXCEPT ![p] = Becomes(c, consumed[h][p])]]
            /\ consumed'[h][p] = Becomes(c, consumed[h][p])
        BY <2>2 DEF Put, GuardTypes
      <3>2. Local(h, p)
        BY <2>2, <3>1 DEF Local, GuardTypes
      <3>3. GuardTypes'
        BY <2>2, <3>1, <1>3, <1>5 DEF GuardTypes
      <3>4. active'[h] \in {p, "incomplete"}
        BY <2>2 DEF GuardTypes
      <3> QED
        BY <1>3, <1>5, <2>2, <3>1, <3>2, <3>3, <3>4 DEF Effect, Replaces, Releases
    <2> QED
      BY <1>5, <2>1, <2>2 DEF Killed
  <1> QED
    BY <1>0, <1>1, <1>2, <1>4, <1>5 DEF Serve
\* What every command leaves alone, on every host and for every plan.
LEMMA EffectKeeps ==
    ASSUME GuardTypes, NEW c \in Commands, NEW h \in Hosts, NEW p \in Plans, Effect(c, h, p),
           NEW g \in Hosts, NEW q \in Plans, consumed[g][q] # None
    PROVE  /\ consumed'[g][q] # None
           /\ consumed[g][q].phase = "closed" => consumed'[g][q] = consumed[g][q]
           /\ consumed[g][q].outcome = "failed" => consumed'[g][q].outcome = "failed"
           /\ consumed[g][q].outcome = "proven" /\ ~(c = "fail" /\ g = h /\ q = p)
                => consumed'[g][q].outcome = "proven"
           /\ consumed[g][q].phase = "restoring"
                => consumed'[g][q].phase \in {"restoring", "closed"}
           /\ active[g] # q => active'[g] # q
  <1> USE FailoverAssumption, NoneAssumption
  <1>0. consumed[g][q] \in Record
    BY DEF GuardTypes
  <1>1. CASE ~(g = h /\ q = p)
    <2>1. consumed'[g][q] = consumed[g][q]
      BY <1>1 DEF Effect, Local
    <2>2. active[g] # q => active'[g] # q
      BY <1>1 DEF Effect, Local, Claims, Replaces, Releases
    <2> QED
      BY <1>0, <2>1, <2>2 DEF Record
  <1>2. CASE g = h /\ q = p /\ Replaces(c, h, p)
    <2>1. consumed'[g][q] = Becomes(c, consumed[g][q]) /\ Accepts(c, g, consumed[g][q])
          /\ active[g] = q
      BY <1>2 DEF Replaces
    <2> QED
      BY <1>0, <1>2, <2>1, BecomesRecord
  <1>3. CASE g = h /\ q = p /\ ~Replaces(c, h, p)
    <2>1. consumed'[g][q] = consumed[g][q] /\ (active[g] # q => active'[g] # q)
      BY <1>3 DEF Effect, Claims, Releases
    <2> QED
      BY <1>0, <2>1 DEF Record
  <1> QED
    BY <1>1, <1>2, <1>3

\* The guard of an activation is never taken over.
LEMMA EffectForeign ==
    ASSUME GuardTypes, NEW c \in Commands, NEW h \in Hosts, NEW p \in Plans, Effect(c, h, p),
           NEW g \in Hosts, active[g] = Edge
    PROVE  active'[g] = Edge
  BY FailoverAssumption DEF Effect, Local, Claims, Replaces, Releases

\* Only a finish of its plan opens a host that is owned with an open record.
LEMMA EffectHolds ==
    ASSUME GuardTypes, NEW c \in Commands, NEW h \in Hosts, NEW p \in Plans, Effect(c, h, p),
           NEW g \in Hosts, NEW q \in Plans,
           active[g] = q, consumed[g][q] # None, consumed[g][q].phase # "closed",
           ~(c = "finish" /\ g = h /\ q = p)
    PROVE  active'[g] = q /\ consumed'[g][q] # None /\ consumed'[g][q].phase # "closed"
  <1> USE FailoverAssumption, NoneAssumption
  <1>0. consumed[g][q] \in Record
    BY DEF GuardTypes
  <1>1. CASE ~(g = h /\ q = p)
    BY <1>1 DEF Effect, Local, Claims, Replaces, Releases
  <1>2. CASE g = h /\ q = p /\ Replaces(c, h, p)
    <2>1. consumed'[g][q] = Becomes(c, consumed[g][q]) /\ Accepts(c, g, consumed[g][q])
          /\ active'[g] = q
      BY <1>2 DEF Replaces
    <2> QED
      BY <1>0, <1>2, <2>1, BecomesRecord
  <1>3. CASE g = h /\ q = p /\ ~Replaces(c, h, p)
    BY <1>3 DEF Effect, Claims, Releases
  <1> QED
    BY <1>1, <1>2, <1>3

\* A host that was claimed stays so until its plan is proved, failed, restored
\* or finished there.
LEMMA EffectReserved ==
    ASSUME GuardTypes, NEW c \in Commands, NEW h \in Hosts, NEW p \in Plans, Effect(c, h, p),
           NEW g \in Hosts, NEW q \in Plans,
           active[g] = q, consumed[g][q] # None, consumed[g][q].phase \in {"claimed", "armed"},
           g = h /\ q = p => c \in {"claim", "arm"}
    PROVE  /\ active'[g] = q
           /\ consumed'[g][q] # None /\ consumed'[g][q].phase \in {"claimed", "armed"}
  <1> USE FailoverAssumption, NoneAssumption
  <1>0. consumed[g][q] \in Record
    BY DEF GuardTypes
  <1>1. CASE ~(g = h /\ q = p)
    BY <1>1 DEF Effect, Local, Claims, Replaces, Releases
  <1>2. CASE g = h /\ q = p /\ c = "arm" /\ Replaces(c, h, p)
    <2>1. consumed'[g][q] = Becomes(c, consumed[g][q]) /\ Accepts(c, g, consumed[g][q])
          /\ active'[g] = q
      BY <1>2 DEF Replaces
    <2> QED
      BY <1>0, <1>2, <2>1, BecomesRecord
  <1>3. CASE g = h /\ q = p /\ ~(c = "arm" /\ Replaces(c, h, p))
    BY <1>3 DEF Effect, Claims, Releases
  <1> QED
    BY <1>1, <1>2, <1>3
\* What the answer to a command says.
LEMMA DoneAnswer ==
    ASSUME GuardTypes, NEW c \in Commands, NEW h \in Hosts, NEW p \in Plans, Done(c, h, p)
    PROVE  /\ consumed'[h][p] \in Record
           /\ c = "claim" => /\ consumed[h][p] = None
                             /\ active'[h] = p /\ consumed'[h][p].phase = "claimed"
           /\ c = "restore" => /\ consumed'[h][p].phase \in {"restoring", "closed"}
                               /\ consumed'[h][p].phase = "restoring" => active'[h] = p
           /\ c = "finish" => consumed'[h][p].phase = "closed" /\ active'[h] = None
  <1> USE FailoverAssumption, NoneAssumption
  <1>0. consumed[h][p] \in Record \cup {None}
    BY DEF GuardTypes
  <1>1. CASE c = "claim"
    <2>1. consumed[h][p] = None
      BY <1>1 DEF Done, Refused, ClaimRefused
    <2>2. consumed' = Put(h, p, Rec("claimed", "pending")) /\ active' = [active EXCEPT ![h] = p]
      BY <1>1 DEF Done
    <2>3. consumed'[h][p] = Rec("claimed", "pending") /\ active'[h] = p
      BY <2>2 DEF Put, GuardTypes
    <2> QED
      BY <1>1, <2>1, <2>3 DEF Rec, Record, Phases
  <1>2. CASE c # "claim"
    <2>1. /\ consumed[h][p] \in Record /\ Accepts(c, h, consumed[h][p])
          /\ active[h] = p \/ (active[h] = None /\ consumed[h][p].phase = "closed")
      BY <1>0, <1>2 DEF Done, Refused, Retained, Owned
    <2>2. /\ consumed' = Put(h, p, Becomes(c, consumed[h][p]))
          /\ active' = [active EXCEPT ![h] = IF c = "finish" THEN None ELSE active[h]]
      BY <1>2 DEF Done
    <2>3. /\ consumed'[h][p] = Becomes(c, consumed[h][p])
          /\ active'[h] = IF c = "finish" THEN None ELSE active[h]
      BY <2>2 DEF Put, GuardTypes
    <2>4. /\ Becomes(c, consumed[h][p]) \in Record
          /\ consumed[h][p].phase = "closed" => Becomes(c, consumed[h][p]) = consumed[h][p]
          /\ c = "restore" => Becomes(c, consumed[h][p]).phase \in {"restoring", "closed"}
          /\ c = "finish" => Becomes(c, consumed[h][p]).phase = "closed"
      BY <2>1, BecomesRecord
    <2> QED
      BY <1>2, <2>1, <2>3, <2>4
  <1> QED
    BY <1>1, <1>2

-----------------------------------------------------------------------------
(***************************************************************************)
(* Every step keeps the invariant.                                         *)
(***************************************************************************)
\* A guard command of the run.
LEMMA AskKeeps ==
    ASSUME IInv, NEW h \in Hosts, Ask(h)
    PROVE  IInv'
  <1> USE FailoverAssumption, NoneAssumption
  <1> Types /\ EdgeFacts /\ RunFacts /\ LateFacts /\ FreshFacts
      /\ FaultFacts /\ PassFacts /\ SettleFacts
    BY DEF IInv
  <1>1. pc \in Commands \ Inspections /\ plan \in Plans /\ ans[h] = "wait"
    BY DEF Ask, RunFacts, Turn, Commands, Inspections
  <1>2. Serve(pc, h, plan)
    BY DEF Ask, Serve
  <1>3. Effect(pc, h, plan) /\ GuardTypes'
    BY <1>1, <1>2, ServeEffect DEF Types
  <1>4. /\ UNCHANGED <<haproxy, pc, mode, plan, present, result, late>>
        /\ UNCHANGED <<artifact, stale, drifted, edge, reported, overtaken>>
    BY DEF Ask, env
  <1>5. \/ /\ Done(pc, h, plan)
           /\ ans' = [ans EXCEPT ![h] = "record"]
           /\ seen' = [seen EXCEPT ![h] = [plan |-> plan, rec |-> consumed'[h][plan]]]
        \/ /\ ans' = [ans EXCEPT ![h] = "no"]
           /\ seen' = [seen EXCEPT ![h] = None]
    BY DEF Ask, Reply
  <1>6. \A g \in Hosts \ {h} : ans'[g] = ans[g] /\ seen'[g] = seen[g]
    BY <1>5 DEF Types, RunTypes
  <1>7. \/ /\ Done(pc, h, plan) /\ ans'[h] = "record"
           /\ seen'[h] = [plan |-> plan, rec |-> consumed'[h][plan]]
           /\ consumed'[h][plan] \in Record
           /\ pc = "claim" => /\ consumed[h][plan] = None
                              /\ active'[h] = plan /\ consumed'[h][plan].phase = "claimed"
           /\ pc = "restore" => /\ consumed'[h][plan].phase \in {"restoring", "closed"}
                                /\ consumed'[h][plan].phase = "restoring" => active'[h] = plan
           /\ pc = "finish" => consumed'[h][plan].phase = "closed" /\ active'[h] = None
        \/ ans'[h] = "no" /\ seen'[h] = None
    <2>1. CASE Done(pc, h, plan)
      BY <1>1, <1>5, <2>1, DoneAnswer DEF Types, RunTypes
    <2>2. CASE ~Done(pc, h, plan)
      BY <1>5, <2>2 DEF Types, RunTypes
    <2> QED
      BY <2>1, <2>2
  <1>8. \A g \in Hosts, q \in Plans : consumed[g][q] # None =>
           /\ consumed'[g][q] # None
           /\ consumed[g][q].phase = "closed" => consumed'[g][q] = consumed[g][q]
           /\ consumed[g][q].outcome = "proven" /\ pc # "fail"
                => consumed'[g][q].outcome = "proven"
           /\ consumed[g][q].phase = "restoring"
                => consumed'[g][q].phase \in {"restoring", "closed"}
           /\ active[g] # q => active'[g] # q
    BY <1>1, <1>3, EffectKeeps DEF Types
  <1> HIDE DEF Ask, Done, Effect
  <1>a. Types'
    <2>1. ans' \in [Hosts -> Replies]
      BY <1>5 DEF Types, RunTypes, Replies
    <2>2. seen' \in [Hosts -> Sightings]
      <3>1. CASE seen' = [seen EXCEPT ![h] = None]
        BY <3>1 DEF Types, RunTypes, Sightings
      <3>2. CASE seen' # [seen EXCEPT ![h] = None]
        <4>1. seen' = [seen EXCEPT ![h] = seen'[h]]
          BY <1>5, <3>2 DEF Types, RunTypes
        <4>2. seen'[h] \in Sightings
          BY <1>7, <1>1 DEF Sightings
        <4> QED
          BY <4>1, <4>2 DEF Types, RunTypes
      <3> QED
        BY <3>1, <3>2
    <2> QED
      BY <1>3, <1>4, <2>1, <2>2 DEF Types, EnvTypes, RunTypes
  <1>b. EdgeFacts'
    BY <1>1, <1>3, <1>4, EffectForeign DEF EdgeFacts, Types, EnvTypes
  <1>c. RunFacts'
    BY <1>1, <1>4, <1>6, <1>7, <1>8 DEF RunFacts, Retaining, Restoring, Types, RunTypes
  <1>d. LateFacts'
    BY <1>4, <1>8 DEF LateFacts, Types, EnvTypes, Calls
  <1>e. FreshFacts'
    <2> SUFFICES ASSUME NEW g \in Hosts,
                        \/ pc \in {"recheck", "arm", "stop", "proof"}
                        \/ pc = "claim" /\ ans'[g] = "record"
                 PROVE  Reserved(g)'
      BY <1>4 DEF FreshFacts
    <2>1. CASE Reserved(g) /\ ~(g = h /\ pc = "claim")
      <3>1. g = h => pc = "arm"
        BY <1>1, <2>1 DEF Commands, Inspections
      <3>2. active'[g] = plan /\ consumed'[g][plan] # None
            /\ consumed'[g][plan].phase \in {"claimed", "armed"}
        BY <1>1, <1>3, <2>1, <3>1, EffectReserved DEF Reserved, Types
      <3> QED
        BY <1>4, <2>1, <3>2 DEF Reserved, Quiet
    <2>2. CASE g = h /\ pc = "claim"
      <3>1. consumed[h][plan] = None /\ active'[h] = plan
            /\ consumed'[h][plan] \in Record /\ consumed'[h][plan].phase = "claimed"
        BY <1>7, <2>2
      <3>2. \A c \in Commands \ {"claim"} : Quiet(h, plan, c)
        BY <3>1 DEF Quiet, LateFacts
      <3> QED
        BY <1>4, <2>2, <3>1, <3>2 DEF Reserved, Quiet
    <2> QED
      BY <1>6, <2>1, <2>2 DEF FreshFacts
  <1>f. FaultFacts'
    <2> SUFFICES ASSUME haproxy = "stopped"
                 PROVE  \E p \in Plans : \A g \in Hosts : Holds(p, g)'
      BY <1>4 DEF FaultFacts
    <2>1. PICK p \in Plans : \A g \in Hosts : Holds(p, g)
      BY DEF FaultFacts
    <2>2. pc # "finish"
      BY DEF FaultFacts
    <2>3. ASSUME NEW g \in Hosts PROVE Holds(p, g)'
      <3>1. active'[g] = p /\ consumed'[g][p] # None /\ consumed'[g][p].phase # "closed"
        BY <1>1, <1>3, <2>1, <2>2, EffectHolds DEF Holds, Types
      <3> QED
        BY <1>4, <2>1, <3>1 DEF Holds, Quiet
    <2> QED
      BY <2>3
  <1>g. PassFacts'
    BY <1>1, <1>4, <1>6, <1>7, <1>8 DEF PassFacts, PassedProven, Proven, RunFacts, Restoring, Types, RunTypes, EnvTypes
  <1>i. SettleFacts'
    <2>1. CASE h = Owner
      BY <1>4, <1>7, <2>1 DEF SettleFacts
    <2>2. CASE h # Owner
      <3>1. Owner \in Hosts /\ active'[Owner] = active[Owner] /\ consumed'[Owner] = consumed[Owner]
        BY <1>3, <2>2 DEF Hosts, Effect, Local
      <3> QED
        BY <1>4, <1>6, <2>2, <3>1 DEF SettleFacts
    <2> QED
      BY <2>1, <2>2
  <1> QED
    BY <1>a, <1>b, <1>c, <1>d, <1>e, <1>f, <1>g, <1>i DEF IInv
\* A command of a dead run: it finds no host that a fresh run has reserved or
\* that is held while HAProxy is down in a state it could change.
LEMMA LandKeeps ==
    ASSUME IInv, NEW h \in Hosts, Land(h)
    PROVE  IInv'
  <1> USE FailoverAssumption, NoneAssumption
  <1> Types /\ EdgeFacts /\ RunFacts /\ LateFacts /\ FreshFacts
      /\ FaultFacts /\ PassFacts /\ SettleFacts
    BY DEF IInv
  <1> DEFINE c == late[h].cmd
             p == late[h].plan
  <1>1. c \in Commands /\ p \in Plans /\ late[h] # None
    BY DEF Land, Types, EnvTypes, Calls
  <1>2. Serve(c, h, p)
    BY DEF Land, Serve
  <1> HIDE DEF c, p
  <1>3. Effect(c, h, p) /\ GuardTypes'
    BY <1>1, <1>2, ServeEffect DEF Types
  <1>4. /\ UNCHANGED <<haproxy, pc, mode, plan, ans, seen, present, result>>
        /\ UNCHANGED <<artifact, stale, drifted, edge, reported>>
        /\ late' = [late EXCEPT ![h] = None]
        /\ overtaken' \in SUBSET Hosts /\ overtaken \subseteq overtaken'
        /\ pc # "idle" /\ c = "fail" => h \in overtaken'
    BY DEF Land, run, c, Types, EnvTypes
  <1>5. \A g \in Hosts : late'[g] = None \/ late'[g] = late[g]
    BY <1>4 DEF Types, EnvTypes
  <1>6. \A g \in Hosts, q \in Plans : consumed[g][q] # None =>
           /\ consumed'[g][q] # None
           /\ consumed[g][q].phase = "closed" => consumed'[g][q] = consumed[g][q]
           /\ consumed[g][q].outcome = "proven" /\ ~(c = "fail" /\ g = h)
                => consumed'[g][q].outcome = "proven"
           /\ consumed[g][q].phase = "restoring"
                => consumed'[g][q].phase \in {"restoring", "closed"}
           /\ active[g] # q => active'[g] # q
    BY <1>1, <1>3, EffectKeeps DEF Types
  <1> HIDE DEF Land, Effect
  <1>a. Types'
    <2>1. late' \in [Hosts -> Calls]
      BY <1>4 DEF Types, EnvTypes, Calls
    <2> QED
      BY <1>3, <1>4, <2>1 DEF Types, EnvTypes, RunTypes
  <1>b. EdgeFacts'
    BY <1>1, <1>3, <1>4, EffectForeign DEF EdgeFacts, Types, EnvTypes
  <1>c. RunFacts'
    BY <1>4, <1>6 DEF RunFacts, Retaining, Restoring, Types, RunTypes
  <1>d. LateFacts'
    <2> SUFFICES ASSUME NEW g \in Hosts, late'[g] # None, late'[g].cmd # "claim"
                 PROVE  consumed'[g][late'[g].plan] # None
      BY DEF LateFacts
    <2>1. late'[g] = late[g] /\ late[g].plan \in Plans
      BY <1>5 DEF Types, EnvTypes, Calls
    <2> QED
      BY <1>6, <2>1 DEF LateFacts
  <1>e. FreshFacts'
    <2> SUFFICES ASSUME NEW g \in Hosts, Reserved(g), plan \in Plans
                 PROVE  Reserved(g)'
      BY <1>4 DEF FreshFacts, RunFacts
    <2>1. g = h /\ plan = p => c = "claim"
      BY <1>1 DEF Reserved, Quiet, c, p
    <2>2. active'[g] = plan /\ consumed'[g][plan] # None
          /\ consumed'[g][plan].phase \in {"claimed", "armed"}
      BY <1>1, <1>3, <2>1, EffectReserved DEF Reserved, Types
    <2> QED
      BY <1>4, <1>5, <2>2 DEF Reserved, Quiet
  <1>f. FaultFacts' /\ (haproxy = "stopped" => \A g \in Hosts : active'[g] = active[g])
    <2>1. CASE haproxy = "stopped"
      <3>1. PICK q \in Plans : \A g \in Hosts : Holds(q, g)
        BY <2>1 DEF FaultFacts
      <3>2. ASSUME NEW g \in Hosts PROVE Holds(q, g)' /\ active'[g] = active[g]
        <4>1. ~(c = "finish" /\ g = h /\ q = p)
          BY <1>1, <3>1 DEF Holds, Quiet, c, p
        <4>2. active'[g] = q /\ consumed'[g][q] # None /\ consumed'[g][q].phase # "closed"
          BY <1>1, <1>3, <3>1, <4>1, EffectHolds DEF Holds, Types
        <4> QED
          BY <1>5, <3>1, <4>2 DEF Holds, Quiet
      <3> QED
        BY <1>4, <2>1, <3>2 DEF FaultFacts
    <2>2. CASE haproxy # "stopped"
      BY <1>4, <2>2 DEF FaultFacts
    <2> QED
      BY <2>1, <2>2
  <1>g. PassFacts'
    <2>1. ASSUME NEW g \in Hosts, NEW q \in Plans, consumed[g][q] # None, Proven(g, q),
                 pc # "idle" \/ consumed[g][q].phase = "closed"
          PROVE  Proven(g, q)'
      BY <1>4, <1>6, <2>1 DEF Proven
    <2>2. PassedProven'
      BY <1>4, <1>6, <2>1 DEF PassFacts, PassedProven, Proven, Types, EnvTypes
    <2> QED
      BY <1>4, <1>6, <2>1, <2>2 DEF PassFacts, RunFacts, Restoring
  <1>i. SettleFacts'
    BY <1>4, <1>6, <1>f DEF SettleFacts, RunFacts, Hosts
  <1> QED
    BY <1>a, <1>b, <1>c, <1>d, <1>e, <1>f, <1>g, <1>i DEF IInv

\* An inspection changes nothing but its own answer.
LEMMA AskInspectKeeps ==
    ASSUME IInv, NEW h \in Hosts, AskInspect(h)
    PROVE  IInv'
  <1> USE FailoverAssumption, NoneAssumption
  <1> Types /\ EdgeFacts /\ RunFacts /\ LateFacts /\ FreshFacts
      /\ FaultFacts /\ PassFacts /\ SettleFacts
    BY DEF IInv
  <1>1. /\ pc \in Inspections /\ ans[h] = "wait"
        /\ UNCHANGED <<active, consumed, debris, haproxy, late>>
        /\ UNCHANGED <<artifact, stale, drifted, edge, reported, overtaken>>
        /\ UNCHANGED <<pc, mode, plan, present, result>>
    BY DEF AskInspect, Turn, Keep, guards, env
  <1>2. \E a \in Replies, q \in Plans \cup {None}, r \in Record \cup {None} :
           /\ ans' = [ans EXCEPT ![h] = a]
           /\ seen' = [seen EXCEPT ![h] = IF a = "record" THEN [plan |-> q, rec |-> r] ELSE None]
           /\ a = "record" => /\ q \in Plans /\ r = consumed[h][q] /\ r # None
                              /\ pc # "discover" => q = plan
           /\ a # "wait"
    <2> DEFINE p == IF pc = "discover" THEN None ELSE plan
               q == Selected(h, p)
               rec == IF q \in Plans THEN consumed[h][q] ELSE None
    <2>1. CASE Reply(h, "no", None, None)
      BY <2>1 DEF Reply, Replies
    <2>2. CASE Reply(h, Inspect(h, p), q, rec)
      <3>1. Inspect(h, p) \in {"record", "absent", "no"}
        BY DEF Inspect
      <3>2. pc # "discover" => p \in Plans
        BY <1>1 DEF RunFacts, Inspections
      <3>3. /\ q \in Plans \cup {None, Edge, "incomplete"}
            /\ p \in Plans => q = p
            /\ p \notin Plans => q = active[h]
        BY <3>2 DEF Selected, Types, GuardTypes
      <3>4. CASE Inspect(h, p) = "record"
        <4>1. q # None /\ Retained(h, q)
          BY <3>4 DEF Inspect
        <4>2. q \in Plans
          BY <3>3, <4>1 DEF Retained, Blocked
        <4>3. rec = consumed[h][q] /\ rec \in Record
          BY <4>1, <4>2 DEF Retained, Types, GuardTypes
        <4>4. /\ ans' = [ans EXCEPT ![h] = "record"]
              /\ seen' = [seen EXCEPT ![h] = [plan |-> q, rec |-> rec]]
          BY <2>2, <3>4 DEF Reply
        <4>5. pc # "discover" => q = plan
          BY <3>2, <3>3
        <4> HIDE DEF q, rec
        <4> QED
          BY <4>2, <4>3, <4>4, <4>5 DEF Replies
      <3>5. CASE Inspect(h, p) # "record"
        <4>1. ans' = [ans EXCEPT ![h] = Inspect(h, p)] /\ seen' = [seen EXCEPT ![h] = None]
          BY <2>2, <3>5 DEF Reply
        <4> HIDE DEF p
        <4> QED
          BY <3>1, <3>5, <4>1 DEF Replies
      <3> QED
        BY <3>4, <3>5
    <2> QED
      BY <2>1, <2>2 DEF AskInspect
  <1>3. \A g \in Hosts \ {h} : ans'[g] = ans[g] /\ seen'[g] = seen[g]
    BY <1>2 DEF Types, RunTypes
  <1>4. /\ ans'[h] # "wait"
        /\ ans'[h] = "record" => /\ seen'[h] \in [plan : Plans, rec : Record]
                                 /\ pc # "discover" => /\ seen'[h].plan = plan
                                                       /\ consumed[h][plan] # None
    BY <1>2 DEF Types, RunTypes
  <1>a. Types'
    <2>1. ans' \in [Hosts -> Replies]
      BY <1>2 DEF Types, RunTypes
    <2>2. seen' \in [Hosts -> Sightings]
      BY <1>2 DEF Types, RunTypes, Sightings
    <2> QED
      BY <1>1, <2>1, <2>2 DEF Types, GuardTypes, EnvTypes, RunTypes
  <1>c. RunFacts'
    BY <1>1, <1>3, <1>4 DEF RunFacts, Retaining, Restoring, Inspections, Commands
  <1>e. FreshFacts'
    BY <1>1 DEF FreshFacts, Inspections
  <1> QED
    BY <1>1, <1>a, <1>c, <1>e DEF IInv, EdgeFacts, LateFacts, FaultFacts, Holds, Quiet,
       PassFacts, PassedProven, SettleFacts, Inspections
\* An activation takes only guards that are free and releases only its own.
LEMMA EdgeKeeps ==
    ASSUME IInv, EdgeNext
    PROVE  IInv' /\ \A h \in Hosts : active[h] \in Plans => active'[h] = active[h]
  <1> USE FailoverAssumption, NoneAssumption
  <1> Types /\ EdgeFacts /\ RunFacts /\ LateFacts /\ FreshFacts
      /\ FaultFacts /\ PassFacts /\ SettleFacts
    BY DEF IInv
  <1> edge \in [step : {"acquire", "activate", "release"}, held : SUBSET Hosts]
      /\ active \in [Hosts -> Plans \cup {None, Edge, "incomplete"}]
    BY DEF Types, GuardTypes, EnvTypes
  <1>1. UNCHANGED <<haproxy, run, artifact, stale, drifted, reported, overtaken, late, consumed, debris>>
    BY DEF EdgeNext, EdgeRejected, EdgeActivate, EdgeAcquire, EdgeRelease, EdgeKeep
  <1> DEFINE Own == /\ edge' \in [step : {"acquire", "activate", "release"}, held : SUBSET Hosts]
                    /\ \A h \in edge'.held : active'[h] = Edge
                    /\ edge'.step \in {"activate", "release"} => N \in edge'.held
             Free == /\ active' \in [Hosts -> Plans \cup {None, Edge, "incomplete"}]
                     /\ \A h \in Hosts : \/ active'[h] = active[h]
                                         \/ /\ active[h] \in {None, Edge}
                                            /\ active'[h] \in {None, Edge, "incomplete"}
  <1>2. ASSUME EdgeOver PROVE Own
    BY <1>2 DEF EdgeOver, EdgeStep
  <1>3. ASSUME EdgeRejected \/ EdgeActivate PROVE Own /\ Free
    <2>1. UNCHANGED active /\ (EdgeOver \/ EdgeStep("release", edge.held)) /\ edge.step = "activate"
      BY <1>3 DEF EdgeRejected, EdgeActivate
    <2>2. CASE EdgeStep("release", edge.held)
      BY <2>1, <2>2 DEF EdgeStep, EdgeFacts
    <2> QED
      BY <1>2, <2>1, <2>2
  <1>4. ASSUME NEW h \in Hosts, EdgeAcquire(h) PROVE Own /\ Free
    <2> edge.held = 1..(h - 1) /\ h \in 1..N /\ N \in Nat
      BY <1>4 DEF EdgeAcquire, Hosts
    <2>1. CASE /\ active[h] = None /\ active' = [active EXCEPT ![h] = Edge]
               /\ EdgeStep(IF h = N THEN "activate" ELSE "acquire", edge.held \cup {h})
      <3>1. \A g \in edge.held : g # h /\ active'[g] = Edge
        BY <2>1 DEF EdgeFacts
      <3>2. active'[h] = Edge
        BY <2>1
      <3>3. edge' = [step |-> IF h = N THEN "activate" ELSE "acquire", held |-> edge.held \cup {h}]
        BY <2>1 DEF EdgeStep
      <3>4. Free
        BY <2>1
      <3> QED
        BY <3>1, <3>2, <3>3, <3>4
    <2>2. CASE /\ active[h] = None /\ EdgeOver
               /\ \E a \in {"incomplete", Edge} : active' = [active EXCEPT ![h] = a]
      BY <1>2, <2>2
    <2>3. CASE UNCHANGED active /\ EdgeOver
      BY <1>2, <2>3
    <2> QED
      BY <1>4, <2>1, <2>2, <2>3 DEF EdgeAcquire
  <1>5. ASSUME NEW h \in Hosts, EdgeRelease(h) PROVE Own /\ Free
    <2> edge.held = h..N /\ h \in 1..N /\ N \in Nat /\ edge.step = "release"
      BY <1>5 DEF EdgeRelease, Hosts
    <2>1. PICK a \in {None, "incomplete", Edge} : active' = [active EXCEPT ![h] = a]
      BY <1>5 DEF EdgeRelease
    <2>2. active[h] = Edge
      BY DEF EdgeFacts
    <2>3. Free
      BY <2>1, <2>2
    <2>4. CASE edge.held # {h}
      <3>1. edge' = [step |-> "release", held |-> edge.held \ {h}] /\ h # N
        BY <1>5, <2>4 DEF EdgeRelease, EdgeStep
      <3>2. \A g \in edge.held \ {h} : active'[g] = Edge
        BY <2>1 DEF EdgeFacts
      <3> QED
        BY <2>3, <3>1, <3>2
    <2>5. CASE edge.held = {h}
      BY <1>2, <1>5, <2>3, <2>5 DEF EdgeRelease
    <2> QED
      BY <2>4, <2>5
  <1>6. Own /\ Free
    BY <1>3, <1>4, <1>5 DEF EdgeNext
  <1> HIDE DEF EdgeNext
  <1>7. \A h \in Hosts, p \in Plans : (active[h] = p) <=> (active'[h] = p)
    BY <1>6
  <1>8. /\ UNCHANGED <<pc, mode, plan, ans, seen, present, result>>
        /\ UNCHANGED <<consumed, debris, haproxy, artifact, stale, drifted, reported, overtaken, late>>
    BY <1>1 DEF run
  <1>a. Types' /\ EdgeFacts'
    BY <1>6, <1>8 DEF Types, GuardTypes, EnvTypes, RunTypes, EdgeFacts
  <1>c. RunFacts' /\ LateFacts'
    BY <1>8 DEF RunFacts, LateFacts
  <1>e. FreshFacts'
    <2> SUFFICES ASSUME NEW h \in Hosts, Reserved(h), plan \in Plans
                 PROVE  Reserved(h)'
      BY <1>8 DEF FreshFacts, RunFacts
    <2> QED
      BY <1>7, <1>8 DEF Reserved, Quiet
  <1>f. FaultFacts'
    <2>1. ASSUME NEW p \in Plans, \A h \in Hosts : Holds(p, h)
          PROVE  \A h \in Hosts : Holds(p, h)'
      BY <1>7, <1>8, <2>1 DEF Holds, Quiet
    <2> QED
      BY <1>8, <2>1 DEF FaultFacts
  <1>g. PassFacts'
    BY <1>7, <1>8 DEF PassFacts, PassedProven, Proven, RunFacts, Types, EnvTypes
  <1>i. SettleFacts'
    BY <1>7, <1>8 DEF SettleFacts, RunFacts, Hosts
  <1> QED
    BY <1>6, <1>a, <1>c, <1>e, <1>f, <1>g, <1>i DEF IInv

\* The next task of the run is sent, or the run ends: what has to be shown.
LEMMA CallKeeps ==
    ASSUME IInv, NEW task \in Tasks, NEW on \in SUBSET Hosts, Call(task, on),
           UNCHANGED <<active, consumed, debris, artifact, stale, drifted, edge, overtaken>>,
           haproxy' \in {"up", "stopped"}, late' \in [Hosts -> Calls], reported' \subseteq Plans,
           mode' \in {None, "test", "recover"}, plan' \in Plans \cup {None},
           present' \subseteq Hosts, result' \in [Hosts -> {"not_run", "failed", "passed"}],
           LateFacts', FaultFacts', PassedProven',
           task \notin {"idle", "discover", "none"} => plan' \in Plans,
           task = "discover" /\ mode' = "test" => plan' \in Plans,
           on # {} => task \in Commands,
           task \in Retaining => \A h \in Hosts : consumed[h][plan'] # None,
           task \in Restoring => on \subseteq present' /\ \A h \in present' : consumed[h][plan'] # None,
           task \in {"recheck", "arm", "stop", "proof"} =>
               UNCHANGED <<plan, late>> /\ \A h \in Hosts : Reserved(h),
           task \in {"smoke", "finish"} => \A h \in Hosts : result'[h] = "passed" =>
               h \in present' /\ Proven(h, plan')
    PROVE  IInv'
  <1>1. /\ pc' = task /\ seen' = [h \in Hosts |-> None]
        /\ ans' = [h \in Hosts |-> IF h \in on THEN "wait" ELSE "skip"]
    BY DEF Call
  <1>2. \A h \in Hosts : ans'[h] = IF h \in on THEN "wait" ELSE "skip"
    BY <1>1
  <1>a. Types'
    BY <1>1 DEF IInv, Types, GuardTypes, EnvTypes, RunTypes, Replies, Sightings
  <1>b. EdgeFacts'
    BY DEF IInv, EdgeFacts
  <1>c. RunFacts'
    BY <1>1, <1>2 DEF RunFacts
  <1>e. FreshFacts'
    BY <1>1, <1>2 DEF FreshFacts, Reserved, Quiet
  <1>g. PassFacts'
    BY <1>1, <1>2 DEF PassFacts, Proven
  <1>i. SettleFacts'
    BY <1>2, FailoverAssumption DEF SettleFacts, Hosts
  <1> QED
    BY <1>a, <1>b, <1>c, <1>e, <1>g, <1>i DEF IInv
\* The same for a step that changes nothing outside the run.
LEMMA SendKeeps ==
    ASSUME IInv, NEW task \in Tasks, NEW on \in SUBSET Hosts, Call(task, on),
           UNCHANGED <<guards, haproxy, env, late>>,
           mode' \in {None, "test", "recover"}, plan' \in Plans \cup {None},
           present' \subseteq Hosts, result' \in [Hosts -> {"not_run", "failed", "passed"}],
           task \notin {"idle", "discover", "none"} => plan' \in Plans,
           task = "discover" /\ mode' = "test" => plan' \in Plans,
           on # {} => task \in Commands,
           task \in Retaining => \A h \in Hosts : consumed[h][plan'] # None,
           task \in Restoring => on \subseteq present' /\ \A h \in present' : consumed[h][plan'] # None,
           task \in {"recheck", "arm", "stop", "proof"} =>
               plan' = plan /\ \A h \in Hosts : Reserved(h),
           task \in {"smoke", "finish"} => \A h \in Hosts : result'[h] = "passed" =>
               h \in present' /\ Proven(h, plan'),
           task = "finish" => haproxy = "up"
    PROVE  IInv'
  <1>1. /\ UNCHANGED <<active, consumed, debris, artifact, stale, drifted, edge, overtaken>>
        /\ UNCHANGED <<haproxy, late, reported>>
    BY DEF guards, env
  <1>2. /\ haproxy' \in {"up", "stopped"} /\ late' \in [Hosts -> Calls] /\ reported' \subseteq Plans
    BY <1>1 DEF IInv, Types, EnvTypes
  <1>3. LateFacts' /\ PassedProven'
    BY <1>1 DEF IInv, LateFacts, PassFacts, PassedProven
  <1>4. FaultFacts'
    BY <1>1 DEF IInv, FaultFacts, Holds, Quiet, Call
  <1> QED
    BY <1>1, <1>2, <1>3, <1>4, CallKeeps

\* The run ends, and with it what it knew.
LEMMA EndCalls ==
    ASSUME End
    PROVE  /\ Call("idle", {}) /\ "idle" \in Tasks /\ {} \in SUBSET Hosts
           /\ mode' = None /\ plan' = None /\ present' \subseteq Hosts
           /\ result' \in [Hosts -> {"not_run", "failed", "passed"}]
  BY DEF End, Call, Tasks

LEMMA EndKeeps ==
    ASSUME IInv, End, UNCHANGED <<guards, haproxy, env, late>>
    PROVE  IInv'
  BY EndCalls, SendKeeps DEF Retaining, Restoring

\* The steps up to the approval.
LEMMA OpeningKeeps ==
    ASSUME IInv,
           \/ \E m \in {"test", "recover"}, p \in Plans \cup {None} : Start(m, p)
           \/ Discovered \/ Rejected \/ NothingRetained \/ Report
           \/ \E c \in Contexts : Approved(c) \/ Declined(c)
    PROVE  IInv'
  <1> Types /\ RunFacts
    BY DEF IInv
  <1> DEFINE Same == UNCHANGED <<guards, haproxy, env, late>>
  <1>1. Types => /\ mode \in {None, "test", "recover"} /\ plan \in Plans \cup {None}
                 /\ present \subseteq Hosts
                 /\ result \in [Hosts -> {"not_run", "failed", "passed"}]
    BY DEF Types, RunTypes
  <1>2. ASSUME NEW m \in {"test", "recover"}, NEW p \in Plans \cup {None}, Start(m, p)
        PROVE  IInv'
    <2>1. /\ Call("discover", Hosts) /\ Same
          /\ mode' = m /\ plan' = p /\ present' = present /\ result' = result
          /\ m = "test" => p \in Plans
      BY <1>2 DEF Start, Keep
    <2>2. "discover" \in Tasks /\ "discover" \in Commands
      BY DEF Tasks, Commands
    <2> QED
      BY <1>1, <2>1, <2>2, SendKeeps DEF Retaining, Restoring
  <1>3. CASE Discovered
    <2>0. Same
      BY <1>3 DEF Discovered, Keep
    <2>1. CASE End
      BY <2>0, <2>1, EndKeeps
    <2>2. CASE Call("none", {}) /\ UNCHANGED <<mode, plan, fresh, present, result>>
      <3>1. "none" \in Tasks /\ {} \in SUBSET Hosts
        BY DEF Tasks
      <3> QED
        BY <1>1, <2>0, <2>2, <3>1, SendKeeps DEF Retaining, Restoring
    <2>3. CASE /\ \E p \in IF mode = "test" THEN {plan} ELSE FoundPlans : plan' = p
               /\ mode = "test" => plan \in Plans
               /\ Call("inspect", Hosts)
               /\ UNCHANGED <<mode, fresh, present, result>>
      <3>1. FoundPlans \subseteq Plans
        BY DEF FoundPlans, Found, RunFacts
      <3>2. plan' \in Plans
        BY <2>3, <3>1
      <3>3. "inspect" \in Tasks /\ "inspect" \in Commands
        BY DEF Tasks, Commands
      <3> QED
        BY <1>1, <2>0, <2>3, <3>2, <3>3, SendKeeps DEF Retaining, Restoring
    <2>4. mode = "test" => plan \in Plans
      BY <1>3 DEF Discovered, RunFacts
    <2> QED
      BY <1>3, <2>1, <2>2, <2>3, <2>4 DEF Discovered
  <1>4. CASE Rejected \/ NothingRetained \/ Report
    <2>1. End /\ Same
      BY <1>4 DEF Rejected, NothingRetained, Report, Keep
    <2> QED
      BY <2>1, EndKeeps
  <1>5. ASSUME NEW c \in Contexts, Declined(c) PROVE IInv'
    <2>1. End /\ Same
      BY <1>5 DEF Declined, Keep
    <2> QED
      BY <2>1, EndKeeps
  <1>6. ASSUME NEW c \in Contexts, Approved(c) PROVE IInv'
    <2>1. /\ pc = "inspect" /\ Same /\ UNCHANGED <<mode, plan, present, result>>
          /\ Call("reinspect", Hosts) \/ Call("claim", Hosts)
      BY <1>6 DEF Approved, Keep
    <2>2. plan \in Plans
      BY <2>1 DEF RunFacts
    <2>3. {"reinspect", "claim"} \subseteq Tasks /\ {"reinspect", "claim"} \subseteq Commands
      BY DEF Tasks, Commands
    <2>4. CASE Call("reinspect", Hosts)
      BY <1>1, <2>1, <2>2, <2>3, <2>4, SendKeeps DEF Retaining, Restoring
    <2>5. CASE Call("claim", Hosts)
      BY <1>1, <2>1, <2>2, <2>3, <2>5, SendKeeps DEF Retaining, Restoring
    <2> QED
      BY <2>1, <2>4, <2>5
  <1> QED
    BY <1>2, <1>3, <1>4, <1>5, <1>6
\* What the tasks of a test and of a restoration have in common.
LEMMA TaskNames ==
    /\ Retaining \cup Restoring \cup {"idle", "report", "reinspect"} \subseteq Tasks
    /\ {"arm", "prove", "fail", "restore", "finish", "reinspect"} \subseteq Commands
    /\ {} \in SUBSET Hosts /\ Hosts \in SUBSET Hosts /\ {Owner} \in SUBSET Hosts
  BY FailoverAssumption DEF Retaining, Restoring, Tasks, Commands, Hosts

\* A test that fails after every host was claimed.
LEMMA FailTestCalls ==
    ASSUME IInv, pc \in Retaining, FailTest
    PROVE  /\ Call("fail", Hosts) /\ present' = Hosts /\ plan \in Plans
           /\ result' \in [Hosts -> {"not_run", "failed", "passed"}]
           /\ \A h \in Hosts : consumed[h][plan] # None
  BY DEF FailTest, IInv, RunFacts, Retaining

LEMMA FailTestKeeps ==
    ASSUME IInv, pc \in Retaining, FailTest, UNCHANGED <<guards, haproxy, env, late>>,
           UNCHANGED <<mode, plan>>
    PROVE  IInv'
  <1>1. mode \in {None, "test", "recover"} /\ Hosts \subseteq Hosts
    BY DEF IInv, Types, RunTypes
  <1> QED
    BY <1>1, FailTestCalls, TaskNames, SendKeeps DEF Retaining, Restoring

\* The fault is injected while every host is reserved for the plan.
LEMMA FaultReserved ==
    ASSUME IInv, pc = "stop", UNCHANGED <<active, consumed, late>>,
           haproxy' \in {haproxy, "stopped"}, pc' # "finish"
    PROVE  FaultFacts'
  <1>1. plan \in Plans /\ \A h \in Hosts : Reserved(h)
    BY DEF IInv, RunFacts, FreshFacts
  <1>2. PICK p \in Plans : p = plan
    BY <1>1
  <1>3. ASSUME NEW h \in Hosts PROVE Holds(p, h)'
    BY <1>1, <1>2 DEF Reserved, Holds, Quiet, Commands
  <1> QED
    BY <1>3 DEF FaultFacts

\* From the claims to the proof.
LEMMA TestKeeps ==
    ASSUME IInv, Claimed \/ Recheck \/ Armed \/ Stop \/ Proof \/ Proved
    PROVE  IInv'
  <1> Types /\ RunFacts /\ FreshFacts
    BY DEF IInv
  <1> DEFINE Same == UNCHANGED <<guards, haproxy, env, late>>
  <1>0. /\ mode \in {None, "test", "recover"} /\ plan \in Plans \cup {None}
        /\ present \subseteq Hosts
        /\ result \in [Hosts -> {"not_run", "failed", "passed"}]
    BY DEF Types, RunTypes
  <1>00. pc \notin {"idle", "discover", "none"} => plan \in Plans
    BY DEF RunFacts
  <1>1. CASE Claimed
    <2>1. /\ pc = "claim" /\ Same /\ UNCHANGED <<mode, plan, present>>
          /\ result' \in [Hosts -> {"not_run", "failed", "passed"}]
      BY <1>1 DEF Claimed, Keep
    <2>2. CASE Found = Hosts
      <3>1. Call("recheck", {}) /\ \A h \in Hosts : Reserved(h)
        BY <1>1, <2>1, <2>2 DEF Claimed, Found, FreshFacts
      <3>2. \A h \in Hosts : consumed[h][plan] # None
        BY <3>1 DEF Reserved
      <3> QED
        BY <1>0, <1>00, <2>1, <3>1, <3>2, TaskNames, SendKeeps DEF Retaining, Restoring
    <2>3. CASE Found # Hosts
      <3>1. Call("reinspect", Hosts)
        BY <1>1, <2>3 DEF Claimed
      <3> QED
        BY <1>0, <1>00, <2>1, <3>1, TaskNames, SendKeeps DEF Retaining, Restoring
    <2> QED
      BY <2>2, <2>3
  <1>2. CASE Recheck
    <2>1. pc = "recheck" /\ Same /\ UNCHANGED <<mode, plan>>
      BY <1>2 DEF Recheck, Keep
    <2>2. CASE FailTest
      BY <2>1, <2>2, FailTestKeeps DEF Retaining
    <2>3. CASE Call("arm", {Owner}) /\ UNCHANGED <<present, result>>
      <3>1. \A h \in Hosts : Reserved(h) /\ consumed[h][plan] # None
        BY <2>1 DEF FreshFacts, Reserved
      <3> QED
        BY <1>0, <1>00, <2>1, <2>3, <3>1, TaskNames, SendKeeps DEF Retaining, Restoring
    <2> QED
      BY <1>2, <2>2, <2>3 DEF Recheck
  <1>3. CASE Armed
    <2>1. pc = "arm" /\ Same /\ UNCHANGED <<mode, plan>>
      BY <1>3 DEF Armed, Keep
    <2>2. CASE FailTest
      BY <2>1, <2>2, FailTestKeeps DEF Retaining
    <2>3. CASE Call("stop", {}) /\ UNCHANGED <<present, result>>
      <3>1. \A h \in Hosts : Reserved(h) /\ consumed[h][plan] # None
        BY <2>1 DEF FreshFacts, Reserved
      <3> QED
        BY <1>0, <1>00, <2>1, <2>3, <3>1, TaskNames, SendKeeps DEF Retaining, Restoring
    <2> QED
      BY <1>3, <2>2, <2>3 DEF Armed
  <1>4. CASE Stop
    <2>1. /\ pc = "stop" /\ UNCHANGED <<active, consumed, debris, artifact, stale, drifted, edge, overtaken>>
          /\ UNCHANGED <<late, reported, mode, plan>>
          /\ haproxy' \in {haproxy, "stopped"} /\ haproxy \in {"up", "stopped"}
      BY <1>4 DEF Stop, guards, env, Types, EnvTypes
    <2>2. /\ haproxy' \in {"up", "stopped"} /\ late' \in [Hosts -> Calls] /\ reported' \subseteq Plans
      BY <2>1 DEF Types, EnvTypes
    <2>3. LateFacts' /\ PassedProven'
      BY <2>1 DEF IInv, LateFacts, PassFacts, PassedProven
    <2>4. CASE FailTest
      <3>1. FaultFacts'
        BY <2>1, <2>4, FaultReserved DEF FailTest, Call
      <3> QED
        BY <1>0, <2>1, <2>2, <2>3, <2>4, <3>1, FailTestCalls, TaskNames, CallKeeps DEF Retaining, Restoring
    <2>5. CASE Call("proof", {}) /\ UNCHANGED <<present, result>>
      <3>1. \A h \in Hosts : Reserved(h) /\ consumed[h][plan] # None
        BY <2>1 DEF FreshFacts, Reserved
      <3>2. FaultFacts'
        BY <2>1, <2>5, FaultReserved DEF Call
      <3> QED
        BY <1>0, <1>00, <2>1, <2>2, <2>3, <2>5, <3>1, <3>2, TaskNames, CallKeeps DEF Retaining, Restoring
    <2> QED
      BY <1>4, <2>4, <2>5 DEF Stop
  <1>5. CASE Proof
    <2>1. pc = "proof" /\ Same /\ UNCHANGED <<mode, plan>>
      BY <1>5 DEF Proof, Keep
    <2>2. CASE FailTest
      BY <2>1, <2>2, FailTestKeeps DEF Retaining
    <2>3. CASE Call("prove", Hosts) /\ UNCHANGED <<present, result>>
      <3>1. \A h \in Hosts : consumed[h][plan] # None
        BY <2>1 DEF FreshFacts, Reserved
      <3> QED
        BY <1>0, <1>00, <2>1, <2>3, <3>1, TaskNames, SendKeeps DEF Retaining, Restoring
    <2> QED
      BY <1>5, <2>2, <2>3 DEF Proof
  <1>6. CASE Proved
    <2>1. /\ pc = "prove" /\ Same /\ UNCHANGED <<mode, plan>> /\ present' = Hosts
          /\ result' \in [Hosts -> {"not_run", "failed", "passed"}]
          /\ Call("restore", Hosts) \/ Call("fail", Hosts)
      BY <1>6 DEF Proved, Keep
    <2>2. plan \in Plans /\ \A h \in Hosts : consumed[h][plan] # None
      BY <2>1 DEF RunFacts, Retaining
    <2>3. CASE Call("restore", Hosts)
      BY <1>0, <2>1, <2>2, <2>3, TaskNames, SendKeeps DEF Retaining, Restoring
    <2>4. CASE Call("fail", Hosts)
      BY <1>0, <2>1, <2>2, <2>4, TaskNames, SendKeeps DEF Retaining, Restoring
    <2> QED
      BY <2>1, <2>3, <2>4
  <1> QED
    BY <1>1, <1>2, <1>3, <1>4, <1>5, <1>6
\* HAProxy can only be started by a restoration, never stopped by it.
LEMMA StartKeepsFault ==
    ASSUME IInv, UNCHANGED <<active, consumed, late>>,
           haproxy' \in {haproxy, "up"}, pc' # "finish"
    PROVE  FaultFacts'
  BY DEF IInv, FaultFacts, Holds, Quiet

\* From the restoration to the report.
LEMMA RestoreKeeps ==
    ASSUME IInv, Reinspected \/ FailRecorded \/ Restored \/ Smoke \/ Finished
    PROVE  IInv'
  <1> Types /\ RunFacts /\ PassFacts
    BY DEF IInv
  <1> DEFINE Same == UNCHANGED <<guards, haproxy, env, late>>
  <1>0. /\ mode \in {None, "test", "recover"} /\ plan \in Plans \cup {None}
        /\ present \subseteq Hosts
        /\ result \in [Hosts -> {"not_run", "failed", "passed"}]
    BY DEF Types, RunTypes
  <1>1. CASE Reinspected
    <2>1. pc = "reinspect" /\ Same
      BY <1>1 DEF Reinspected, Keep
    <2>2. CASE End
      BY <2>1, <2>2, EndKeeps
    <2>3. CASE ~End
      <3>1. /\ present' = Found /\ UNCHANGED <<mode, plan, result>>
            /\ Call("restore", Found) \/ Call("fail", Found)
        BY <1>1, <2>3 DEF Reinspected
      <3>2. plan \in Plans /\ Found \in SUBSET Hosts /\ \A h \in Found : consumed[h][plan] # None
        BY <2>1 DEF RunFacts, Found
      <3>3. CASE Call("restore", Found)
        BY <1>0, <2>1, <3>1, <3>2, <3>3, TaskNames, SendKeeps DEF Retaining, Restoring
      <3>4. CASE Call("fail", Found)
        BY <1>0, <2>1, <3>1, <3>2, <3>4, TaskNames, SendKeeps DEF Retaining, Restoring
      <3> QED
        BY <3>1, <3>3, <3>4
    <2> QED
      BY <2>2, <2>3
  <1>2. CASE FailRecorded
    <2>1. /\ pc = "fail" /\ Same /\ Call("restore", present)
          /\ UNCHANGED <<mode, plan, present, result>>
      BY <1>2 DEF FailRecorded, Keep
    <2>2. plan \in Plans /\ \A h \in present : consumed[h][plan] # None
      BY <1>0, <2>1 DEF RunFacts, Restoring
    <2> QED
      BY <1>0, <2>1, <2>2, TaskNames, SendKeeps DEF Retaining, Restoring
  <1>3. CASE Restored
    <2>1. /\ pc = "restore" /\ UNCHANGED <<active, consumed, debris, artifact, stale, drifted, edge, overtaken>>
          /\ UNCHANGED <<late, reported, mode, plan, present>>
          /\ haproxy' \in {haproxy, "up"} /\ pc' \in {"smoke", "report"} /\ Call(pc', {})
          /\ result' = [h \in Hosts |-> IF h \in Found /\ seen[h].rec.outcome = "proven"
                                        THEN "passed" ELSE "failed"]
      BY <1>3 DEF Restored, Call, guards, env
    <2>2. /\ haproxy' \in {"up", "stopped"} /\ late' \in [Hosts -> Calls] /\ reported' \subseteq Plans
          /\ result' \in [Hosts -> {"not_run", "failed", "passed"}]
      BY <2>1 DEF Types, EnvTypes
    <2>3. LateFacts' /\ PassedProven'
      BY <2>1 DEF IInv, LateFacts, PassFacts, PassedProven
    <2>4. FaultFacts'
      BY <2>1, StartKeepsFault
    <2>5. plan \in Plans /\ \A h \in present : consumed[h][plan] # None
      BY <1>0, <2>1 DEF RunFacts, Restoring
    <2>6. \A h \in Hosts : result'[h] = "passed" => h \in present /\ Proven(h, plan)
      BY <2>1 DEF Found, RunFacts, PassFacts, Restoring
    <2>7. PICK task : task = pc'
      OBVIOUS
    <2> QED
      BY <1>0, <2>1, <2>2, <2>3, <2>4, <2>5, <2>6, <2>7, TaskNames, CallKeeps DEF Retaining, Restoring
  <1>4. CASE Smoke
    <2>1. /\ pc = "smoke" /\ Same /\ UNCHANGED <<mode, plan, present, result>>
          /\ Call("report", {}) \/ (haproxy = "up" /\ Call("finish", present))
      BY <1>4 DEF Smoke, Keep
    <2>2. plan \in Plans /\ \A h \in present : consumed[h][plan] # None
      BY <1>0, <2>1 DEF RunFacts, Restoring
    <2>3. \A h \in Hosts : result[h] = "passed" => h \in present /\ Proven(h, plan)
      BY <2>1 DEF PassFacts
    <2>4. CASE Call("report", {})
      BY <1>0, <2>1, <2>2, <2>4, TaskNames, SendKeeps DEF Retaining, Restoring
    <2>5. CASE haproxy = "up" /\ Call("finish", present)
      BY <1>0, <2>1, <2>2, <2>3, <2>5, TaskNames, SendKeeps DEF Retaining, Restoring
    <2> QED
      BY <2>1, <2>4, <2>5
  <1>5. CASE Finished
    <2>1. /\ pc = "finish" /\ UNCHANGED <<active, consumed, debris, artifact, stale, drifted, edge, overtaken>>
          /\ UNCHANGED <<late, haproxy>> /\ End
      BY <1>5 DEF Finished, guards
    <2>2. plan \in Plans /\ haproxy' \in {"up", "stopped"} /\ late' \in [Hosts -> Calls]
      BY <2>1 DEF RunFacts, Types, EnvTypes
    <2>3. LateFacts'
      BY <2>1 DEF IInv, LateFacts
    <2>4. FaultFacts'
      BY <2>1, StartKeepsFault DEF End
    <2>5. CASE reported' = reported
      <3>1. PassedProven' /\ reported' \subseteq Plans
        BY <2>1, <2>5 DEF PassFacts, PassedProven, Types, EnvTypes
      <3> QED
        BY <2>1, <2>2, <2>3, <2>4, <3>1, EndCalls, CallKeeps DEF Retaining, Restoring
    <2>6. CASE reported' # reported
      <3>1. reported' = reported \cup {plan} /\ Found = present /\ \A h \in Hosts : result[h] = "passed"
        BY <1>5, <2>6 DEF Finished
      <3>2. ASSUME NEW h \in Hosts
            PROVE  /\ consumed[h][plan] # None /\ consumed[h][plan].phase = "closed"
                   /\ Proven(h, plan) /\ active[h] # plan
        <4>1. h \in present /\ ans[h] = "record"
          BY <2>1, <3>1 DEF PassFacts, Found
        <4> QED
          BY <2>1, <3>1, <4>1 DEF PassFacts, RunFacts
      <3>3. PassedProven' /\ reported' \subseteq Plans
        BY <2>1, <2>2, <3>1, <3>2 DEF PassFacts, PassedProven, Proven, Types, EnvTypes
      <3> QED
        BY <2>1, <2>2, <2>3, <2>4, <3>3, EndCalls, CallKeeps DEF Retaining, Restoring
    <2> QED
      BY <2>5, <2>6
  <1> QED
    BY <1>1, <1>2, <1>3, <1>4, <1>5

\* The controller dies; its unanswered commands become those of a dead run.
LEMMA CrashKeeps ==
    ASSUME IInv, Crash
    PROVE  IInv'
  <1> Types /\ RunFacts /\ LateFacts /\ FaultFacts /\ PassFacts
    BY DEF IInv
  <1>1. /\ UNCHANGED <<active, consumed, debris, artifact, stale, drifted, edge, overtaken>>
        /\ UNCHANGED reported /\ End
        /\ haproxy' = haproxy \/ (pc = "stop" /\ haproxy' = "stopped")
                              \/ (pc = "restore" /\ haproxy' = "up")
    BY DEF Crash, guards, env
  <1>2. PICK S \in SUBSET {h \in Hosts : ans[h] = "wait" /\ late[h] = None} :
            late' = [h \in Hosts |-> IF h \in S /\ pc \notin Inspections
                                     THEN [cmd |-> pc, plan |-> plan] ELSE late[h]]
    BY DEF Crash
  <1>3. \A h \in S : pc \notin Inspections =>
           /\ pc \in Commands /\ plan \in Plans
           /\ pc # "claim" => consumed[h][plan] # None
    BY <1>2 DEF RunFacts, Commands, Inspections, Retaining, Restoring
  <1>4. late' \in [Hosts -> Calls]
    BY <1>2, <1>3 DEF Types, EnvTypes, Calls
  <1>5. LateFacts'
    BY <1>1, <1>2, <1>3 DEF LateFacts
  <1>6. \A h \in Hosts, p \in Plans : Quiet(h, p, "finish") /\ pc # "finish" => Quiet(h, p, "finish")'
    BY <1>2 DEF Quiet
  <1>7. FaultFacts'
    <2>1. CASE haproxy = "stopped"
      <3>1. PICK p \in Plans : \A h \in Hosts : Holds(p, h)
        BY <2>1 DEF FaultFacts
      <3>2. \A h \in Hosts : Holds(p, h)'
        BY <1>1, <1>6, <2>1, <3>1 DEF Holds, FaultFacts
      <3> QED
        BY <1>1, <3>2 DEF FaultFacts, End
    <2>2. CASE haproxy # "stopped" /\ pc = "stop"
      <3>1. late' = late
        <4>1. \A h \in Hosts : ans[h] # "wait"
          BY <2>2 DEF RunFacts, Commands
        <4> QED
          BY <1>2, <4>1 DEF Types, EnvTypes
      <3> QED
        BY <1>1, <2>2, <3>1, FaultReserved DEF End
    <2>3. CASE haproxy # "stopped" /\ pc # "stop"
      BY <1>1, <2>3 DEF FaultFacts, End
    <2> QED
      BY <2>1, <2>2, <2>3
  <1>8. PassedProven' /\ reported' \subseteq Plans /\ haproxy' \in {"up", "stopped"}
    BY <1>1 DEF PassFacts, PassedProven, Types, EnvTypes
  <1> QED
    BY <1>1, <1>4, <1>5, <1>7, <1>8, EndCalls, CallKeeps DEF Retaining, Restoring
-----------------------------------------------------------------------------
(***************************************************************************)
(* The theorems.                                                           *)
(***************************************************************************)
LEMMA InitIInv == Init => IInv
  <1> SUFFICES ASSUME Init PROVE IInv
    OBVIOUS
  <1> USE FailoverAssumption DEF Init
  <1>1. Types
    BY DEF Types, GuardTypes, EnvTypes, RunTypes, Tasks, Replies, Calls, Sightings
  <1>2. EdgeFacts /\ LateFacts /\ FaultFacts /\ SettleFacts /\ FreshFacts
    BY DEF EdgeFacts, LateFacts, FaultFacts, SettleFacts, FreshFacts
  <1>3. RunFacts /\ PassFacts
    BY DEF RunFacts, PassFacts, PassedProven, Retaining, Restoring
  <1> QED
    BY <1>1, <1>2, <1>3 DEF IInv

\* Publication, the clock and reconfigurations touch no guard and no run.
LEMMA EnvKeeps ==
    ASSUME IInv, NEW p \in Plans, Publish(p) \/ Expire(p) \/ Drift(p)
    PROVE  IInv' /\ UNCHANGED <<guards, haproxy>>
  <1>1. /\ UNCHANGED <<guards, haproxy, run, edge, reported, overtaken, late>>
        /\ artifact' \in [Plans -> {"absent", "partial", "whole"}]
        /\ stale' \subseteq Plans /\ drifted' \subseteq Plans
    BY DEF Publish, WritePlan, Expire, Drift, IInv, Types, EnvTypes
  <1>2. Types'
    BY <1>1 DEF IInv, Types, GuardTypes, EnvTypes, RunTypes, guards, run
  <1> QED
    BY <1>1, <1>2 DEF IInv, EdgeFacts, RunFacts, LateFacts, FreshFacts, Reserved, FaultFacts,
       Holds, Quiet, PassFacts, PassedProven, Proven, SettleFacts, guards, run

LEMMA NextIInv == IInv /\ [Next]_vars => IInv'
  <1> SUFFICES ASSUME IInv, [Next]_vars PROVE IInv'
    OBVIOUS
  <1>1. CASE \E p \in Plans : Publish(p) \/ Expire(p) \/ Drift(p)
    BY <1>1, EnvKeeps
  <1>2. CASE (\E p \in Plans : Start("test", p)) \/ Recover
    BY <1>2, OpeningKeeps DEF Recover
  <1>3. CASE Step
    BY <1>3, AskKeeps, AskInspectKeeps, OpeningKeeps, TestKeeps, RestoreKeeps DEF Step
  <1>4. CASE Crash
    BY <1>4, CrashKeeps
  <1>5. CASE EdgeNext
    BY <1>5, EdgeKeeps
  <1>6. CASE \E h \in Hosts : Land(h)
    BY <1>6, LandKeeps
  <1>7. CASE UNCHANGED vars
    BY <1>7 DEF vars, guards, run, env, IInv, Types, GuardTypes, EnvTypes, RunTypes, EdgeFacts,
       RunFacts, LateFacts, FreshFacts, Reserved, FaultFacts, Holds, Quiet, PassFacts,
       PassedProven, Proven, SettleFacts
  <1> QED
    BY <1>1, <1>2, <1>3, <1>4, <1>5, <1>6, <1>7 DEF Next

\* The invariant holds in every state of every run of the playbook, the guards
\* and the activations.
LEMMA InductiveInvariant == Spec => []IInv
  BY InitIInv, NextIInv, PTL DEF Spec

\* The counter of faults and the mark of a fresh test keep their types.
LEMMA MarksKept == IInv /\ Marks /\ [Next]_vars => Marks'
  <1> SUFFICES ASSUME IInv, Marks, [Next]_vars PROVE Marks'
    OBVIOUS
  <1>1. Fault \/ UNCHANGED faults
    BY DEF Next, Publish, WritePlan, Expire, Drift, Start, Recover, Step, Ask, AskInspect,
       Approved, Declined, Discovered, Rejected, NothingRetained, Claimed, Recheck, Armed,
       Stop, Proof, Proved, Reinspected, FailRecorded, Restored, Smoke, Finished, Report,
       Crash, Land, EdgeNext, EdgeRejected, EdgeActivate, EdgeAcquire, EdgeRelease, NoFault,
       Keep, vars
  <1>2. faults' \in 0..MaxFaults
    BY <1>1, FailoverAssumption DEF Marks, Fault
  <1>3. fresh' = TRUE \/ fresh' = FALSE \/ UNCHANGED fresh
    BY DEF Next, Publish, Expire, Drift, Start, Recover, Step, Ask, AskInspect,
       Approved, Declined, Discovered, Rejected, NothingRetained, Claimed, Recheck, Armed,
       Stop, Proof, Proved, Reinspected, FailRecorded, Restored, Smoke, Finished, Report,
       Crash, Land, EdgeNext, EdgeRejected, EdgeActivate, EdgeAcquire, EdgeRelease, EdgeKeep,
       Keep, vars, run, End
  <1> QED
    BY <1>2, <1>3 DEF Marks

\* Every variable keeps its type in every run of the failover test: whatever
\* command writes a record, it has one of the phases and outcomes of _record.
THEOREM FailoverTypeCorrect == Spec => []TypeOK
  <1>1. Init => Marks
    <2>1. Init => fresh \in BOOLEAN
      BY DEF Init
    <2>2. Init => faults \in 0..MaxFaults
      BY FailoverAssumption DEF Init
    <2> QED
      BY <2>1, <2>2 DEF Marks
  <1>2. IInv /\ Marks => TypeOK
    <2> SUFFICES ASSUME IInv, Marks PROVE TypeOK
      OBVIOUS
    <2>1. fresh \in BOOLEAN /\ faults \in 0..MaxFaults
      BY DEF Marks
    <2>2. Types
      BY DEF IInv
    <2> QED
      BY <2>1, <2>2 DEF TypeOK, Types, GuardTypes, EnvTypes, RunTypes, Tasks, Replies, Calls, Sightings
  <1> QED
    BY <1>1, <1>2, InitIInv, NextIInv, MarksKept, PTL DEF Spec

\* While the owner's HAProxy is down for the test, one plan holds the guard and
\* an open record on every host.
THEOREM FaultStaysReserved == Spec => []HaproxyReserved
  <1>1. IInv => HaproxyReserved
    BY DEF IInv, FaultFacts, Holds, HaproxyReserved
  <1> QED
    BY <1>1, InductiveInvariant, PTL

\* An activation that touches the services holds every guard it has not yet
\* released, and no failover fault is in place.
THEOREM ActivationExcludesFault == Spec => []ActivationExclusive
  <1>1. IInv => ActivationExclusive
    <2> SUFFICES ASSUME IInv, edge.step \in {"activate", "release"}
                 PROVE  haproxy = "up" /\ \A h \in edge.held : active[h] = Edge
      BY DEF ActivationExclusive
    <2>1. N \in edge.held /\ \A h \in edge.held : active[h] = Edge
      BY DEF IInv, EdgeFacts
    <2>2. N \in Hosts /\ Edge \notin Plans
      BY FailoverAssumption DEF Hosts
    <2> QED
      BY <2>1, <2>2 DEF IInv, FaultFacts, Holds, Types, EnvTypes
  <1> QED
    BY <1>1, InductiveInvariant, PTL

\* A test reported as passed left every host released with a closed, proven
\* record, but for a fail of a dead run that overtook the report.
THEOREM PassReportTrue == Spec => []PassedProven
  <1>1. IInv => PassedProven
    BY DEF IInv, PassFacts
  <1> QED
    BY <1>1, InductiveInvariant, PTL

\* A step changes a record only by a guard command.
LEMMA StepEffect ==
    ASSUME IInv, [Next]_vars
    PROVE  \/ UNCHANGED consumed
           \/ \E h \in Hosts, p \in Plans, c \in Commands : Effect(c, h, p) /\ UNCHANGED haproxy
  <1> HIDE DEF Effect
  <1>1. ASSUME NEW h \in Hosts, Ask(h)
        PROVE  \E p \in Plans, c \in Commands : Effect(c, h, p) /\ UNCHANGED haproxy
    <2>1. pc \in Commands /\ plan \in Plans /\ UNCHANGED haproxy /\ Serve(pc, h, plan)
      BY <1>1 DEF Ask, IInv, RunFacts, Commands, Inspections, Serve
    <2>2. PICK p \in Plans, c \in Commands : p = plan /\ c = pc
      BY <2>1
    <2> QED
      BY <2>1, <2>2, ServeEffect DEF IInv, Types
  <1>2. ASSUME NEW h \in Hosts, Land(h)
        PROVE  \E p \in Plans, c \in Commands : Effect(c, h, p) /\ UNCHANGED haproxy
    <2>1. late[h].cmd \in Commands /\ late[h].plan \in Plans
      BY <1>2 DEF Land, IInv, Types, EnvTypes, Calls
    <2>2. UNCHANGED haproxy /\ Serve(late[h].cmd, h, late[h].plan)
      BY <1>2 DEF Land, Serve
    <2>3. PICK p \in Plans, c \in Commands : p = late[h].plan /\ c = late[h].cmd
      BY <2>1
    <2> QED
      BY <2>1, <2>2, <2>3, ServeEffect DEF IInv, Types
  <1>3. CASE \E h \in Hosts : Ask(h) \/ Land(h)
    BY <1>1, <1>2, <1>3
  <1>4. CASE ~(\E h \in Hosts : Ask(h) \/ Land(h))
    BY <1>4 DEF Next, Publish, Expire, Drift, Start, Recover, Step, AskInspect,
       Approved, Declined, Discovered, Rejected, NothingRetained, Claimed, Recheck, Armed,
       Stop, Proof, Proved, Reinspected, FailRecorded, Restored, Smoke, Finished, Report,
       Crash, EdgeNext, EdgeRejected, EdgeActivate, EdgeAcquire, EdgeRelease, EdgeKeep,
       Keep, guards, vars
  <1> QED
    BY <1>3, <1>4

\* Records are never removed, a failed outcome stays failed and a closed record
\* never changes, in whatever order commands land.
THEOREM OutcomesPermanent == Spec => OutcomePermanent
  <1> DEFINE Lasting == \A h \in Hosts, p \in Plans : consumed[h][p] # None =>
                 /\ consumed'[h][p] # None
                 /\ consumed[h][p].outcome = "failed" => consumed'[h][p].outcome = "failed"
                 /\ consumed[h][p].phase = "closed" => consumed'[h][p] = consumed[h][p]
  <1>1. IInv /\ [Next]_vars => Lasting
    <2> SUFFICES ASSUME IInv, [Next]_vars PROVE Lasting
      OBVIOUS
    <2>1. CASE UNCHANGED consumed
      BY <2>1
    <2>2. CASE \E h \in Hosts, p \in Plans, c \in Commands : Effect(c, h, p) /\ UNCHANGED haproxy
      BY <2>2, EffectKeeps DEF IInv, Types
    <2> QED
      BY <2>1, <2>2, StepEffect
  <1> QED
    BY <1>1, InductiveInvariant, PTL DEF Spec, OutcomePermanent
-----------------------------------------------------------------------------
(***************************************************************************)
(* The test implements FaultOnce.                                          *)
(***************************************************************************)
Abstract == [p \in Plans |-> PlanState(p)]

\* A fault is in place: no guard changes hands until HAProxy is started.
LEMMA FaultKeepsOwner ==
    ASSUME IInv, [Next]_vars, haproxy = "stopped"
    PROVE  \A h \in Hosts : active'[h] = active[h]
  <1>1. PICK q \in Plans : \A h \in Hosts : Holds(q, h)
    BY DEF IInv, FaultFacts
  <1>2. GuardTypes /\ pc # "finish"
    BY DEF IInv, Types, FaultFacts
  <1>3. ASSUME NEW h \in Hosts, Ask(h), NEW g \in Hosts PROVE active'[g] = active[g]
    <2>1. pc \in Commands /\ plan \in Plans /\ Serve(pc, h, plan)
      BY <1>3 DEF Ask, IInv, RunFacts, Commands, Inspections, Serve
    <2>2. Effect(pc, h, plan)
      BY <1>2, <2>1, ServeEffect
    <2> QED
      BY <1>1, <1>2, <2>1, <2>2, EffectHolds DEF Holds
  <1>4. ASSUME NEW h \in Hosts, Land(h), NEW g \in Hosts PROVE active'[g] = active[g]
    <2>1. late[h].cmd \in Commands /\ late[h].plan \in Plans /\ late[h] # None
      BY <1>4 DEF Land, IInv, Types, EnvTypes, Calls
    <2>2. Serve(late[h].cmd, h, late[h].plan)
      BY <1>4 DEF Land, Serve
    <2>3. Effect(late[h].cmd, h, late[h].plan)
      BY <1>2, <2>1, <2>2, ServeEffect
    <2>4. ~(late[h].cmd = "finish" /\ g = h /\ q = late[h].plan)
      BY <1>1, <2>1 DEF Holds, Quiet
    <2> QED
      BY <1>1, <1>2, <2>1, <2>3, <2>4, EffectHolds DEF Holds
  <1>5. CASE EdgeNext
    BY <1>1, <1>5, EdgeKeeps DEF Holds
  <1>6. CASE ~(EdgeNext \/ \E h \in Hosts : Ask(h) \/ Land(h))
    BY <1>6 DEF Next, Publish, Expire, Drift, Start, Recover, Step, AskInspect,
       Approved, Declined, Discovered, Rejected, NothingRetained, Claimed, Recheck, Armed,
       Stop, Proof, Proved, Reinspected, FailRecorded, Restored, Smoke, Finished, Report,
       Crash, Keep, guards, vars
  <1> QED
    BY <1>3, <1>4, <1>5, <1>6

\* Without a fault a command moves one plan from unused to reserved, from
\* reserved to settled, or nowhere.
LEMMA EffectState ==
    ASSUME GuardTypes, NEW c \in Commands, NEW h \in Hosts, NEW p \in Plans, Effect(c, h, p),
           haproxy = "up", UNCHANGED haproxy
    PROVE  /\ \A q \in Plans \ {p} : PlanState(q)' = PlanState(q)
           /\ \/ PlanState(p)' = PlanState(p)
              \/ PlanState(p) = "unused" /\ PlanState(p)' = "reserved"
              \/ PlanState(p) = "reserved" /\ PlanState(p)' = "settled"
  <1> USE FailoverAssumption, NoneAssumption
  <1> Owner \in Hosts
    BY DEF Hosts
  <1> DEFINE Settled == consumed[Owner][p] # None
                        /\ consumed[Owner][p].phase \in {"restoring", "closed"}
             Used == \E g \in Hosts : consumed[g][p] # None
  <1>1. /\ PlanState(p) = IF Settled THEN "settled" ELSE IF Used THEN "reserved" ELSE "unused"
        /\ PlanState(p)' = IF Settled' THEN "settled" ELSE IF Used' THEN "reserved" ELSE "unused"
    BY DEF PlanState
  <1>2. \A q \in Plans \ {p} : PlanState(q)' = PlanState(q)
    <2> SUFFICES ASSUME NEW q \in Plans \ {p} PROVE PlanState(q)' = PlanState(q)
      OBVIOUS
    <2>1. \A g \in Hosts : consumed'[g][q] = consumed[g][q]
      BY DEF Effect, Local
    <2> QED
      BY <2>1 DEF PlanState
  <1>3. Settled => Settled'
    BY EffectKeeps
  <1>4. Used => Used'
    BY EffectKeeps
  <1>5. ~Used => ~Settled'
    <2> SUFFICES ASSUME ~Used PROVE ~Settled'
      OBVIOUS
    <2>1. CASE Claims(h, p)
      BY <2>1 DEF Claims, Rec, Effect, Local
    <2>2. CASE ~Claims(h, p)
      BY <2>2 DEF Effect, Local, Replaces, Releases
    <2> QED
      BY <2>1, <2>2
  <1>6. Settled => Used
    OBVIOUS
  <1> HIDE DEF Settled, Used
  <1>7. \/ PlanState(p)' = PlanState(p)
        \/ PlanState(p) = "unused" /\ PlanState(p)' = "reserved"
        \/ PlanState(p) = "reserved" /\ PlanState(p)' = "settled"
    BY <1>1, <1>3, <1>4, <1>5, <1>6
  <1> QED
    BY <1>2, <1>7

\* A step that touches neither HAProxy nor a record is a stutter.
LEMMA QuietState ==
    ASSUME IInv, [Next]_vars, UNCHANGED <<haproxy, consumed>>
    PROVE  UNCHANGED Abstract
  <1>1. haproxy = "stopped" => active'[Owner] = active[Owner]
    BY FaultKeepsOwner, FailoverAssumption DEF Hosts
  <1>2. \A p \in Plans : PlanState(p)' = PlanState(p)
    BY <1>1 DEF PlanState
  <1> QED
    BY <1>2 DEF Abstract

\* One plan moves as FaultOnce allows.
LEMMA MoveState ==
    ASSUME NEW p \in Plans, \A q \in Plans \ {p} : PlanState(q)' = PlanState(q),
           \/ PlanState(p) = "unused" /\ PlanState(p)' = "reserved"
           \/ PlanState(p) = "reserved" /\ PlanState(p)' \in {"faulted", "settled"}
           \/ PlanState(p) = "faulted" /\ PlanState(p)' = "settled"
    PROVE  Once!Next
  <1> HIDE DEF PlanState
  <1>1. Abstract' = [Abstract EXCEPT ![p] = PlanState(p)'] /\ Abstract[p] = PlanState(p)
    BY DEF Abstract
  <1> QED
    BY <1>1 DEF Abstract, Once!Next, Once!Reserve, Once!Fault, Once!Restore, Once!Release, Once!Move

\* A fault is injected for the plan that reserved every host, before its
\* owner's record is restored or closed; a start settles the plan of the fault.
LEMMA FaultState ==
    ASSUME IInv, [Next]_vars, haproxy' # haproxy
    PROVE  Once!Next
  <1> USE FailoverAssumption, NoneAssumption
  <1> Owner \in Hosts
    BY DEF Hosts
  <1>1. /\ UNCHANGED <<active, consumed>>
        /\ \/ pc = "stop" /\ haproxy' = "stopped"
           \/ pc = "restore" /\ Starts /\ haproxy' = "up"
    BY DEF Next, Publish, Expire, Drift, Start, Recover, Step, Ask, AskInspect,
       Approved, Declined, Discovered, Rejected, NothingRetained, Claimed, Recheck, Armed,
       Stop, Proof, Proved, Reinspected, FailRecorded, Restored, Smoke, Finished, Report,
       Crash, EdgeNext, EdgeRejected, EdgeActivate, EdgeAcquire, EdgeRelease, EdgeKeep,
       Land, Keep, guards, vars
  <1>2. haproxy \in {"up", "stopped"} /\ pc \notin {"idle", "discover", "none"}
    BY <1>1 DEF IInv, Types, EnvTypes
  <1>3. PICK p \in Plans : p = plan
    BY <1>2 DEF IInv, RunFacts
  <1>4. CASE pc = "stop" /\ haproxy' = "stopped"
    <2>1. Reserved(Owner)
      BY <1>4 DEF IInv, FreshFacts
    <2>2. haproxy = "up"
      BY <1>2, <1>4
    <2>3. PlanState(p) = "reserved" /\ PlanState(p)' = "faulted"
      BY <1>1, <1>3, <1>4, <2>1, <2>2 DEF Reserved, PlanState
    <2>4. \A q \in Plans \ {p} : PlanState(q)' = PlanState(q)
      BY <1>1, <1>3, <2>1, <2>2 DEF Reserved, PlanState
    <2> QED
      BY <2>3, <2>4, MoveState
  <1>5. CASE pc = "restore" /\ Starts /\ haproxy' = "up"
    <2>1. haproxy = "stopped"
      BY <1>2, <1>5
    <2>2. /\ active[Owner] = plan /\ consumed[Owner][plan] # None
          /\ consumed[Owner][plan].phase \in {"restoring", "closed"}
      BY <1>5, <2>1 DEF IInv, SettleFacts, RunFacts, Starts, Found
    <2>3. PlanState(p) = "faulted" /\ PlanState(p)' = "settled"
      BY <1>1, <1>3, <1>5, <2>1, <2>2 DEF PlanState
    <2>4. \A q \in Plans \ {p} : PlanState(q)' = PlanState(q)
      BY <1>1, <1>3, <1>5, <2>2 DEF PlanState
    <2> QED
      BY <2>3, <2>4, MoveState
  <1> QED
    BY <1>1, <1>4, <1>5

LEMMA StepImplements ==
    ASSUME IInv, [Next]_vars
    PROVE  [Once!Next]_Abstract
  <1> USE FailoverAssumption, NoneAssumption
  <1>1. CASE haproxy' # haproxy
    BY <1>1, FaultState
  <1>2. CASE UNCHANGED <<haproxy, consumed>>
    BY <1>2, QuietState
  <1>3. CASE haproxy' = haproxy /\ consumed' # consumed
    <2>1. PICK h \in Hosts, p \in Plans, c \in Commands : Effect(c, h, p)
      BY <1>3, StepEffect
    <2>2. GuardTypes /\ haproxy \in {"up", "stopped"}
      BY DEF IInv, Types, EnvTypes
    <2>3. CASE haproxy = "up"
      <3>1. /\ \A q \in Plans \ {p} : PlanState(q)' = PlanState(q)
            /\ \/ PlanState(p)' = PlanState(p)
               \/ PlanState(p) = "unused" /\ PlanState(p)' = "reserved"
               \/ PlanState(p) = "reserved" /\ PlanState(p)' = "settled"
        BY <1>3, <2>1, <2>2, <2>3, EffectState
      <3>2. CASE PlanState(p)' = PlanState(p)
        <4>1. \A q \in Plans : PlanState(q)' = PlanState(q)
          BY <3>1, <3>2
        <4> QED
          BY <4>1 DEF Abstract
      <3>3. CASE PlanState(p)' # PlanState(p)
        BY <3>1, <3>3, MoveState
      <3> QED
        BY <3>2, <3>3
    <2>4. CASE haproxy = "stopped"
      <3>1. PICK q \in Plans : \A g \in Hosts : Holds(q, g)
        BY <2>4 DEF IInv, FaultFacts
      <3>2. \A g \in Hosts : active'[g] = active[g]
        BY <2>4, FaultKeepsOwner
      <3>3. ASSUME NEW r \in Plans \ {q}, NEW g \in Hosts PROVE consumed'[g][r] = consumed[g][r]
        <4>1. active[g] = q /\ q # None
          BY <3>1 DEF Holds
        <4> QED
          BY <2>1, <4>1, <3>3 DEF Effect, Local, Claims, Replaces, Releases
      <3>4. Owner \in Hosts /\ active[Owner] = q
        BY <3>1 DEF Holds, Hosts
      <3>5. \A r \in Plans : PlanState(r)' = PlanState(r)
        BY <1>3, <2>4, <3>2, <3>3, <3>4 DEF PlanState
      <3> QED
        BY <3>5 DEF Abstract
    <2> QED
      BY <2>2, <2>3, <2>4
  <1> QED
    BY <1>1, <1>2, <1>3

\* The detailed test implements FaultOnce: over any number of runs, replays,
\* recoveries and late commands HAProxy is taken down at most once for a plan,
\* after it was reserved and before its owner was restored or released.
THEOREM FaultInjectedOnce == Spec => OneFault
  <1>1. Init => Once!Init
    <2> SUFFICES ASSUME Init PROVE \A p \in Plans : PlanState(p) = "unused"
      BY DEF Once!Init
    <2> QED
      BY FailoverAssumption DEF Init, PlanState, Hosts
  <1>2. IInv /\ [Next]_vars => [Once!Next]_Abstract
    BY StepImplements
  <1> QED
    BY <1>1, <1>2, InductiveInvariant, PTL DEF Spec, OneFault, Once!Spec, Abstract
=============================================================================
