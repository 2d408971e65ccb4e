---------------------------- MODULE SummaryProofs ---------------------------
(* Proofs about OperationSummary, for every value of its constants. *)
EXTENDS OperationSummary, FiniteSetTheorems, TLAPS

(***************************************************************************)
(* The inductive invariant.  ProcessFacts: where the shell may find its    *)
(* command running.  Evidence: a record in the event file tells what       *)
(* happened.  HostFacts: the selected hosts are all there once phase 0     *)
(* reads as passed.  PhaseFacts: a phase starts from nothing.  ChangeFacts:*)
(* a change is recorded, or the file is spoilt, or its phase gets no       *)
(* recap.  GateFacts and PassSound: what has been accepted was so, and     *)
(* nothing runs any more that could undo it.                               *)
(***************************************************************************)
FileTypes ==
    /\ kind \in {"plain", "gated", "failover"}
    /\ target \in {Hosts, {}} /\ unsafe \subseteq Stray
    /\ log \subseteq Records /\ cut \subseteq Records

ShellTypes ==
    /\ pc \in {"init", "started", "fork", "track", "wait", "hosts", "completed", "gate",
               "signalled", "finish", "clean", "end"}
    /\ phase \in 0..Last /\ cmd \in {"ok", "fail"}
    /\ status \in {"ok", "fail"}
    /\ output \in {"none", "PASS", "FAIL"} /\ exit \in {"none", "zero", "nonzero"}
    /\ signal \in {"none", "heard", "unseen"}

CommandTypes ==
    /\ child \in {"none", "run", "stats", "ended"} /\ ended \in {"ok", "fail"}
    /\ recapped \subseteq All
    /\ real \in [Phases -> [All -> Outcomes \cup {"none"}]]
    /\ shown \in [Hosts -> {"none", "passed", "failed", "malformed"}]

\* The types that no other fact needs.
Marks ==
    /\ damaged \in BOOLEAN /\ writeFailed \in BOOLEAN /\ tracked \in BOOLEAN /\ termed \in BOOLEAN
    /\ cut = {} \/ \E r \in cut : cut = {r}
    /\ faults \in 0..MaxFaults

Types == FileTypes /\ ShellTypes /\ CommandTypes

ProcessFacts ==
    /\ pc \in {"init", "started", "fork", "hosts", "completed", "gate"} => child = "none" /\ ~tracked
    /\ pc = "wait" => tracked
    /\ pc = "signalled" => signal # "none" /\ status = "fail" /\ (Running => tracked \/ signal = "unseen")
    /\ pc \in {"finish", "clean", "end"} /\ Running => signal = "unseen"
    /\ pc = "finish" /\ status = "ok" => child = "none"
    /\ pc \in {"clean", "end"} /\ status = "ok" => output = "PASS"
    /\ exit = "zero" => output = "PASS"
    /\ output = "PASS" => pc \in {"clean", "end"} /\ child = "none"

Evidence == \A r \in Lines :
    /\ r.k = "recap" => /\ r.p \in 1..phase /\ r.h \in All
                        /\ r.v = real[r.p][r.h] /\ r.v # "none"
                        /\ r.p = phase => child # "run" /\ pc \notin {"started", "fork"}
    /\ r.k = "failover" => r.h \in Hosts /\ r.v = shown[r.h] /\ r.v # "none"
    /\ r.k = "host" => r.h \in target

HostFacts ==
    /\ Rec("completed", 0, None, "ok") \in Lines => HostRecs(target) \subseteq log
    /\ pc = "completed" /\ phase = 0 /\ cmd = "ok" => HostRecs(target) \subseteq log

PhaseFacts ==
    /\ \A p \in Phases, h \in All : real[p][h] # "none" =>
          /\ p <= phase
          /\ p = phase => pc \notin {"started", "fork"}
          /\ h \in Hosts => h \in target /\ Applicable(h, p)
    /\ child = "stats" => phase > 0
    /\ pc \in {"init", "hosts"} => phase = 0
    /\ pc = "gate" => Gated

\* The phase p has no recap and will get none.
Lost(p) ==
    /\ \A r \in Lines : ~(r.k = "recap" /\ r.p = p)
    /\ p = phase => child # "stats" /\ (child = "run" => writeFailed)

ChangeFacts == \A p \in Phases, h \in Hosts : real[p][h] = "changed" =>
    damaged \/ Rec("task", p, h, "changed") \in Lines \/ Lost(p)

GateFacts == Gated => \A q \in 1..(phase - 1), h \in target : Applicable(h, q) => CleanOn(q, h)

IInv == /\ Types /\ ProcessFacts /\ Evidence /\ HostFacts /\ PhaseFacts /\ ChangeFacts
        /\ GateFacts /\ PassSound
-----------------------------------------------------------------------------
(***************************************************************************)
(* The event file.                                                         *)
(***************************************************************************)
\* Whether a write succeeds or fails, nothing else gets into the file, and
\* what was there can still be read unless the file is spoilt.
LEMMA WriteEffect ==
    ASSUME NEW r, Append(r) \/ AppendFails(r)
    PROVE  /\ log \subseteq log' /\ log' \subseteq log \cup {r} /\ Lines' \subseteq Lines \cup {r}
           /\ damaged => damaged'
           /\ damaged' \/ Lines \subseteq Lines'
           /\ Append(r) => r \in Lines'
           /\ cut' \subseteq cut \cup {r}
  <1>1. CASE Append(r)
    <2>1. log' = log \cup {r} /\ cut' = {}
      BY <1>1 DEF Append
    <2>2. damaged' <=> (damaged \/ cut # {} \/ (r \in log /\ r.k # "task"))
      BY <1>1 DEF Append
    <2>3. cut = {} => Lines \subseteq Lines'
      BY <2>1 DEF Lines
    <2>4. damaged' \/ Lines \subseteq Lines'
      BY <2>2, <2>3
    <2> QED
      BY <2>1, <2>2, <2>4 DEF Lines
  <1>2. CASE AppendFails(r)
    <2>1. CASE UNCHANGED <<log, cut, damaged>>
      BY <2>1 DEF Lines, Append
    <2>2. CASE damaged' = TRUE /\ UNCHANGED <<log, cut>>
      BY <2>2 DEF Lines, Append
    <2>3. CASE damaged' = (damaged \/ cut # {}) /\ cut' = {r} /\ UNCHANGED log
      <3>1. damaged' <=> (damaged \/ cut # {})
        BY <2>3
      <3>2. cut = {} => Lines \subseteq Lines'
        BY <2>3 DEF Lines
      <3> QED
        BY <2>3, <3>1, <3>2 DEF Lines, Append
    <2> QED
      BY <1>2, <2>1, <2>2, <2>3 DEF AppendFails
  <1> QED
    BY <1>1, <1>2

\* What the renderer accepts was so: every host the inventory selected is
\* listed, and the recap it passes is what happened there.
LEMMA CompleteSound ==
    ASSUME IInv, NEW t \in 0..Last, Complete(t)
    PROVE  /\ target # {}
           /\ \A p \in 1..t, h \in target : Applicable(h, p) =>
                 CleanOn(p, h) /\ HostPassed(h, p)
  <1> USE SummaryAssumption
  <1> Types /\ Evidence /\ HostFacts
    BY DEF IInv
  <1>1. Listed # {} /\ \A p \in 0..t : PhasePassed(p)
    BY DEF Complete
  <1>2. Last \in Nat /\ t \in Nat /\ 0 \in 0..t
    BY DEF Last, Types, FileTypes
  <1>3. HostRecs(target) \subseteq Lines
    BY <1>1, <1>2 DEF PhasePassed, HostFacts, Lines
  <1>4. Listed = target
    <2>1. ASSUME NEW h \in target PROVE h \in Listed
      <3>1. Rec("host", 0, h, "") \in Lines /\ Rec("host", 0, h, "").k = "host"
            /\ Rec("host", 0, h, "").h = h
        BY <1>3 DEF HostRecs, Rec
      <3> QED
        BY <3>1 DEF Listed
    <2>2. Listed \subseteq target
      BY DEF Listed, Evidence
    <2> QED
      BY <2>1, <2>2
  <1>5. ASSUME NEW p \in 1..t, NEW h \in target, Applicable(h, p)
        PROVE  CleanOn(p, h) /\ HostPassed(h, p)
    <2>1. HostPassed(h, p)
      BY <1>4, <1>5 DEF Complete
    <2>2. PICK r \in Lines : /\ r.k = "recap" /\ r.p = p /\ r.h = h
                             /\ r.v # "failed"
                             /\ Gated => r.v \notin {"ignored", "rescued"}
                             /\ p \in Unchanged => r.v # "changed"
      BY <2>1 DEF HostPassed
    <2>3. r.v = real[p][h] /\ r.v # "none"
      BY <2>2 DEF Evidence
    <2>4. kind = "failover" => shown[h] = "passed"
      <3> SUFFICES ASSUME kind = "failover" PROVE shown[h] = "passed"
        OBVIOUS
      <3>1. Rec("failover", p, h, "passed") \in Lines
        BY <2>1 DEF HostPassed
      <3>2. Rec("failover", p, h, "passed").k = "failover" /\ Rec("failover", p, h, "passed").h = h
            /\ Rec("failover", p, h, "passed").v = "passed"
        BY DEF Rec
      <3> QED
        BY <3>1, <3>2 DEF Evidence
    <2> QED
      BY <2>1, <2>2, <2>3, <2>4 DEF CleanOn
  <1> QED
    BY <1>1, <1>4, <1>5
-----------------------------------------------------------------------------
(***************************************************************************)
(* Every step of the command keeps the invariant.                          *)
(***************************************************************************)
\* What every step of the command leaves alone.
Outside == UNCHANGED <<kind, target, unsafe, pc, phase, cmd, status, output, exit, signal, tracked>>

\* While a play runs, nothing has been accepted; how it writes and ends keeps
\* what does not depend on its own records.
LEMMA CommandKeeps ==
    ASSUME IInv, Running, Outside, child' \in {"run", "stats", "ended"}, ended' \in {"ok", "fail"}
    PROVE  ShellTypes' /\ ProcessFacts' /\ (output = "PASS" => FALSE)
           /\ (pc # "end" => PassSound')
  <1>1. child # "none" /\ output # "PASS" /\ exit # "zero"
    BY DEF IInv, Running, ProcessFacts
  <1>2. ShellTypes'
    BY DEF IInv, Types, ShellTypes, Outside, Last
  <1>3. ProcessFacts'
    BY <1>1 DEF IInv, ProcessFacts, Outside, Running
  <1> QED
    BY <1>1, <1>2, <1>3 DEF PassSound, PassTrue, PassListsChanges, Outside

\* A step of the command that changes neither the file nor what happened.
LEMMA EndCommandKeeps ==
    ASSUME IInv, Running, Outside, ended' \in {"ok", "fail"},
           UNCHANGED <<log, cut, damaged, real, shown, writeFailed, recapped>>,
           \/ child' = "ended"
           \/ child = "run" /\ child' = "stats" /\ ~writeFailed /\ phase > 0
    PROVE  IInv'
  <1>1. ShellTypes' /\ ProcessFacts' /\ output # "PASS" /\ exit # "zero"
    BY CommandKeeps DEF IInv, ProcessFacts
  <1>2. Lines' = Lines /\ Types'
    BY <1>1 DEF IInv, Types, FileTypes, CommandTypes, Outside, Lines, Records, All
  <1>3. Evidence' /\ HostFacts' /\ PhaseFacts' /\ GateFacts'
    BY <1>2 DEF IInv, Evidence, HostFacts, PhaseFacts, GateFacts, CleanOn, Outside, HostRecs,
       Applicable, Gated
  <1>4. ChangeFacts'
    <2> SUFFICES ASSUME NEW p \in Phases, NEW h \in Hosts, real[p][h] = "changed"
                 PROVE  damaged \/ Rec("task", p, h, "changed") \in Lines \/ Lost(p)'
      BY <1>2 DEF ChangeFacts
    <2>1. Lost(p) => Lost(p)'
      BY <1>2 DEF Lost, Outside
    <2> QED
      BY <2>1 DEF IInv, ChangeFacts
  <1>5. PassSound'
    BY <1>1 DEF PassSound, PassTrue, PassListsChanges, Outside
  <1> QED
    BY <1>1, <1>2, <1>3, <1>4, <1>5 DEF IInv

\* A record that the command writes, in a step that changes nothing else but
\* its own state and, for a failover result, what was shown.
LEMMA WriteKeeps ==
    ASSUME IInv, Running, Outside, child' \in {child, "ended"}, ended' \in {"ok", "fail"},
           NEW r \in Records, Append(r) \/ AppendFails(r),
           writeFailed => writeFailed', recapped' \subseteq All,
           UNCHANGED real, shown' \in [Hosts -> {"none", "passed", "failed", "malformed"}],
           \A h \in Hosts : shown[h] # "none" => shown'[h] = shown[h],
           \/ r.k \in {"error", "task"}
           \/ /\ r.k = "failover" /\ r.h \in Hosts /\ r.v = shown'[r.h] /\ r.v # "none"
           \/ /\ r.k = "recap" /\ child = "stats" /\ phase > 0
              /\ r.p = phase /\ r.h \in All /\ r.v = real[phase][r.h] /\ r.v # "none"
    PROVE  IInv'
  <1> USE SummaryAssumption
  <1>0. Types /\ ProcessFacts /\ Evidence /\ HostFacts /\ PhaseFacts /\ ChangeFacts /\ GateFacts
    BY DEF IInv
  <1>1. ShellTypes' /\ ProcessFacts' /\ output # "PASS" /\ exit # "zero"
    BY CommandKeeps DEF IInv, ProcessFacts, Running
  <1>2. /\ log \subseteq log' /\ log' \subseteq log \cup {r} /\ Lines' \subseteq Lines \cup {r}
        /\ cut' \subseteq cut \cup {r}
    BY WriteEffect
  <1>3. (damaged => damaged') /\ (damaged' \/ Lines \subseteq Lines')
    BY WriteEffect
  <1>4. Types'
    BY <1>0, <1>1, <1>2 DEF Types, FileTypes, CommandTypes, Outside, Records, All, Running
  <1>5. Evidence'
    <2> SUFFICES ASSUME NEW x \in Lines'
                 PROVE  /\ x.k = "recap" => /\ x.p \in 1..phase /\ x.h \in All
                                            /\ x.v = real[x.p][x.h] /\ x.v # "none"
                                            /\ x.p = phase => child' # "run" /\ pc \notin {"started", "fork"}
                        /\ x.k = "failover" => x.h \in Hosts /\ x.v = shown'[x.h] /\ x.v # "none"
                        /\ x.k = "host" => x.h \in target
      BY DEF Evidence, Outside
    <2>1. CASE x \in Lines
      BY <1>0, <2>1 DEF Evidence
    <2>2. CASE x = r
      <3>1. child = "stats" => pc \notin {"started", "fork"} /\ child' # "run"
        BY <1>0 DEF ProcessFacts
      <3>2. phase \in Nat /\ (phase > 0 => phase \in 1..phase)
        BY <1>0 DEF Types, ShellTypes
      <3> QED
        BY <2>2, <3>1, <3>2
    <2> QED
      BY <1>2, <2>1, <2>2
  <1>6. HostFacts'
    <2>1. Rec("completed", 0, None, "ok") # r
      BY DEF Rec
    <2> QED
      BY <1>0, <1>2, <2>1 DEF HostFacts, Outside, HostRecs
  <1>7. PhaseFacts' /\ GateFacts'
    BY <1>0 DEF PhaseFacts, GateFacts, CleanOn, Outside, Applicable, Gated
  <1>8. ChangeFacts'
    <2> SUFFICES ASSUME NEW p \in Phases, NEW h \in Hosts, real[p][h] = "changed", ~damaged'
                 PROVE  Rec("task", p, h, "changed") \in Lines' \/ Lost(p)'
      BY DEF ChangeFacts
    <2>1. Rec("task", p, h, "changed") \in Lines \/ Lost(p)
      BY <1>0, <1>3 DEF ChangeFacts
    <2>2. Lost(p) => Lost(p)'
      BY <1>2 DEF Lost, Outside
    <2> QED
      BY <1>3, <2>1, <2>2
  <1>9. PassSound'
    BY <1>1 DEF PassSound, PassTrue, PassListsChanges, Outside
  <1> QED
    BY <1>1, <1>4, <1>5, <1>6, <1>7, <1>8, <1>9 DEF IInv
\* The phases of the operation at hand are phases.
LEMMA PhaseTyped ==
    ASSUME Types
    PROVE  /\ Last \in Nat \ {0} /\ 1..Last \subseteq Phases /\ Phases \subseteq Nat \ {0}
           /\ phase \in Nat /\ phase <= Last
           /\ phase > 0 => phase \in Phases
           /\ phase \in Phases \cup {0}
  <1> USE SummaryAssumption
  <1>1. Last \in Nat \ {0} /\ kind \in DOMAIN OPERATIONS
    BY DEF Last, Types, FileTypes
  <1>2. 1..Last \subseteq Phases
    BY <1>1 DEF Last, Phases
  <1>3. Phases \subseteq Nat \ {0}
    BY DEF Phases
  <1>4. phase \in 0..Last
    BY DEF Types, ShellTypes
  <1> QED
    BY <1>1, <1>2, <1>3, <1>4

\* A host gets its outcome: its change is on record, or the write failed.
LEMMA TaskKeeps ==
    ASSUME IInv, NEW h \in All, NEW o \in Outcomes, Task(h, o)
    PROVE  IInv'
  <1> USE SummaryAssumption
  <1>0. Types /\ ProcessFacts /\ Evidence /\ HostFacts /\ PhaseFacts /\ ChangeFacts /\ GateFacts
    BY DEF IInv
  <1>1. /\ child = "run" /\ phase > 0 /\ Running /\ Outside /\ child' = child /\ ended' = ended
        /\ UNCHANGED <<shown, recapped>>
    BY DEF Task, Running, Outside, wrapper, operation, verdict
  <1>2. phase \in Phases /\ phase \in Nat /\ phase \in 1..phase
    BY <1>0, <1>1, PhaseTyped
  <1>3. /\ real[phase][h] = "none" /\ (h \in Hosts => h \in target /\ Applicable(h, phase))
        /\ real' = [real EXCEPT ![phase][h] = o]
    BY DEF Task, All
  <1>4. /\ real' \in [Phases -> [All -> Outcomes \cup {"none"}]]
        /\ real'[phase][h] = o
        /\ \A p \in Phases, g \in All : ~(p = phase /\ g = h) => real'[p][g] = real[p][g]
    BY <1>0, <1>2, <1>3 DEF Types, CommandTypes
  <1>5. ShellTypes' /\ ProcessFacts' /\ output # "PASS" /\ exit # "zero"
    BY <1>0, <1>1, CommandKeeps DEF ProcessFacts, Running, Types, CommandTypes
  <1>6. \E r \in Records :
           /\ r.k \in {"task", "error"}
           /\ o = "changed" /\ h \in Hosts => r = Rec("task", phase, h, "changed")
           /\ \/ Append(r) /\ writeFailed' = writeFailed
              \/ AppendFails(r) /\ writeFailed'
              \/ o \in {"ok", "ignored"} /\ UNCHANGED <<log, cut, damaged, writeFailed>>
    <2>1. CASE h \in unsafe
      <3>1. h \notin Hosts /\ ErrorRec \in Records /\ ErrorRec.k = "error"
        BY <1>0, <1>2, <2>1 DEF ErrorRec, Rec, Records, Types, FileTypes
      <3> QED
        BY <2>1, <3>1 DEF Task, Write, file
    <2>2. CASE h \notin unsafe
      <3>1. Rec("task", phase, h, o) \in Records /\ Rec("task", phase, h, o).k = "task"
        BY <1>2 DEF Rec, Records
      <3> QED
        BY <2>2, <3>1 DEF Task, Write, file
    <2> QED
      BY <2>1, <2>2
  <1>7. PICK r \in Records :
           /\ r.k \in {"task", "error"}
           /\ o = "changed" /\ h \in Hosts => r = Rec("task", phase, h, "changed")
           /\ \/ Append(r) /\ writeFailed' = writeFailed
              \/ AppendFails(r) /\ writeFailed'
              \/ o \in {"ok", "ignored"} /\ UNCHANGED <<log, cut, damaged, writeFailed>>
    BY <1>6
  <1>8. /\ log \subseteq log' /\ log' \subseteq log \cup {r} /\ Lines' \subseteq Lines \cup {r}
        /\ cut' \subseteq cut \cup {r}
    BY <1>7, WriteEffect DEF Lines
  <1>9. (damaged => damaged') /\ (damaged' \/ Lines \subseteq Lines') /\ (writeFailed => writeFailed')
        /\ (o = "changed" /\ h \in Hosts => r \in Lines' \/ writeFailed')
    BY <1>7, WriteEffect DEF Lines
  <1> HIDE DEF Task
  <1>a. Types'
    BY <1>0, <1>1, <1>4, <1>5, <1>8 DEF Types, FileTypes, CommandTypes, Outside, Records, All
  <1>b. \A x \in Lines' : x.k = "recap" => x \in Lines /\ x.p \in 1..phase /\ x.p # phase
    BY <1>0, <1>1, <1>7, <1>8 DEF Evidence
  <1>c. Evidence'
    <2> SUFFICES ASSUME NEW x \in Lines'
                 PROVE  /\ x.k = "recap" => /\ x.p \in 1..phase /\ x.h \in All
                                            /\ x.v = real'[x.p][x.h] /\ x.v # "none"
                                            /\ x.p # phase
                        /\ x.k = "failover" => x.h \in Hosts /\ x.v = shown[x.h] /\ x.v # "none"
                        /\ x.k = "host" => x.h \in target
      BY <1>1 DEF Evidence, Outside
    <2>1. CASE x.k = "recap"
      <3>1. x \in Lines /\ x.p \in 1..phase /\ x.p # phase
        BY <1>b, <2>1
      <3>2. x.p \in Phases
        BY <1>0, <3>1, PhaseTyped
      <3> QED
        BY <1>0, <1>4, <2>1, <3>1, <3>2 DEF Evidence
    <2>2. CASE x.k # "recap"
      BY <1>0, <1>7, <1>8, <2>2 DEF Evidence
    <2> QED
      BY <2>1, <2>2
  <1>d. HostFacts'
    <2>1. Rec("completed", 0, None, "ok") # r
      BY <1>7 DEF Rec
    <2> QED
      BY <1>0, <1>1, <1>8, <2>1 DEF HostFacts, Outside, HostRecs
  <1>e. PhaseFacts'
    <2>1. pc \notin {"started", "fork"}
      BY <1>0, <1>1 DEF ProcessFacts
    <2> QED
      BY <1>0, <1>1, <1>2, <1>3, <1>4, <2>1 DEF PhaseFacts, Outside, Applicable, Gated
  <1>f. GateFacts'
    <2>1. \A q \in 1..(phase - 1), g \in target : q \in Phases /\ g \in All /\ real'[q][g] = real[q][g]
      BY <1>0, <1>2, <1>4, PhaseTyped DEF Types, FileTypes, All
    <2> QED
      BY <1>0, <1>1, <2>1 DEF GateFacts, CleanOn, Outside, Applicable, Gated
  <1>g. ChangeFacts'
    <2> SUFFICES ASSUME NEW p \in Phases, NEW g \in Hosts, real'[p][g] = "changed", ~damaged'
                 PROVE  Rec("task", p, g, "changed") \in Lines' \/ Lost(p)'
      BY DEF ChangeFacts
    <2>1. CASE p = phase /\ g = h
      <3>1. writeFailed' => Lost(p)'
        BY <1>1, <1>b, <2>1 DEF Lost, Outside
      <3>2. o = "changed" /\ h \in Hosts /\ phase' = phase
        BY <1>1, <1>4, <2>1 DEF Outside
      <3> QED
        BY <1>7, <1>9, <2>1, <3>1, <3>2
    <2>2. CASE ~(p = phase /\ g = h)
      <3>1. Rec("task", p, g, "changed") \in Lines \/ Lost(p)
        BY <1>0, <1>4, <1>9, <2>2 DEF ChangeFacts, All
      <3>2. Lost(p) => Lost(p)'
        BY <1>1, <1>7, <1>8, <1>9 DEF Lost, Outside
      <3> QED
        BY <1>9, <3>1, <3>2
    <2> QED
      BY <2>1, <2>2
  <1>h. PassSound'
    BY <1>1, <1>5 DEF PassSound, PassTrue, PassListsChanges, Outside
  <1> QED
    BY <1>5, <1>a, <1>c, <1>d, <1>e, <1>f, <1>g, <1>h DEF IInv

\* The other steps of the command.
LEMMA AnsibleKeeps ==
    ASSUME IInv, Ansible \/ Die
    PROVE  IInv'
  <1> USE SummaryAssumption
  <1>0. Types /\ ended \in {"ok", "fail"} /\ recapped \subseteq All
    BY DEF IInv, Types, CommandTypes
  <1>00. ErrorRec \in Records /\ ErrorRec.k = "error"
    BY <1>0, PhaseTyped DEF ErrorRec, Rec, Records
  <1>1. ASSUME NEW h \in All, NEW o \in Outcomes, Task(h, o) PROVE IInv'
    BY <1>1, TaskKeeps
  <1>2. ASSUME NEW h \in Hosts, NEW v \in {"passed", "failed", "malformed"}, Publish(h, v)
        PROVE  IInv'
    <2>1. /\ Running /\ Outside /\ child' = child /\ ended' = ended /\ phase > 0
          /\ UNCHANGED <<real, recapped>> /\ shown[h] = "none" /\ shown' = [shown EXCEPT ![h] = v]
      BY <1>2 DEF Publish, Running, Outside, wrapper, operation, verdict
    <2>2. /\ shown' \in [Hosts -> {"none", "passed", "failed", "malformed"}] /\ shown'[h] = v
          /\ \A g \in Hosts : shown[g] # "none" => shown'[g] = shown[g]
      BY <1>0, <2>1 DEF Types, CommandTypes
    <2>3. CASE v = "malformed"
      <3>1. (Append(ErrorRec) \/ AppendFails(ErrorRec)) /\ (writeFailed => writeFailed')
        BY <1>2, <2>3 DEF Publish, Write
      <3> QED
        BY <1>0, <1>00, <2>1, <2>2, <3>1, WriteKeeps
    <2>4. CASE v # "malformed"
      <3> DEFINE r == Rec("failover", phase, h, v)
      <3>1. (Append(r) \/ AppendFails(r)) /\ (writeFailed => writeFailed')
        BY <1>2, <2>4 DEF Publish, Write
      <3>2. r \in Records /\ r.k = "failover" /\ r.h = h /\ r.v = v
        BY <1>0, <2>1, <2>4, PhaseTyped DEF Rec, Records, Outcomes, All
      <3> HIDE DEF r
      <3> QED
        BY <1>0, <2>1, <2>2, <3>1, <3>2, WriteKeeps
    <2> QED
      BY <2>3, <2>4
  <1>3. CASE Stats
    <2>1. Running /\ Outside /\ UNCHANGED <<real, shown, recapped>>
      BY <1>3 DEF Stats, Running, Outside, wrapper, operation, verdict, truth
    <2>2. CASE ~writeFailed /\ child' = "stats" /\ UNCHANGED <<ended, file, writeFailed>>
      <3>1. child = "run" /\ phase > 0
        BY <1>3 DEF Stats
      <3> QED
        BY <1>0, <2>1, <2>2, <3>1, EndCommandKeeps DEF file
    <2>3. CASE writeFailed /\ Write(ErrorRec) /\ Ends
      <3>1. /\ Append(ErrorRec) \/ AppendFails(ErrorRec)
            /\ writeFailed => writeFailed'
            /\ child' = "ended" /\ ended' \in {"ok", "fail"}
        BY <2>3 DEF Write, Ends, PlayStatus
      <3> QED
        BY <1>0, <1>00, <2>1, <3>1, WriteKeeps DEF Types, CommandTypes
    <2> QED
      BY <1>3, <2>2, <2>3 DEF Stats
  <1>4. ASSUME NEW h \in All, Recap(h) PROVE IInv'
    <2>1. /\ Running /\ Outside /\ UNCHANGED <<real, shown>> /\ child = "stats"
          /\ recapped' \subseteq All /\ real[phase][h] # "none"
          /\ child' \in {child, "ended"} /\ ended' \in {"ok", "fail"}
      BY <1>0, <1>4 DEF Recap, Running, Outside, wrapper, operation, verdict, truth, Ends, PlayStatus
    <2>2. CASE h \in unsafe
      <3>1. (Append(ErrorRec) \/ AppendFails(ErrorRec)) /\ (writeFailed => writeFailed')
        BY <1>4, <2>2 DEF Recap, Write
      <3> QED
        BY <1>0, <1>00, <2>1, <3>1, WriteKeeps DEF Types, CommandTypes
    <2>3. CASE h \notin unsafe
      <3> DEFINE r == Rec("recap", phase, h, real[phase][h])
      <3>1. (Append(r) \/ AppendFails(r)) /\ (writeFailed => writeFailed')
        BY <1>4, <2>3 DEF Recap
      <3>2. phase > 0 /\ phase \in Phases /\ real[phase][h] \in Outcomes
        BY <1>0, <2>1, PhaseTyped DEF IInv, PhaseFacts, Types, CommandTypes
      <3>3. /\ r \in Records /\ r.k = "recap" /\ r.p = phase /\ r.h = h
            /\ r.v = real[phase][h]
        BY <3>2 DEF Rec, Records
      <3> HIDE DEF r
      <3> QED
        BY <1>0, <2>1, <3>1, <3>2, <3>3, WriteKeeps DEF Types, CommandTypes
    <2> QED
      BY <2>2, <2>3
  <1>5. CASE PlayEnds \/ Die \/ \E s \in {"ok", "fail"} : InventoryEnds(s)
    <2>1. /\ Running /\ Outside /\ child' = "ended" /\ ended' \in {"ok", "fail"}
          /\ UNCHANGED <<log, cut, damaged, real, shown, writeFailed, recapped>>
      BY <1>5 DEF PlayEnds, Die, InventoryEnds, Running, Outside, wrapper, operation, verdict,
         truth, file, Ends, PlayStatus
    <2> QED
      BY <2>1, EndCommandKeeps
  <1> QED
    BY <1>1, <1>2, <1>3, <1>4, <1>5 DEF Ansible
-----------------------------------------------------------------------------
(***************************************************************************)
(* Every step of the wrapper keeps the invariant.                          *)
(***************************************************************************)
\* A record of the wrapper, written while no command runs.
LEMMA WrapperWriteKeeps ==
    ASSUME IInv, child = "none", ~tracked, pc \in {"init", "started", "completed"},
           UNCHANGED <<kind, target, unsafe, cmd, real, shown, output, exit, signal>>,
           UNCHANGED <<child, tracked, ended, writeFailed, recapped>>,
           NEW r \in Records, Append(r) \/ AppendFails(r),
           r.k \in {"operation", "started", "completed"},
           r = Rec("completed", 0, None, "ok") => HostRecs(target) \subseteq log,
           pc' \in {"started", "fork", "gate", "finish"}, status' \in {"ok", "fail"},
           phase' = phase \/ (phase' = phase + 1 /\ phase # Last /\ ~Gated),
           pc' \in {"started", "fork"} /\ phase' = phase => pc = "started" \/ phase = 0,
           pc' = "gate" => Gated
    PROVE  IInv'
  <1> USE SummaryAssumption
  <1>0. Types /\ ProcessFacts /\ Evidence /\ HostFacts /\ PhaseFacts /\ ChangeFacts /\ GateFacts
    BY DEF IInv
  <1>1. output # "PASS" /\ exit # "zero"
    BY <1>0 DEF ProcessFacts
  <1>2. /\ log \subseteq log' /\ log' \subseteq log \cup {r} /\ Lines' \subseteq Lines \cup {r}
        /\ cut' \subseteq cut \cup {r}
    BY WriteEffect
  <1>3. (damaged => damaged') /\ (damaged' \/ Lines \subseteq Lines')
    BY WriteEffect
  <1>4. phase \in Nat /\ phase' \in Nat /\ phase <= phase' /\ phase' \in 0..Last
    BY <1>0, PhaseTyped
  <1>5. Types'
    <2>1. FileTypes' /\ CommandTypes'
      BY <1>0, <1>2 DEF Types, FileTypes, CommandTypes, Records, All
    <2>2. ShellTypes'
      BY <1>0, <1>4 DEF Types, ShellTypes, Last
    <2> QED
      BY <2>1, <2>2 DEF Types
  <1>6. ProcessFacts'
    BY <1>0, <1>1 DEF ProcessFacts, Running
  <1>7. Evidence'
    <2> SUFFICES ASSUME NEW x \in Lines'
                 PROVE  /\ x.k = "recap" => /\ x.p \in 1..phase' /\ x.h \in All
                                            /\ x.v = real[x.p][x.h] /\ x.v # "none"
                                            /\ x.p = phase' => pc' \notin {"started", "fork"}
                        /\ x.k = "failover" => x.h \in Hosts /\ x.v = shown[x.h] /\ x.v # "none"
                        /\ x.k = "host" => x.h \in target
      BY DEF Evidence
    <2>1. CASE x \in Lines
      <3>1. x.k = "recap" => /\ x.p \in 1..phase /\ (x.p = phase => pc \notin {"started", "fork"})
                             /\ x.h \in All /\ x.v = real[x.p][x.h] /\ x.v # "none"
        BY <1>0, <2>1 DEF Evidence
      <3>2. x.k = "recap" => x.p \in 1..phase' /\ (x.p = phase' => pc' \notin {"started", "fork"})
        BY <1>4, <3>1
      <3> QED
        BY <1>0, <2>1, <3>1, <3>2 DEF Evidence
    <2>2. CASE x = r
      BY <2>2
    <2> QED
      BY <1>2, <2>1, <2>2
  <1>8. HostFacts'
    BY <1>0, <1>2 DEF HostFacts, HostRecs
  <1>9. PhaseFacts'
    <2>1. ASSUME NEW p \in Phases, NEW h \in All, real[p][h] # "none"
          PROVE  /\ p <= phase' /\ (p = phase' => pc' \notin {"started", "fork"})
                 /\ h \in Hosts => h \in target /\ Applicable(h, p)
      <3>1. p \in Nat \ {0} /\ p <= phase /\ (p = phase => pc \notin {"started", "fork"})
        BY <1>0, <2>1, PhaseTyped DEF PhaseFacts
      <3> QED
        BY <1>0, <1>4, <2>1, <3>1 DEF PhaseFacts
    <2> QED
      BY <1>0, <2>1 DEF PhaseFacts, Applicable, Gated
  <1>a. GateFacts'
    BY <1>0 DEF GateFacts, CleanOn, Applicable, Gated
  <1>b. ChangeFacts'
    <2> SUFFICES ASSUME NEW p \in Phases, NEW h \in Hosts, real[p][h] = "changed", ~damaged'
                 PROVE  Rec("task", p, h, "changed") \in Lines' \/ Lost(p)'
      BY DEF ChangeFacts
    <2>1. Rec("task", p, h, "changed") \in Lines \/ Lost(p)
      BY <1>0, <1>3 DEF ChangeFacts
    <2>2. Lost(p) => Lost(p)'
      BY <1>2 DEF Lost
    <2> QED
      BY <1>3, <2>1, <2>2
  <1>c. PassSound'
    BY <1>1 DEF PassSound, PassTrue, PassListsChanges
  <1> QED
    BY <1>5, <1>6, <1>7, <1>8, <1>9, <1>a, <1>b, <1>c DEF IInv

\* A step of the wrapper that writes nothing and of which nothing is known but
\* where it goes.
LEMMA StillKeeps ==
    ASSUME IInv, UNCHANGED <<kind, target, unsafe, log, cut, damaged, real, shown>>,
           ShellTypes', CommandTypes', ProcessFacts', PassSound',
           phase' = phase \/ phase' = phase + 1,
           phase' = phase + 1 /\ phase > 0 /\ Gated => \A h \in target : Applicable(h, phase) => CleanOn(phase, h),
           pc' \in {"started", "fork"} => phase' = phase + 1,
           pc' \in {"init", "hosts"} => phase' = 0,
           pc' = "gate" => Gated,
           pc' = "completed" => phase' = phase /\ ~(phase = 0 /\ cmd' = "ok"),
           \/ child' \in {"none", "ended"}
           \/ UNCHANGED <<child, writeFailed>>
           \/ pc = "fork" /\ child' = "run" /\ phase' = phase
    PROVE  IInv'
  <1> USE SummaryAssumption
  <1>0. Types /\ ProcessFacts /\ Evidence /\ HostFacts /\ PhaseFacts /\ ChangeFacts /\ GateFacts
    BY DEF IInv
  <1>1. Lines' = Lines /\ phase \in Nat /\ phase' \in Nat /\ phase <= phase'
    BY <1>0, PhaseTyped DEF Lines
  <1>2. Types'
    BY <1>0 DEF Types, FileTypes, Records, All
  <1>3. Evidence'
    <2> SUFFICES ASSUME NEW x \in Lines
                 PROVE  /\ x.k = "recap" => /\ x.p \in 1..phase' /\ x.h \in All
                                            /\ x.v = real[x.p][x.h] /\ x.v # "none"
                                            /\ x.p = phase' => child' # "run" /\ pc' \notin {"started", "fork"}
                        /\ x.k = "failover" => x.h \in Hosts /\ x.v = shown[x.h] /\ x.v # "none"
                        /\ x.k = "host" => x.h \in target
      BY <1>1 DEF Evidence
    <2>1. x.k = "recap" => /\ x.p \in 1..phase /\ x.h \in All /\ x.v = real[x.p][x.h] /\ x.v # "none"
                           /\ x.p = phase => child # "run" /\ pc \notin {"started", "fork"}
      BY <1>0 DEF Evidence
    <2>2. x.k = "recap" /\ x.p = phase' => phase' = phase
      BY <1>1, <2>1
    <2>3. x.k = "recap" /\ x.p = phase' => child' # "run" /\ pc' \notin {"started", "fork"}
      BY <1>1, <2>1, <2>2
    <2>4. x.k = "recap" => x.p \in 1..phase'
      BY <1>1, <2>1
    <2> QED
      BY <1>0, <2>1, <2>3, <2>4 DEF Evidence
  <1>4. HostFacts'
    BY <1>0, <1>1 DEF HostFacts, HostRecs
  <1>5. PhaseFacts'
    <2>1. ASSUME NEW p \in Phases, NEW h \in All, real[p][h] # "none"
          PROVE  /\ p <= phase' /\ (p = phase' => pc' \notin {"started", "fork"})
                 /\ h \in Hosts => h \in target /\ Applicable(h, p)
      <3>1. p \in Nat \ {0} /\ p <= phase /\ (h \in Hosts => h \in target /\ Applicable(h, p))
        BY <1>0, <2>1, PhaseTyped DEF PhaseFacts
      <3> QED
        BY <1>1, <3>1
    <2>2. child' = "stats" => phase' > 0
      BY <1>0, <1>1 DEF PhaseFacts
    <2> QED
      BY <1>0, <2>1, <2>2 DEF PhaseFacts, Applicable, Gated
  <1>6. GateFacts'
    <2> SUFFICES ASSUME Gated, NEW q \in 1..(phase' - 1), NEW h \in target, Applicable(h, q)
                 PROVE  CleanOn(q, h)
      BY DEF GateFacts, CleanOn, Applicable, Gated
    <2> QED
      <3>1. CASE phase' = phase
        BY <1>0, <3>1 DEF GateFacts
      <3>2. CASE phase' = phase + 1 /\ q # phase
        <4>1. q \in 1..(phase - 1)
          BY <1>1, <3>2
        <4> QED
          BY <1>0, <4>1 DEF GateFacts
      <3>3. CASE phase' = phase + 1 /\ q = phase
        BY <1>1, <3>3
      <3> QED
        BY <3>1, <3>2, <3>3
  <1>7. ChangeFacts'
    <2> SUFFICES ASSUME NEW p \in Phases, NEW h \in Hosts, real[p][h] = "changed", ~damaged
                 PROVE  Rec("task", p, h, "changed") \in Lines \/ Lost(p)'
      BY <1>1 DEF ChangeFacts
    <2>1. Rec("task", p, h, "changed") \in Lines \/ Lost(p)
      BY <1>0 DEF ChangeFacts
    <2>2. p \in Nat /\ p <= phase /\ (p = phase => pc # "fork")
      BY <1>0, PhaseTyped DEF PhaseFacts, All
    <2>3. p = phase' => p = phase
      BY <1>1, <2>2
    <2>4. Lost(p) => Lost(p)'
      BY <1>1, <2>2, <2>3 DEF Lost
    <2> QED
      BY <2>1, <2>4
  <1> QED
    BY <1>2, <1>3, <1>4, <1>5, <1>6, <1>7 DEF IInv
\* The three records of the wrapper.
LEMMA RecordKeeps ==
    ASSUME IInv, Initialize \/ RecordStarted \/ RecordCompleted
    PROVE  IInv'
  <1> USE SummaryAssumption
  <1>0. Types /\ ProcessFacts /\ HostFacts /\ PhaseFacts /\ phase \in Phases \cup {0} /\ phase \in Nat
        /\ status \in {"ok", "fail"} /\ cmd \in {"ok", "fail"}
    BY PhaseTyped DEF IInv, Types, ShellTypes
  <1>1. CASE Initialize
    <2> DEFINE r == Rec("operation", 0, None, "")
    <2>1. r \in Records /\ r.k = "operation" /\ r # Rec("completed", 0, None, "ok")
      BY DEF Rec, Records
    <2> HIDE DEF r
    <2>2. /\ pc = "init" /\ child = "none" /\ ~tracked /\ phase = 0
          /\ Append(r) \/ AppendFails(r)
          /\ pc' \in {"started", "finish"} /\ status' \in {"ok", "fail"} /\ phase' = phase
          /\ UNCHANGED <<kind, target, unsafe, cmd, real, shown, output, exit, signal>>
          /\ UNCHANGED <<child, tracked, ended, writeFailed, recapped>>
      BY <1>0, <1>1 DEF Initialize, Put, Continue, Exit, Goto, verdict, operation, process, truth,
         ProcessFacts, PhaseFacts, r
    <2> QED
      BY <2>1, <2>2, WrapperWriteKeeps
  <1>2. CASE RecordStarted
    <2> DEFINE r == Rec("started", phase, None, "")
    <2>1. r \in Records /\ r.k = "started" /\ r # Rec("completed", 0, None, "ok")
      BY <1>0 DEF Rec, Records
    <2> HIDE DEF r
    <2>2. /\ pc = "started" /\ child = "none" /\ ~tracked
          /\ Append(r) \/ AppendFails(r)
          /\ pc' \in {"fork", "finish"} /\ status' \in {"ok", "fail"} /\ phase' = phase
          /\ UNCHANGED <<kind, target, unsafe, cmd, real, shown, output, exit, signal>>
          /\ UNCHANGED <<child, tracked, ended, writeFailed, recapped>>
      BY <1>0, <1>2 DEF RecordStarted, Put, Continue, Exit, Goto, verdict, operation, process, truth,
         ProcessFacts, r
    <2> QED
      BY <2>1, <2>2, WrapperWriteKeeps
  <1>3. CASE RecordCompleted
    <2> DEFINE r == Rec("completed", phase, None, cmd)
    <2>1. /\ r \in Records /\ r.k = "completed"
          /\ r = Rec("completed", 0, None, "ok") => phase = 0 /\ cmd = "ok"
      BY <1>0 DEF Rec, Records, Outcomes
    <2> HIDE DEF r
    <2>2. /\ pc = "completed" /\ child = "none" /\ ~tracked
          /\ UNCHANGED <<kind, target, unsafe, cmd, real, shown>>
          /\ UNCHANGED <<child, tracked, ended, writeFailed, recapped>>
      BY <1>0, <1>3 DEF RecordCompleted, operation, process, truth, ProcessFacts
    <2>3. r = Rec("completed", 0, None, "ok") => HostRecs(target) \subseteq log
      BY <1>0, <2>1, <2>2 DEF HostFacts
    <2>4. /\ Append(r) \/ AppendFails(r)
          /\ pc' \in {"started", "gate", "finish"} /\ status' \in {"ok", "fail"}
          /\ phase' = phase \/ (phase' = phase + 1 /\ phase # Last /\ ~Gated)
          /\ pc' = "started" => phase' = phase + 1
          /\ pc' = "gate" => Gated
          /\ UNCHANGED <<output, exit, signal>>
      BY <1>0, <1>3 DEF RecordCompleted, Advance, Continue, Exit, Goto, verdict, r
    <2>5. pc' \in {"started", "fork"} => phase' # phase
      BY <1>0, <2>4
    <2> QED
      BY <2>1, <2>2, <2>3, <2>4, <2>5, WrapperWriteKeeps
  <1> QED
    BY <1>1, <1>2, <1>3

\* The selected hosts are listed, all of them or the phase has failed.
LEMMA WriteHostsKeeps ==
    ASSUME IInv, WriteHosts
    PROVE  IInv'
  <1> USE SummaryAssumption
  <1>0. Types /\ ProcessFacts /\ Evidence /\ HostFacts /\ PhaseFacts /\ ChangeFacts /\ GateFacts
    BY DEF IInv
  <1>1. /\ pc = "hosts" /\ phase = 0 /\ child = "none" /\ ~tracked
        /\ output # "PASS" /\ exit # "zero"
    BY <1>0 DEF WriteHosts, ProcessFacts, PhaseFacts
  <1>2. /\ pc' = "completed" /\ UNCHANGED <<phase, status, output, exit, signal>>
        /\ UNCHANGED <<kind, target, unsafe, real, shown, cut>>
        /\ UNCHANGED <<child, tracked, ended, writeFailed, recapped>>
    BY DEF WriteHosts, Continue, Goto, verdict, operation, process, truth
  <1>3. PICK D \in SUBSET target : log' = log \cup HostRecs(D) /\ (D = target \/ cmd' = "fail")
    BY DEF WriteHosts
  <1>4. cmd' \in {"ok", "fail"}
    BY <1>0 DEF WriteHosts, Types, ShellTypes
  <1>5. \A x \in HostRecs(D) : x \in Records /\ x.k = "host" /\ x.h \in target
    <2>1. D \subseteq All
      BY <1>0 DEF All, Types, FileTypes
    <2>2. ASSUME NEW h \in D
          PROVE  /\ Rec("host", 0, h, "") \in Records /\ Rec("host", 0, h, "").k = "host"
                 /\ Rec("host", 0, h, "").h = h /\ h \in target
      BY <2>1 DEF Rec, Records
    <2> QED
      <3> SUFFICES ASSUME NEW x \in HostRecs(D)
                   PROVE  x \in Records /\ x.k = "host" /\ x.h \in target
        OBVIOUS
      <3>1. PICK h \in D : x = Rec("host", 0, h, "")
        BY DEF HostRecs
      <3> QED
        BY <2>2, <3>1
  <1>6. Lines \subseteq Lines' /\ Lines' = Lines \cup HostRecs(D)
    BY <1>2, <1>3 DEF Lines
  <1>7. damaged => damaged'
    BY DEF WriteHosts
  <1>8. \A p \in Phases, h \in All : real[p][h] = "none"
    BY <1>0, <1>1, PhaseTyped DEF PhaseFacts
  <1>a. Types'
    <2>1. FileTypes' /\ CommandTypes'
      BY <1>0, <1>2, <1>3, <1>5 DEF Types, FileTypes, CommandTypes, Records, All
    <2>2. ShellTypes'
      BY <1>0, <1>2, <1>4 DEF Types, ShellTypes, Last
    <2> QED
      BY <2>1, <2>2 DEF Types
  <1>b. ProcessFacts'
    BY <1>0, <1>1, <1>2 DEF ProcessFacts, Running
  <1>c. Evidence'
    BY <1>0, <1>1, <1>2, <1>5, <1>6 DEF Evidence
  <1>d. HostFacts'
    <2>1. Rec("completed", 0, None, "ok") \notin HostRecs(D)
      BY <1>5 DEF Rec
    <2> QED
      BY <1>0, <1>2, <1>3, <1>6, <2>1 DEF HostFacts, HostRecs
  <1>e. PhaseFacts' /\ ChangeFacts'
    BY <1>1, <1>2, <1>8 DEF PhaseFacts, ChangeFacts, All
  <1>f. GateFacts'
    BY <1>0, <1>2 DEF GateFacts, CleanOn, Applicable, Gated
  <1>g. PassSound'
    BY <1>1, <1>2 DEF PassSound, PassTrue, PassListsChanges
  <1> QED
    BY <1>a, <1>b, <1>c, <1>d, <1>e, <1>f, <1>g DEF IInv

\* The steps that write nothing.
LEMMA ShellKeeps ==
    ASSUME IInv, Fork \/ Track \/ Wait \/ Gate \/ Signalled \/ Signal
    PROVE  IInv'
  <1> USE SummaryAssumption
  <1>0. Types /\ ProcessFacts /\ PhaseFacts /\ phase \in Nat /\ phase <= Last /\ Last \in Nat
    BY PhaseTyped DEF IInv
  <1>1. pc \notin {"clean", "end", "finish"} /\ output # "PASS" /\ exit # "zero"
    BY <1>0 DEF Fork, Track, Wait, Gate, Signalled, Signal, ProcessFacts
  <1>2. UNCHANGED <<kind, target, unsafe, log, cut, damaged, real, shown, output, exit>>
    BY DEF Fork, Track, Wait, Gate, Signalled, Signal, Continue, Advance, Exit, operation, file,
       verdict, truth
  <1>3. PassSound'
    BY <1>1, <1>2 DEF PassSound, PassTrue, PassListsChanges
  <1>4. CASE Fork
    <2>1. /\ pc = "fork" /\ pc' = "track" /\ child' = "run" /\ child = "none" /\ ~tracked
          /\ UNCHANGED <<phase, cmd, status, signal, tracked, ended, writeFailed, recapped>>
      BY <1>0, <1>4 DEF Fork, Continue, Goto, verdict, ProcessFacts
    <2>2. ShellTypes' /\ CommandTypes'
      BY <1>0, <1>2, <2>1 DEF Types, ShellTypes, CommandTypes, Last, All
    <2>3. ProcessFacts'
      BY <1>0, <1>1, <1>2, <2>1 DEF ProcessFacts, Running
    <2> QED
      BY <1>0, <1>2, <1>3, <2>1, <2>2, <2>3, StillKeeps
  <1>5. CASE Track
    <2>1. /\ pc = "track" /\ pc' = "wait" /\ tracked'
          /\ UNCHANGED <<phase, cmd, status, signal, child, ended, writeFailed, recapped>>
      BY <1>5 DEF Track, Continue, Goto, verdict
    <2>2. ShellTypes' /\ CommandTypes'
      BY <1>0, <1>2, <2>1 DEF Types, ShellTypes, CommandTypes, Last, All
    <2>3. ProcessFacts'
      BY <1>0, <1>1, <1>2, <2>1 DEF ProcessFacts, Running
    <2> QED
      BY <1>0, <1>2, <1>3, <2>1, <2>2, <2>3, StillKeeps
  <1>6. CASE Wait
    <2>1. /\ pc = "wait" /\ cmd' = ended /\ child' = "none" /\ ~tracked' /\ ended' = "ok"
          /\ recapped' = {}
          /\ pc' = IF phase = 0 /\ ended = "ok" THEN "hosts" ELSE "completed"
          /\ UNCHANGED <<phase, status, signal>>
      BY <1>6 DEF Wait, Continue, Goto, verdict
    <2>2. ShellTypes' /\ CommandTypes'
      BY <1>0, <1>2, <2>1 DEF Types, ShellTypes, CommandTypes, Last, All
    <2>3. ProcessFacts'
      BY <1>0, <1>1, <1>2, <2>1 DEF ProcessFacts, Running
    <2>4. pc' = "completed" => ~(phase = 0 /\ cmd' = "ok")
      BY <2>1
    <2> QED
      BY <1>0, <1>2, <1>3, <2>1, <2>2, <2>3, <2>4, StillKeeps
  <1>7. CASE Gate
    <2>1. /\ pc = "gate" /\ child = "none" /\ ~tracked /\ UNCHANGED <<cmd, child, tracked, ended, writeFailed, recapped>>
      BY <1>0, <1>7 DEF Gate, process, ProcessFacts
    <2>2. CASE /\ Complete(phase) /\ phase # Last
               /\ pc' = "started" /\ phase' = phase + 1 /\ UNCHANGED <<status, signal>>
      <3>0. phase' \in 0..Last /\ Last' = Last
        BY <1>0, <1>2, <2>2 DEF Last
      <3>1. ShellTypes' /\ CommandTypes'
        BY <1>0, <1>2, <2>1, <2>2, <3>0 DEF Types, ShellTypes, CommandTypes, All
      <3>2. ProcessFacts'
        BY <1>0, <1>1, <1>2, <2>1, <2>2 DEF ProcessFacts, Running
      <3>3. \A h \in target : phase > 0 /\ Applicable(h, phase) => CleanOn(phase, h)
        BY <1>0, <2>2, CompleteSound
      <3> QED
        BY <1>0, <1>2, <1>3, <2>1, <2>2, <3>1, <3>2, <3>3, StillKeeps
    <2>3. CASE pc' = "finish" /\ status' \in {"ok", "fail"} /\ UNCHANGED <<phase, signal>>
      <3>1. ShellTypes' /\ CommandTypes'
        BY <1>0, <1>2, <2>1, <2>3 DEF Types, ShellTypes, CommandTypes, Last, All
      <3>2. ProcessFacts'
        BY <1>0, <1>1, <1>2, <2>1, <2>3 DEF ProcessFacts, Running
      <3> QED
        BY <1>0, <1>2, <1>3, <2>1, <2>3, <3>1, <3>2, StillKeeps
    <2> QED
      BY <1>7, <2>2, <2>3 DEF Gate, Advance, Exit, Goto, verdict
  <1>8. CASE Signalled
    <2>1. /\ pc = "signalled" /\ pc' = "finish" /\ (tracked => child = "ended")
          /\ UNCHANGED <<phase, cmd, status, signal, child, tracked, ended, writeFailed, recapped>>
      BY <1>8 DEF Signalled, Continue, Goto, verdict, process
    <2>2. ShellTypes' /\ CommandTypes'
      BY <1>0, <1>2, <2>1 DEF Types, ShellTypes, CommandTypes, Last, All
    <2>3. ProcessFacts'
      BY <1>0, <1>1, <1>2, <2>1 DEF ProcessFacts, Running
    <2> QED
      BY <1>0, <1>2, <1>3, <2>1, <2>2, <2>3, StillKeeps
  <1>9. CASE Signal
    <2>1. /\ signal = "none" /\ pc # "signalled" /\ pc' = "signalled" /\ status' = "fail"
          /\ signal' = IF pc = "track" THEN "unseen" ELSE "heard"
          /\ UNCHANGED <<phase, cmd, child, tracked, ended, writeFailed, recapped>>
      BY <1>0, <1>9 DEF Signal, Goto, ProcessFacts
    <2>2. ShellTypes' /\ CommandTypes'
      BY <1>0, <1>2, <2>1 DEF Types, ShellTypes, CommandTypes, Last, All
    <2>3. ProcessFacts'
      <3>1. pc # "track" => child = "none" \/ tracked
        BY <1>0, <1>1, <2>1 DEF ProcessFacts, Types, ShellTypes
      <3> QED
        BY <1>0, <1>1, <1>2, <2>1, <3>1 DEF ProcessFacts, Running
    <2> QED
      BY <1>0, <1>2, <1>3, <2>1, <2>2, <2>3, StillKeeps
  <1> QED
    BY <1>4, <1>5, <1>6, <1>7, <1>8, <1>9
\* The verdict: what the renderer accepts was so, and every change is listed.
LEMMA VerdictSound ==
    ASSUME IInv, Verdict = "PASS"
    PROVE  /\ status = "ok" /\ target # {}
           /\ \A p \in 1..Last, h \in target : Applicable(h, p) => CleanOn(p, h)
           /\ \A p \in 1..Last, h \in target :
                 real[p][h] = "changed" => Rec("task", p, h, "changed") \in Lines
  <1> USE SummaryAssumption
  <1>0. Types /\ PhaseFacts /\ ChangeFacts
    BY DEF IInv
  <1>1. status = "ok" /\ Complete(Last) /\ ~damaged
    BY DEF Verdict, Complete, Invalid
  <1>2. Last \in 0..Last /\ 1..Last \subseteq Phases
    BY <1>0, PhaseTyped
  <1>3. /\ target # {}
        /\ \A p \in 1..Last, h \in target : Applicable(h, p) => CleanOn(p, h) /\ HostPassed(h, p)
    BY <1>1, <1>2, CompleteSound
  <1>4. ASSUME NEW p \in 1..Last, NEW h \in target, real[p][h] = "changed"
        PROVE  Rec("task", p, h, "changed") \in Lines
    <2>1. p \in Phases /\ h \in Hosts /\ h \in All
      BY <1>0, <1>2 DEF Types, FileTypes, All
    <2>2. Applicable(h, p)
      BY <1>0, <1>4, <2>1 DEF PhaseFacts
    <2>3. HostPassed(h, p)
      BY <1>3, <2>2
    <2>4. ~Lost(p)
      BY <2>3 DEF HostPassed, Lost
    <2> QED
      BY <1>0, <1>1, <1>4, <2>1, <2>4 DEF ChangeFacts
  <1> QED
    BY <1>1, <1>3, <1>4

\* The end of the script.
LEMMA FinishKeeps ==
    ASSUME IInv, Finish \/ Clean
    PROVE  IInv'
  <1>0. Types /\ ProcessFacts /\ PassSound /\ phase \in Nat
    BY PhaseTyped DEF IInv
  <1>1. /\ UNCHANGED <<kind, target, unsafe, log, cut, damaged, real, shown>>
        /\ UNCHANGED <<phase, cmd, signal, child, tracked, ended, writeFailed, recapped>>
    BY DEF Finish, Clean, operation, file, process, truth
  <1>2. CASE Finish
    <2>1. /\ pc = "finish" /\ pc' = "clean" /\ output # "PASS" /\ exit # "zero" /\ exit' = exit
          /\ output' \in {"none", "PASS", "FAIL"} /\ status' \in {"ok", "fail"}
          /\ output' = "PASS" => Verdict = "PASS"
          /\ status' = "ok" => output' = "PASS"
      BY <1>0, <1>2 DEF Finish, Goto, ProcessFacts, Verdict, Types, ShellTypes
    <2>2. ShellTypes' /\ CommandTypes'
      BY <1>0, <1>1, <2>1 DEF Types, ShellTypes, CommandTypes, Last, All
    <2>3. ProcessFacts'
      <3>1. output' = "PASS" => child = "none"
        BY <1>0, <2>1, VerdictSound DEF ProcessFacts
      <3> QED
        BY <1>0, <1>1, <2>1, <3>1 DEF ProcessFacts, Running
    <2>4. PassSound'
      <3>1. CASE output' = "PASS"
        BY <1>1, <2>1, <3>1, VerdictSound DEF PassSound, PassTrue, PassListsChanges, CleanOn, Gated,
           Last, Lines, Applicable
      <3>2. CASE output' # "PASS"
        BY <2>1, <3>2 DEF PassSound, PassTrue, PassListsChanges
      <3> QED
        BY <3>1, <3>2
    <2> QED
      BY <1>0, <1>1, <2>1, <2>2, <2>3, <2>4, StillKeeps
  <1>3. CASE Clean
    <2>1. /\ pc = "clean" /\ pc' = "end" /\ UNCHANGED <<status, output>>
          /\ exit' \in {"zero", "nonzero"} /\ (exit' = "zero" => status = "ok")
      BY <1>3 DEF Clean, Goto
    <2>2. ShellTypes' /\ CommandTypes'
      BY <1>0, <1>1, <2>1 DEF Types, ShellTypes, CommandTypes, Last, All
    <2>3. ProcessFacts'
      BY <1>0, <1>1, <2>1 DEF ProcessFacts, Running
    <2>4. PassSound'
      <3>1. exit' = "zero" => output = "PASS"
        BY <1>0, <2>1 DEF ProcessFacts
      <3> QED
        BY <1>0, <1>1, <2>1, <3>1 DEF PassSound, PassTrue, PassListsChanges, CleanOn, Gated,
           Last, Lines, Applicable
    <2> QED
      BY <1>0, <1>1, <2>1, <2>2, <2>3, <2>4, StillKeeps
  <1> QED
    BY <1>2, <1>3

-----------------------------------------------------------------------------
(***************************************************************************)
(* The theorems.                                                           *)
(***************************************************************************)
LEMMA InitIInv == Init => IInv
  <1> SUFFICES ASSUME Init PROVE IInv
    OBVIOUS
  <1> USE SummaryAssumption DEF Init
  <1>1. Types
    <2>1. Last \in Nat \ {0}
      BY DEF Last
    <2> QED
      BY <2>1 DEF Types, FileTypes, ShellTypes, CommandTypes, Outcomes
  <1>2. ProcessFacts /\ Evidence /\ HostFacts /\ PhaseFacts
    BY DEF ProcessFacts, Evidence, HostFacts, PhaseFacts, Lines, Running
  <1>3. ChangeFacts /\ PassSound
    BY DEF ChangeFacts, PassSound, PassTrue, PassListsChanges, All
  <1>4. GateFacts
    BY DEF GateFacts
  <1> QED
    BY <1>1, <1>2, <1>3, <1>4 DEF IInv

LEMMA NextIInv == IInv /\ [Next]_vars => IInv'
  <1> SUFFICES ASSUME IInv, [Next]_vars PROVE IInv'
    OBVIOUS
  <1>1. CASE Ansible \/ Die
    BY <1>1, AnsibleKeeps
  <1>2. CASE Initialize \/ RecordStarted \/ RecordCompleted
    BY <1>2, RecordKeeps
  <1>3. CASE WriteHosts
    BY <1>3, WriteHostsKeeps
  <1>4. CASE Fork \/ Track \/ Wait \/ Gate \/ Signalled \/ Signal
    BY <1>4, ShellKeeps
  <1>5. CASE Finish \/ Clean
    BY <1>5, FinishKeeps
  <1>6. CASE UNCHANGED vars
    <2>1. /\ UNCHANGED <<kind, target, unsafe, log, cut, damaged, pc, phase, cmd, status, output>>
          /\ UNCHANGED <<exit, signal, child, tracked, ended, writeFailed, recapped, real, shown>>
      BY <1>6 DEF vars, operation, file, verdict, process, truth
    <2>2. Lines' = Lines
      BY <2>1 DEF Lines
    <2>3. Types' /\ ProcessFacts'
      <3>1. FileTypes' /\ CommandTypes'
        BY <2>1 DEF IInv, Types, FileTypes, CommandTypes, All, Records
      <3>2. ShellTypes'
        BY <2>1 DEF IInv, Types, ShellTypes, Last
      <3>3. ProcessFacts'
        BY <2>1 DEF IInv, ProcessFacts, Running
      <3> QED
        BY <3>1, <3>2, <3>3 DEF Types
    <2>4. Evidence' /\ HostFacts' /\ PhaseFacts'
      BY <2>1, <2>2 DEF IInv, Evidence, HostFacts, PhaseFacts, Applicable, Gated, HostRecs
    <2>5. ChangeFacts'
      BY <2>1, <2>2 DEF IInv, ChangeFacts, Lost
    <2>6. GateFacts' /\ PassSound'
      BY <2>1, <2>2 DEF IInv, GateFacts, PassSound, PassTrue, PassListsChanges, CleanOn, Gated, Last, Applicable
    <2> QED
      BY <2>3, <2>4, <2>5, <2>6 DEF IInv
  <1> QED
    BY <1>1, <1>2, <1>3, <1>4, <1>5, <1>6 DEF Next, Wrapper, Command, Terminated

\* The invariant holds in every state of every operation.
LEMMA InductiveInvariant == Spec => []IInv
  BY InitIInv, NextIInv, PTL DEF Spec

\* A PASS summary or an exit status 0 means that hosts were selected, that every
\* phase really ran clean on every one it applies to, and that the changes the
\* summary lists are all there were.
THEOREM PassIsSound == Spec => []PassSound
  <1>1. IInv => PassSound
    BY DEF IInv
  <1> QED
    BY <1>1, InductiveInvariant, PTL

\* When the wrapper exits, no command of it is left running, unless the signal
\* came between the fork and active_pid=$!.
THEOREM NothingLeftRunning == Spec => []NothingLeft
  <1>1. IInv => NothingLeft
    BY DEF IInv, ProcessFacts, NothingLeft
  <1> QED
    BY <1>1, InductiveInvariant, PTL

\* An evidence-gated operation touches no host in a phase unless every earlier
\* phase really was clean.
THEOREM GateIsHeld == Spec => GateHolds
  <1> DEFINE Held == \A p \in Phases : Gated /\ real'[p] # real[p] =>
                 \A q \in 1..(p - 1), h \in target : Applicable(h, q) => CleanOn(q, h)
  <1>1. IInv /\ [Next]_vars => Held
    <2> SUFFICES ASSUME IInv, [Next]_vars, NEW p \in Phases, Gated, real'[p] # real[p],
                        NEW q \in 1..(p - 1), NEW h \in target, Applicable(h, q)
                 PROVE  CleanOn(q, h)
      OBVIOUS
    <2>1. PICK g \in All, o \in Outcomes : Task(g, o)
      <3>1. CASE \E g \in All, o \in Outcomes : Task(g, o)
        BY <3>1
      <3>2. CASE ~\E g \in All, o \in Outcomes : Task(g, o)
        <4>1. UNCHANGED real
          BY <3>2 DEF Next, Wrapper, Command, Die, Signal, Terminated, Ansible, Publish, Stats, Recap,
             PlayEnds, InventoryEnds, Initialize, RecordStarted, Fork, Track, Wait, WriteHosts,
             RecordCompleted, Gate, Signalled, Finish, Clean, truth, vars
        <4> QED
          BY <4>1
      <3> QED
        BY <3>1, <3>2
    <2>2. real' = [real EXCEPT ![phase][g] = o]
      BY <2>1 DEF Task
    <2>3. p = phase
      BY <2>2 DEF IInv, Types, CommandTypes
    <2> QED
      BY <2>3 DEF IInv, GateFacts
  <1> QED
    BY <1>1, InductiveInvariant, PTL DEF Spec, GateHolds
\* Every write leaves the marks of the file with their types.
LEMMA WriteMarks ==
    ASSUME NEW r, Append(r) \/ AppendFails(r), faults \in 0..MaxFaults, damaged \in BOOLEAN,
           cut = {} \/ \E x \in cut : cut = {x}
    PROVE  /\ damaged' \in BOOLEAN /\ faults' \in 0..MaxFaults
           /\ cut' = {} \/ \E x \in cut' : cut' = {x}
  <1>1. damaged' \in BOOLEAN
    BY DEF Append, AppendFails
  <1>2. faults' = faults \/ (faults < MaxFaults /\ faults' = faults + 1)
    BY DEF Append, AppendFails
  <1>3. faults' \in 0..MaxFaults
    BY <1>2, SummaryAssumption
  <1>4. cut' = {} \/ cut' = cut \/ cut' = {r}
    BY DEF Append, AppendFails
  <1>5. cut' = {} \/ \E x \in cut' : cut' = {x}
    BY <1>4
  <1> QED
    BY <1>1, <1>3, <1>5

LEMMA MarksKept == Marks /\ [Next]_vars => Marks'
  <1> SUFFICES ASSUME Marks, [Next]_vars PROVE Marks'
    OBVIOUS
  <1> USE SummaryAssumption
  <1> USE DEF Next, Wrapper, Command, Die, Signal, Terminated, Ansible, Task, Publish, Stats, Recap,
       PlayEnds, InventoryEnds, Initialize, RecordStarted, Fork, Track, Wait, WriteHosts,
       RecordCompleted, Gate, Signalled, Finish, Clean
  <1>0. faults \in 0..MaxFaults /\ damaged \in BOOLEAN /\ (cut = {} \/ \E x \in cut : cut = {x})
        /\ writeFailed \in BOOLEAN /\ tracked \in BOOLEAN /\ termed \in BOOLEAN
    BY DEF Marks
  <1>1. \/ UNCHANGED <<damaged, cut, faults>>
        \/ /\ cut' = cut /\ (damaged' = damaged \/ damaged' = TRUE)
           /\ faults' = faults \/ (faults < MaxFaults /\ faults' = faults + 1)
        \/ \E r : Append(r) \/ AppendFails(r)
    BY DEF Write, Put, vars, file
  <1>2. writeFailed' = writeFailed \/ writeFailed' = TRUE \/ writeFailed' = FALSE
    BY DEF Write, vars, process
  <1>3. tracked' = tracked \/ tracked' = TRUE \/ tracked' = FALSE
    BY DEF vars, process
  <1>4. termed' = termed \/ termed' = tracked
    BY DEF vars, process
  <1> HIDE DEF Next, Wrapper, Command, Die, Signal, Terminated, Ansible, Task, Publish, Stats, Recap,
       PlayEnds, InventoryEnds, Initialize, RecordStarted, Fork, Track, Wait, WriteHosts,
       RecordCompleted, Gate, Signalled, Finish, Clean
  <1>5. /\ damaged' \in BOOLEAN /\ faults' \in 0..MaxFaults
        /\ cut' = {} \/ \E x \in cut' : cut' = {x}
    <2>1. CASE UNCHANGED <<damaged, cut, faults>>
      BY <1>0, <2>1
    <2>2. CASE /\ cut' = cut /\ (damaged' = damaged \/ damaged' = TRUE)
               /\ faults' = faults \/ (faults < MaxFaults /\ faults' = faults + 1)
      <3>1. damaged' \in BOOLEAN
        BY <1>0, <2>2
      <3>2. faults' \in 0..MaxFaults
        BY <1>0, <2>2
      <3>3. cut' = {} \/ \E x \in cut' : cut' = {x}
        BY <1>0, <2>2
      <3> QED
        BY <3>1, <3>2, <3>3
    <2>3. CASE \E r : Append(r) \/ AppendFails(r)
      BY <1>0, <2>3, WriteMarks
    <2> QED
      BY <1>1, <2>1, <2>2, <2>3
  <1> QED
    BY <1>0, <1>2, <1>3, <1>4, <1>5 DEF Marks

\* Every variable keeps its type: in particular the event file holds only known
\* records, and never more than one of them without its newline.
THEOREM SummaryTypeCorrect == Spec => []TypeOK
  <1>1. Init => Marks
    <2>1. Init => damaged \in BOOLEAN /\ writeFailed \in BOOLEAN /\ tracked \in BOOLEAN
                  /\ termed \in BOOLEAN /\ cut = {}
      BY DEF Init
    <2>2. Init => faults \in 0..MaxFaults
      BY SummaryAssumption DEF Init
    <2> QED
      BY <2>1, <2>2 DEF Marks
  <1>2. IInv /\ Marks => TypeOK
    <2> SUFFICES ASSUME IInv, Marks PROVE TypeOK
      OBVIOUS
    <2>1. damaged \in BOOLEAN /\ writeFailed \in BOOLEAN /\ tracked \in BOOLEAN /\ termed \in BOOLEAN
      BY DEF Marks
    <2>2. faults \in 0..MaxFaults
      BY DEF Marks
    <2>3. Cardinality(cut) \in {0, 1}
      BY FS_EmptySet, FS_Singleton DEF Marks
    <2>4. Types /\ phase \in Phases \cup {0}
      BY PhaseTyped DEF IInv
    <2>5. Cardinality(cut) <= 1
      BY <2>3
    <2> QED
      BY <2>1, <2>2, <2>4, <2>5 DEF TypeOK, Types, FileTypes, ShellTypes, CommandTypes
  <1> QED
    BY <1>1, <1>2, InitIInv, NextIInv, MarksKept, PTL DEF Spec
=============================================================================
