-------------------------- MODULE OperationSummary --------------------------
(***************************************************************************)
(* One fixed operation from its first record to its verdict: the wrapper   *)
(* (scripts/platform-config-operation), the Ansible run of each phase with *)
(* the callback that records it (plugins/callback/                         *)
(* platform_config_operation_summary.py), and the renderer that decides    *)
(* PASS or FAIL (scripts/platform-config-operation-summary).               *)
(*                                                                         *)
(* Phase 0 resolves the inventory, phases 1..Last run plays.  The tasks of *)
(* a host in a phase are summed up by one outcome; an unreachable host     *)
(* counts as a failed one, as it does everywhere in the code, and one on   *)
(* which every task was skipped as one with ignored errors, as it does in  *)
(* every gated operation but the storage ones and the runner smoke test.   *)
(***************************************************************************)
EXTENDS Naturals, FiniteSets

CONSTANTS
    Hosts,       \* the hosts the inventory selects
    Servers,     \* those with the role "server"
    Stray,       \* other hosts that a play processes
    StrayPhases, \* phases whose play processes them
    OPERATIONS,  \* the phases of an operation of each kind, after the inventory
    ServerOnly,  \* phases that apply to servers only
    Unchanged,   \* UNCHANGED_PHASES
    MaxFaults,   \* bound: writes to the event file that fail
    None         \* no host

Phases == UNION {1..OPERATIONS[k] : k \in DOMAIN OPERATIONS}

ASSUME SummaryAssumption ==
    /\ Servers \subseteq Hosts /\ Hosts \cap Stray = {}
    /\ OPERATIONS \in [{"plain", "gated", "failover"} -> Nat \ {0}]
    /\ OPERATIONS["failover"] = 1
    /\ StrayPhases \subseteq Phases /\ ServerOnly \subseteq Phases /\ Unchanged \subseteq Phases
    /\ MaxFaults \in Nat /\ None \notin Hosts \cup Stray

VARIABLES
    kind,      \* the class of the operation
    target,    \* the hosts its inventory selects
    unsafe,    \* the stray hosts whose name the callback does not write
    log, cut, damaged,  \* the event file, see Append
    pc, phase, cmd,     \* the wrapper, its phase, the status of the command
    status, output, exit,
    signal,    \* whether a signal came, and whether it found active_pid set
    child, tracked, termed, ended,  \* the command: state, active_pid, TERM, status
    writeFailed, recapped,          \* of the callback
    real, shown,  \* what really happened to a host, and in its failover test
    faults

operation == <<kind, target, unsafe>>
file    == <<log, cut, damaged, faults>>
verdict == <<status, output, exit, signal>>
process == <<child, tracked, termed, ended, writeFailed, recapped>>
truth   == <<real, shown>>
vars    == <<operation, file, pc, phase, cmd, verdict, process, truth>>

All      == Hosts \cup Stray
Outcomes == {"ok", "changed", "ignored", "rescued", "failed"}
Gated    == kind = "gated"   \* EVIDENCE_GATED_OPERATIONS

Last == OPERATIONS[kind]

Applicable(h, p) == p \in ServerOnly => h \in Servers

Rec(k, p, h, v) == [k |-> k, p |-> p, h |-> h, v |-> v]

-----------------------------------------------------------------------------
(***************************************************************************)
(* The event file                                                          *)
(***************************************************************************)

\* One append: r goes on a line of its own, unless the line before it was left
\* without its newline; then neither can be read.  A phase, recap or failover
\* record that is there twice cannot be read either.
Append(r) ==
    /\ log' = log \cup {r} /\ cut' = {}
    /\ damaged' = (damaged \/ cut # {} \/ (r \in log /\ r.k # "task"))
    /\ UNCHANGED faults

\* The append fails: before it wrote anything, in the middle of the record, or
\* with only the newline missing.
AppendFails(r) ==
    /\ faults < MaxFaults /\ faults' = faults + 1
    /\ \/ UNCHANGED <<log, cut, damaged>>
       \/ damaged' = TRUE /\ UNCHANGED <<log, cut>>
       \/ damaged' = (damaged \/ cut # {}) /\ cut' = {r} /\ UNCHANGED log

Lines == log \cup cut

-----------------------------------------------------------------------------
(***************************************************************************)
(* The renderer                                                            *)
(***************************************************************************)
Listed == {r.h : r \in {x \in Lines : x.k = "host"}}

\* SummaryError: the file cannot be read as the events of this operation.
Invalid ==
    \/ damaged
    \/ ~\E r \in Lines : r.k = "operation"
    \/ \E r \in Lines : r.k = "error"
    \/ \E r \in Lines : r.k = "completed" /\ ~\E x \in Lines : x.k = "started" /\ x.p = r.p
    \/ \E r \in Lines : r.k = "failover" /\ (kind # "failover" \/ r.h \notin Listed)
    \/ Gated /\ \E r \in Lines : r.k \in {"task", "recap"} /\ r.h \notin Listed

PhasePassed(p) == Rec("completed", p, None, "ok") \in Lines

\* Slip: a host without a recap is one the phase had nothing to do on.
HostPassedUnseen(h, p) ==
    /\ PhasePassed(p)
    /\ \A r \in Lines : r.k = "recap" /\ r.p = p /\ r.h = h
          => r.v \notin {"failed", "ignored", "rescued"}
    /\ kind = "failover" => Rec("failover", p, h, "passed") \in Lines

\* The row of a host and a phase reads PASS.
HostPassed(h, p) ==
    /\ PhasePassed(p)
    /\ \E r \in Lines :
          /\ r.k = "recap" /\ r.p = p /\ r.h = h
          /\ r.v # "failed"
          /\ Gated => r.v \notin {"ignored", "rescued"}
          /\ p \in Unchanged => r.v # "changed"
    /\ kind = "failover" => Rec("failover", p, h, "passed") \in Lines

\* Overall: PASS for the phases up to the given one.
Complete(through) ==
    /\ ~Invalid /\ Listed # {}
    /\ \A p \in 0..through : PhasePassed(p)
    /\ \A h \in Listed, p \in 1..through : Applicable(h, p) => HostPassed(h, p)

-----------------------------------------------------------------------------
(***************************************************************************)
(* The callback, in the Ansible process of the phase                       *)
(***************************************************************************)
wrapper == <<operation, pc, phase, cmd, verdict>>

Running == child \in {"run", "stats"}

\* A record of the callback; a write that fails is remembered.
Write(r) ==
    \/ Append(r) /\ UNCHANGED writeFailed
    \/ AppendFails(r) /\ writeFailed' = TRUE

ErrorRec == Rec("error", phase, None, "")

\* A host gets its outcome; changes and failures are recorded.
Task(h, o) ==
    /\ child = "run" /\ phase > 0
    /\ real[phase][h] = "none"
    /\ IF h \in Stray THEN phase \in StrayPhases ELSE h \in target /\ Applicable(h, phase)
    /\ real' = [real EXCEPT ![phase][h] = o]
    /\ \/ o \in {"ok", "ignored"} /\ UNCHANGED <<file, writeFailed>>
       \/ o \notin {"ok", "ignored"} /\ h \in unsafe /\ Write(ErrorRec)
       \/ o \notin {"ok", "ignored"} /\ h \notin unsafe
             /\ Write(Rec("task", phase, h, o))
    /\ UNCHANGED <<wrapper, shown, child, tracked, termed, ended, recapped>>

\* The failover results of a host, checked before they are written.
Publish(h, v) ==
    /\ child = "run" /\ phase > 0 /\ kind = "failover"
    /\ h \in target /\ shown[h] = "none" /\ real[phase][h] \in {"ok", "changed"}
    /\ shown' = [shown EXCEPT ![h] = v]
    /\ \/ v = "malformed" /\ Write(ErrorRec)
       \/ v # "malformed" /\ Write(Rec("failover", phase, h, v))
    /\ UNCHANGED <<wrapper, real, child, tracked, termed, ended, recapped>>

\* Ansible's exit status.
PlayStatus ==
    IF \E h \in All : real[phase][h] = "failed" THEN "fail" ELSE "ok"

Ends == child' = "ended" /\ ended' = PlayStatus

\* v2_playbook_on_stats: after a lost record only an error is tried.
Stats ==
    /\ child = "run" /\ phase > 0
    /\ \/ ~writeFailed /\ child' = "stats" /\ UNCHANGED <<ended, file, writeFailed>>
       \/ writeFailed /\ Write(ErrorRec) /\ Ends
    /\ UNCHANGED <<wrapper, truth, tracked, termed, recapped>>

\* The recap of one processed host; an unsafe name or a lost write ends the loop.
Recap(h) ==
    /\ child = "stats" /\ real[phase][h] # "none" /\ h \notin recapped
    /\ recapped' = recapped \cup {h}
    /\ \/ h \in unsafe /\ Write(ErrorRec) /\ Ends
       \/ /\ h \notin unsafe
          /\ LET r == Rec("recap", phase, h, real[phase][h]) IN
             \/ Append(r) /\ UNCHANGED <<writeFailed, child, ended>>
             \/ AppendFails(r) /\ writeFailed' = TRUE /\ Ends
    /\ UNCHANGED <<wrapper, truth, tracked, termed>>

PlayEnds ==
    /\ child = "stats" /\ \A h \in All : real[phase][h] # "none" => h \in recapped
    /\ Ends
    /\ UNCHANGED <<wrapper, truth, file, tracked, termed, writeFailed, recapped>>

\* ansible-inventory ends.
InventoryEnds(s) ==
    /\ child = "run" /\ phase = 0
    /\ child' = "ended" /\ ended' = s
    /\ UNCHANGED <<wrapper, truth, file, tracked, termed, writeFailed, recapped>>

\* The command is terminated, by the wrapper or by something else.
Die ==
    /\ Running
    /\ child' = "ended" /\ ended' = "fail"
    /\ UNCHANGED <<wrapper, truth, file, tracked, termed, writeFailed, recapped>>

-----------------------------------------------------------------------------
(***************************************************************************)
(* The wrapper                                                             *)
(***************************************************************************)
Goto(step) == pc' = step

\* set -e: the shell exits, and finish runs.
Exit(s) == Goto("finish") /\ status' = s /\ UNCHANGED <<phase, output, exit, signal>>

Continue(step) == Goto(step) /\ UNCHANGED <<phase, verdict>>

\* A record of the wrapper; when it cannot be written the operation stops.
Put(r, step) ==
    \/ Append(r) /\ Continue(step)
    \/ AppendFails(r) /\ Exit("fail")

Initialize ==
    /\ pc = "init"
    /\ Put(Rec("operation", 0, None, ""), "started")
    /\ UNCHANGED <<operation, cmd, process, truth>>

RecordStarted ==
    /\ pc = "started"
    /\ Put(Rec("started", phase, None, ""), "fork")
    /\ UNCHANGED <<operation, cmd, process, truth>>

\* run_command: the child is there one command before active_pid names it.
Fork ==
    /\ pc = "fork"
    /\ child' = "run"
    /\ Continue("track")
    /\ UNCHANGED <<operation, cmd, file, tracked, termed, ended, writeFailed, recapped, truth>>

Track ==
    /\ pc = "track"
    /\ tracked' = TRUE
    /\ Continue("wait")
    /\ UNCHANGED <<operation, cmd, file, child, termed, ended, writeFailed, recapped, truth>>

Wait ==
    /\ pc = "wait" /\ child = "ended"
    /\ cmd' = ended
    /\ child' = "none" /\ tracked' = FALSE /\ ended' = "ok"
    /\ writeFailed' = FALSE /\ recapped' = {}
    /\ Continue(IF phase = 0 /\ ended = "ok" THEN "hosts" ELSE "completed")
    /\ UNCHANGED <<operation, file, termed, truth>>

HostRecs(D) == {Rec("host", 0, h, "") : h \in D}

\* The selected hosts are written one after the other; the rest may be lost.
WriteHosts ==
    /\ pc = "hosts"
    /\ \/ log' = log \cup HostRecs(target) /\ UNCHANGED <<cut, damaged, faults, cmd>>
       \/ /\ faults < MaxFaults /\ faults' = faults + 1
          /\ cmd' = "fail"
          /\ \E D \in SUBSET target : D # target /\ log' = log \cup HostRecs(D)
          /\ damaged' \in {damaged, TRUE} /\ UNCHANGED cut
    /\ Continue("completed")
    /\ UNCHANGED <<operation, process, truth>>

\* The next phase, or the end of the script.
Advance ==
    IF phase = Last THEN Exit("ok")
    ELSE Goto("started") /\ phase' = phase + 1 /\ UNCHANGED verdict

RecordCompleted ==
    /\ pc = "completed"
    /\ LET r == Rec("completed", phase, None, cmd) IN
       \/ AppendFails(r) /\ Exit("fail")
       \/ /\ Append(r)
          /\ \/ cmd = "fail" /\ Exit("fail")
             \/ cmd = "ok" /\ Gated /\ Continue("gate")
             \/ cmd = "ok" /\ ~Gated /\ Advance
    /\ UNCHANGED <<operation, cmd, process, truth>>

\* Slip: the gate looks at the exit status of the phase only.
GateStatus ==
    /\ pc = "gate"
    /\ \/ PhasePassed(phase) /\ Advance
       \/ ~PhasePassed(phase) /\ Exit("fail")
    /\ UNCHANGED <<operation, cmd, file, process, truth>>

\* require_phase_evidence
Gate ==
    /\ pc = "gate"
    /\ \/ Complete(phase) /\ Advance
       \/ ~Complete(phase) /\ Exit("fail")
    /\ UNCHANGED <<operation, cmd, file, process, truth>>

\* Slip: the signal is not passed on to the child.
SignalUnforwarded ==
    /\ signal = "none" /\ pc \notin {"finish", "clean", "end"}
    /\ signal' = (IF pc = "track" THEN "unseen" ELSE "heard")
    /\ status' = "fail" /\ Goto("signalled")
    /\ UNCHANGED <<operation, cmd, phase, file, output, exit, process, truth>>

\* forward_signal: the child that active_pid names is sent TERM.
Signal ==
    /\ signal = "none" /\ pc \notin {"finish", "clean", "end"}
    /\ signal' = (IF pc = "track" THEN "unseen" ELSE "heard")
    /\ status' = "fail" /\ Goto("signalled")
    /\ termed' = tracked
    /\ UNCHANGED <<operation, cmd, phase, file, output, exit,
                   child, tracked, ended, writeFailed, recapped, truth>>

\* Slip: the exit does not wait for the child.
SignalledNoWait ==
    /\ pc = "signalled"
    /\ Continue("finish")
    /\ UNCHANGED <<operation, cmd, file, process, truth>>

\* ... and waited for.
Signalled ==
    /\ pc = "signalled" /\ (tracked => child = "ended")
    /\ Continue("finish")
    /\ UNCHANGED <<operation, cmd, file, process, truth>>

\* render --status; an unreadable file gets the fallback summary.
Verdict == IF status = "ok" /\ Complete(Last) THEN "PASS" ELSE "FAIL"

\* finish: the summary is rendered and written, unless the write fails; a
\* status 0 becomes 2 when it was not rendered as PASS or not written.
Finish ==
    /\ pc = "finish"
    /\ \E written \in BOOLEAN :
          /\ output' = (IF written THEN Verdict ELSE "none")
          /\ status' = (IF written /\ Verdict = "PASS" THEN status ELSE "fail")
    /\ Goto("clean")
    /\ UNCHANGED <<operation, phase, cmd, exit, signal, file, process, truth>>

\* The directory is removed, or cannot be, and the shell exits.
Clean ==
    /\ pc = "clean"
    /\ \E removed \in BOOLEAN :
          exit' = (IF status = "ok" /\ removed THEN "zero" ELSE "nonzero")
    /\ Goto("end")
    /\ UNCHANGED <<operation, phase, cmd, status, output, signal,
                   file, process, truth>>

-----------------------------------------------------------------------------
Init ==
    /\ kind \in {"plain", "gated", "failover"}
    /\ target \in {Hosts, {}} /\ unsafe \in SUBSET Stray
    /\ log = {} /\ cut = {} /\ damaged = FALSE /\ faults = 0
    /\ pc = "init" /\ phase = 0 /\ cmd = "ok"
    /\ status = "ok" /\ output = "none" /\ exit = "none"
    /\ signal = "none"
    /\ child = "none" /\ tracked = FALSE /\ termed = FALSE /\ ended = "ok"
    /\ writeFailed = FALSE /\ recapped = {}
    /\ real = [p \in Phases |-> [h \in All |-> "none"]]
    /\ shown = [h \in Hosts |-> "none"]

Wrapper ==
    \/ Initialize \/ RecordStarted \/ Fork \/ Track \/ Wait \/ WriteHosts
    \/ RecordCompleted \/ Gate \/ Signalled \/ Finish \/ Clean

Ansible ==
    \/ \E h \in All, o \in Outcomes : Task(h, o)
    \/ \E h \in Hosts, v \in {"passed", "failed", "malformed"} : Publish(h, v)
    \/ Stats \/ (\E h \in All : Recap(h)) \/ PlayEnds
    \/ \E s \in {"ok", "fail"} : InventoryEnds(s)

\* What a command that outlives the wrapper still does is not followed: nobody
\* reads the event file any more.
Command == pc # "end" /\ Ansible

\* The shell has exited and so has every command it started.
Terminated == pc = "end" /\ ~Running /\ UNCHANGED vars

Next == Wrapper \/ Command \/ Die \/ Signal \/ Terminated

Spec == Init /\ [][Next]_vars

\* The shell goes on whenever it can, and a command that was sent TERM ends.
\* Nothing is assumed of a command that was not: it may wait for an operator.
FairSpec == Spec /\ WF_vars(Wrapper) /\ WF_vars(termed /\ Die)
-----------------------------------------------------------------------------
Records ==
    [k : {"operation", "host", "started", "completed", "task", "recap", "failover", "error"},
     p : Phases \cup {0}, h : All \cup {None},
     v : Outcomes \cup {"", "fail", "passed"}]

\* Every variable has its type: the event file holds known records, at most one of
\* them cut short.
TypeOK ==
    /\ kind \in {"plain", "gated", "failover"}
    /\ target \in {Hosts, {}} /\ unsafe \subseteq Stray
    /\ log \subseteq Records /\ cut \subseteq Records /\ Cardinality(cut) <= 1
    /\ damaged \in BOOLEAN /\ faults \in 0..MaxFaults
    /\ pc \in {"init", "started", "fork", "track", "wait", "hosts", "completed", "gate",
               "signalled", "finish", "clean", "end"}
    /\ phase \in Phases \cup {0} /\ cmd \in {"ok", "fail"}
    /\ status \in {"ok", "fail"}
    /\ output \in {"none", "PASS", "FAIL"} /\ exit \in {"none", "zero", "nonzero"}
    /\ signal \in {"none", "heard", "unseen"}
    /\ child \in {"none", "run", "stats", "ended"} /\ ended \in {"ok", "fail"}
    /\ tracked \in BOOLEAN /\ termed \in BOOLEAN
    /\ writeFailed \in BOOLEAN /\ recapped \subseteq All
    /\ real \in [Phases -> [All -> Outcomes \cup {"none"}]]
    /\ shown \in [Hosts -> {"none", "passed", "failed", "malformed"}]

(***************************************************************************)
(* Properties                                                              *)
(***************************************************************************)

\* What the operation asks of a host in a phase, of what really happened there.
CleanOn(p, h) ==
    /\ real[p][h] \notin {"none", "failed"}
    /\ Gated => real[p][h] \notin {"ignored", "rescued"}
    /\ p \in Unchanged => real[p][h] # "changed"
    /\ kind = "failover" => shown[h] = "passed"

\* A summary that says PASS, or an exit status 0, means that hosts were selected
\* and that every phase really ran clean on every one it applies to, whatever
\* records were lost, torn or run together and whatever was killed.
PassTrue ==
    output = "PASS" \/ exit = "zero" =>
        /\ target # {}
        /\ \A p \in 1..Last, h \in target : Applicable(h, p) => CleanOn(p, h)

\* A PASS summary lists every host that was changed: a lost task record fails it.
PassListsChanges ==
    output = "PASS" => \A p \in 1..Last, h \in target :
        real[p][h] = "changed" => Rec("task", p, h, "changed") \in Lines

\* What a PASS summary says is so: every phase ran clean everywhere, and the
\* changes it lists are all there were.
PassSound == PassTrue /\ PassListsChanges

\* An evidence-gated operation touches no host in a phase unless every earlier
\* phase really was clean, although Ansible's exit status does not tell.
GateHolds ==
    [][\A p \in Phases : Gated /\ real'[p] # real[p] =>
          \A q \in 1..(p - 1), h \in target : Applicable(h, q) => CleanOn(q, h)]_vars

\* When the wrapper exits, no command of it is left running, unless the
\* signal came between the fork and active_pid=$!.
NothingLeft == pc = "end" /\ Running => signal = "unseen"

\* A signal ends the operation, even while a play waits for an operator.
SignalEnds == signal # "none" ~> pc = "end"
=============================================================================
