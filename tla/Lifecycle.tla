----------------------------- MODULE Lifecycle -----------------------------
(***************************************************************************)
(* The activation transaction of the target-local certificate lifecycle   *)
(* helper (roles/pki_host_local_certificate/files/                         *)
(* platform-pki-host-local-lifecycle): target-activate-start,              *)
(* target-activate-complete and target-recover, run by any number of       *)
(* processes that share one state root, one service and one flock.         *)
(*                                                                         *)
(* A step is one durable effect: the creation, replacement or removal of   *)
(* one file, or one systemctl action.  A process can be killed between any *)
(* two of them, and, with TornWrites, in the middle of one.                *)
(*                                                                         *)
(* Digests, signatures, paths and record encodings are abstracted: a       *)
(* certificate version is its request id, `active' and the service         *)
(* configuration are the request id they select (None: no active record,   *)
(* the base configuration), and the rollback record is the pair of request *)
(* ids it binds.                                                           *)
(***************************************************************************)
EXTENDS Naturals

CONSTANTS
    Requests,         \* request ids
    Procs,            \* processes that run the helper
    None,             \* no request, no process
    Adapter,          \* "zot" (zot-v1) or "openbao" (openbao-pristine-v1)
    RollbackSeconds,  \* --rollback-seconds
    Window,           \* the 300 s activation ordering window
    MaxTime,          \* bound: the clock stops here
    MaxCrashes,       \* bound: kills and reboots
    TornWrites,       \* a kill may hit the middle of a file write
    Aging             \* certificates fall below the minimum remaining lifetime

ASSUME LifecycleAssumption ==
    /\ None \notin Requests
    /\ None \notin Procs
    /\ Adapter \in {"zot", "openbao"}
    /\ RollbackSeconds \in Nat
    /\ Window \in Nat
    /\ Window < RollbackSeconds
    /\ MaxTime \in Nat
    /\ MaxCrashes \in Nat
    /\ TornWrites \in BOOLEAN
    /\ Aging \in BOOLEAN

VARIABLES
    active,      \* state root: the active record
    rollback,    \* state root: the rollback record
    config,      \* the version the service configuration selects
    journal,     \* state root: activation-journal
    terminal,    \* state root: target-terminal
    history,     \* state root: target-terminal-history/<request id>
    debris,      \* state root: a .lifecycle-* temporary file was left behind
    svc,         \* systemctl is-active
    loaded,      \* the version the running service loaded
    masked,      \* the unit is masked
    requested,   \* pending root: published requests (never deleted)
    pred,        \* the predecessor a request binds
    versions,    \* versions root: installed immutable versions
    fresh,       \* certificates with the minimum remaining lifetime
    now,         \* time.time()
    crashes,     \* bound on kills
    lock,        \* holder of the exclusive flock on the state root
    pc, rid, goal, proof   \* per process: next effect, args.request_id,
                           \* what a restore or publication is for, and the
                           \* validation epoch it proved

files    == <<active, rollback, config, journal, terminal, history, debris>>
service  == <<svc, loaded, masked>>
requests == <<requested, pred, versions, fresh>>
clock    == <<now, crashes>>
procs    == <<lock, pc, rid, goal, proof>>
vars     == <<files, service, requests, clock, procs>>

Sel         == Requests \cup {None}
Restored    == {"not-activated", "rolled-back"}
Outcomes    == Restored \cup {"complete"}
Checkpoints == {"prepared", "records-written", "config-written", "restarted",
                "local-validated"} \cup Restored

NoRollback == [for |-> None, pred |-> None]
NoTerminal == [state |-> "absent", rid |-> None, epoch |-> 0]
NoJournal  == [cp |-> "absent", rid |-> None, priorActive |-> None,
               priorRollback |-> NoRollback, priorConfig |-> None,
               priorSvc |-> "inactive", created |-> 0, deadline |-> 0]
TornJournal  == [NoJournal EXCEPT !.cp = "torn"]
TornTerminal == [NoTerminal EXCEPT !.state = "torn"]

\* The steps of activate_start that an exception sends to restore_from_journal.
ActivationSteps == {"write-active", "write-rollback", "cp-records",
                    "write-config", "cp-config", "service", "cp-restarted",
                    "validate", "cp-validated"}
RestoreSteps    == {"restore-stop", "restore-config", "restore-active",
                    "restore-rollback", "restore-service", "restore-cp"}
PublishSteps    == {"publish-terminal", "publish-archive", "publish-unlink"}
RetireSteps     == {"retire-archive", "retire-unlink"}
CompleteSteps   == {"complete-start", "complete-validate", "complete-deadline"}
RecoverSteps    == {"recover-stop", "recover"}
\* Every step below is taken under the exclusive lock.
LockedSteps     == ActivationSteps \cup RestoreSteps \cup PublishSteps
                   \cup RetireSteps \cup CompleteSteps \cup RecoverSteps
Goals           == {"none", "abandon", "fail", "complete", "replay"}

(***************************************************************************)
(* What the helper reads and checks.                                       *)
(***************************************************************************)
JournalValid  == journal.cp \in Checkpoints
NewRollback   == [for |-> journal.rid, pred |-> journal.priorActive]
HistoryParses == \A r \in Requests : history[r] # "torn"

\* target_pending_request_ids: pending directories that no terminal record,
\* current or retained, names.
Nonterminal == {r \in requested : history[r] = "absent" /\ terminal.rid # r}

\* authenticate_active: the version directory is immutable, so what can fail
\* is the service configuration selecting another version.
ActiveAuthentic == active = None \/ config = active

\* validate_terminal_activation
TerminalMatchesActive ==
    /\ ActiveAuthentic
    /\ terminal.state = "complete" <=> active = terminal.rid

\* validate_pending and validate_version: the directories are immutable.
Pending(r)   == r \in requested
Installed(r) == r \in versions

\* validate_response_files: of its checks only the remaining lifetime can
\* change after the response was installed.
ResponseValid(r) == r \in fresh

\* authenticate_target_candidate
Candidate(r) == Pending(r) /\ Installed(r) /\ ResponseValid(r)

\* require_adapter_operation: pristine OpenBao is issued, never renewed.
AdapterOperation(r) == Adapter = "openbao" => pred[r] = None

\* state_entries: a temporary file is an unexpected entry.
EntriesAllowed == ~debris

\* strict_local_validation: the service answers with the new certificate.
ServesCandidate == svc = "active" /\ loaded = journal.rid

\* service_action: what one action can leave behind.  A failing command
\* leaves the effects of the commands before it; a failed (re)start leaves
\* the unit as it was or stopped.
Systemctl(action) ==
    LET unit(s, l, m, ok) == [svc |-> s, loaded |-> l, masked |-> m, ok |-> ok]
        same    == unit(svc, loaded, masked, FALSE)
        down(m) == unit("inactive", None, m, FALSE)
    IN CASE action = "restart" ->
              {unit("active", config, masked, TRUE), same, down(masked)}
         [] action = "start" ->
              {unit("active", IF svc = "active" THEN loaded ELSE config,
                    masked, TRUE), same, down(masked)}
         [] action = "stop" ->
              {unit("inactive", None, masked, TRUE), same}
         [] action = "enable-start" ->
              {unit("active", IF svc = "active" THEN loaded ELSE config,
                    FALSE, TRUE),
               same, unit(svc, loaded, FALSE, FALSE), down(FALSE)}
         [] action = "disable-stop" ->
              {unit("inactive", None, TRUE, TRUE), same, down(masked)}

Unit(o) == /\ svc' = o.svc
           /\ loaded' = o.loaded
           /\ masked' = o.masked

(***************************************************************************)
(* Control: the next step of a process, and the release of its lock.       *)
(***************************************************************************)
Goto(p, step) == /\ pc' = [pc EXCEPT ![p] = step]
                 /\ UNCHANGED <<lock, rid, goal, proof>>

GotoFor(p, step, why) == /\ pc' = [pc EXCEPT ![p] = step]
                         /\ goal' = [goal EXCEPT ![p] = why]
                         /\ UNCHANGED <<lock, rid, proof>>

Enter(p, step, why) == /\ lock' = p
                       /\ pc' = [pc EXCEPT ![p] = step]
                       /\ goal' = [goal EXCEPT ![p] = why]
                       /\ UNCHANGED <<rid, proof>>

Exit(p) == /\ pc' = [pc EXCEPT ![p] = "idle"]
           /\ rid' = [rid EXCEPT ![p] = None]
           /\ goal' = [goal EXCEPT ![p] = "none"]
           /\ proof' = [proof EXCEPT ![p] = 0]
           /\ lock' = IF lock = p THEN None ELSE lock

FirstRestore == IF Adapter = "openbao" THEN "restore-stop" ELSE "restore-config"
FirstProbe   == IF Adapter = "openbao" THEN "complete-start" ELSE "complete-validate"

-----------------------------------------------------------------------------
(***************************************************************************)
(* Slips: forms of the steps below that a small mistake in the helper would *)
(* give.  Specifications never use them; each one breaks a property.       *)
(***************************************************************************)
RetireWithoutArchive(p) ==
    /\ pc[p] = "start" /\ lock = None
    /\ EntriesAllowed /\ journal.cp = "absent"
    /\ \/ terminal.state = "absent" /\ Goto(p, "begin")
       \/ /\ terminal.state \in Outcomes /\ terminal.rid # rid[p]
          /\ Enter(p, "retire-unlink", "none")
    /\ UNCHANGED <<files, service, requests, clock>>

RestoreActiveSkipped(p) ==
    /\ pc[p] = "restore-active"
    /\ Goto(p, "restore-rollback")
    /\ UNCHANGED <<files, service, requests, clock>>

RestoreActiveRemoves(p) ==
    /\ pc[p] = "restore-active"
    /\ active' = None
    /\ Goto(p, "restore-rollback")
    /\ UNCHANGED <<rollback, config, journal, terminal, history, debris,
                   service, requests, clock>>

RestoreServiceWithoutRestart(p) ==
    /\ pc[p] = "restore-service"
    /\ Goto(p, "restore-cp")
    /\ UNCHANGED <<files, service, requests, clock>>

CompleteDeadlineUnread(p) ==
    /\ pc[p] = "complete-deadline"
    /\ Goto(p, "publish-terminal")
    /\ UNCHANGED <<files, service, requests, clock>>

CompleteValidateWithoutStop(p) ==
    /\ pc[p] = "complete-validate"
    /\ ServesCandidate
    /\ proof' = [proof EXCEPT ![p] = now]
    /\ pc' = [pc EXCEPT ![p] = "complete-deadline"]
    /\ UNCHANGED <<files, service, requests, clock, lock, rid, goal>>

RecoverIgnoresRestored ==
    IF JournalValid /\ journal.cp \notin Restored THEN FirstRestore ELSE "idle"

-----------------------------------------------------------------------------
(***************************************************************************)
(* target-activate-start                                                   *)
(***************************************************************************)

\* The request is chosen from the pending root before the lock is taken.
TargetActivateStart(p) ==
    /\ pc[p] = "idle"
    /\ terminal.state # "torn" /\ HistoryParses
    /\ \E r \in versions :
          /\ Nonterminal = {r}
          /\ rid' = [rid EXCEPT ![p] = r]
    /\ pc' = [pc EXCEPT ![p] = "start"]
    /\ UNCHANGED <<files, service, requests, clock, lock, goal, proof>>

\* Any refused check, and a lock that is held (LOCK_NB, shared readers
\* included), ends the command without an effect.
Refuse(p) ==
    /\ pc[p] \in {"start", "begin"}
    /\ Exit(p)
    /\ UNCHANGED <<files, service, requests, clock>>

\* A local-validated journal of the same request is replayed: an expired one
\* is rolled back, a current one is validated again.
ReplayActivation(p) ==
    /\ pc[p] = "start" /\ lock = None
    /\ EntriesAllowed
    /\ journal.cp = "local-validated" /\ journal.rid = rid[p]
    /\ Candidate(rid[p])
    /\ active = rid[p] /\ ActiveAuthentic
    /\ IF now >= journal.deadline
         THEN Enter(p, FirstRestore, "fail")
         ELSE Enter(p, FirstProbe, "replay")
    /\ UNCHANGED <<files, service, requests, clock>>

\* retire_current_target_terminal: the terminal record of an earlier request
\* is archived, unless it already is, before it is removed.
RetireCurrentTerminal(p) ==
    /\ pc[p] = "start" /\ lock = None
    /\ EntriesAllowed /\ journal.cp = "absent"
    /\ terminal.state # "torn"
    /\ Pending(rid[p]) /\ AdapterOperation(rid[p])
    /\ \/ /\ terminal.state = "absent"
          /\ Goto(p, "begin")
       \/ /\ terminal.state \in Outcomes
          /\ terminal.rid # rid[p]
          /\ HistoryParses
          /\ \/ /\ history[terminal.rid] = "absent"
                /\ Candidate(terminal.rid) /\ TerminalMatchesActive
                /\ Enter(p, "retire-archive", "none")
             \/ /\ history[terminal.rid] = terminal.state
                /\ Enter(p, "retire-unlink", "none")
    /\ UNCHANGED <<files, service, requests, clock>>

\* The lock is released between the retirement and activate_start.
RetireUnlink(p) ==
    /\ pc[p] = "retire-unlink"
    /\ terminal' = NoTerminal
    /\ lock' = None
    /\ pc' = [pc EXCEPT ![p] = "begin"]
    /\ UNCHANGED <<active, rollback, config, journal, history, debris,
                   service, requests, clock, rid, goal, proof>>

(***************************************************************************)
(* activate_start: every check up to the creation of the journal.          *)
(***************************************************************************)
OpenBaoPrecondition == active = None /\ svc = "inactive" /\ ~masked

ServicePrecondition ==
    \/ Adapter = "zot" /\ active = None /\ svc = "inactive" /\ masked
    \/ Adapter = "zot" /\ active # None /\ svc = "active"
    \/ Adapter = "openbao" /\ OpenBaoPrecondition

Activatable(r) ==
    /\ EntriesAllowed /\ journal.cp = "absent"
    /\ Candidate(r)
    /\ pred[r] = active
    /\ ActiveAuthentic
    /\ active = None => rollback = NoRollback /\ config = None
    /\ ServicePrecondition

ActivateForgetsRollback(p) ==
    /\ pc[p] = "begin" /\ lock = None
    /\ Activatable(rid[p])
    /\ journal' = [cp |-> "prepared", rid |-> rid[p], priorActive |-> active,
                   priorRollback |-> NoRollback, priorConfig |-> config,
                   priorSvc |-> svc, created |-> now,
                   deadline |-> now + RollbackSeconds]
    /\ Enter(p, "write-active", "none")
    /\ UNCHANGED <<active, rollback, config, terminal, history, debris,
                   service, requests, clock>>

ActivateStart(p) ==
    /\ pc[p] = "begin" /\ lock = None
    /\ Activatable(rid[p])
    /\ journal' = [cp |-> "prepared", rid |-> rid[p], priorActive |-> active,
                   priorRollback |-> rollback, priorConfig |-> config,
                   priorSvc |-> svc, created |-> now,
                   deadline |-> now + RollbackSeconds]
    /\ Enter(p, "write-active", "none")
    /\ UNCHANGED <<active, rollback, config, terminal, history, debris,
                   service, requests, clock>>

\* replace_state_bytes and replace_config_bytes refuse bytes that are neither
\* the prior nor the new ones.
WriteActive(p) ==
    /\ pc[p] = "write-active"
    /\ active \in {journal.priorActive, journal.rid}
    /\ active' = journal.rid
    /\ Goto(p, "write-rollback")
    /\ UNCHANGED <<rollback, config, journal, terminal, history, debris,
                   service, requests, clock>>

WriteRollback(p) ==
    /\ pc[p] = "write-rollback"
    /\ rollback \in {journal.priorRollback, NewRollback}
    /\ rollback' = NewRollback
    /\ Goto(p, "cp-records")
    /\ UNCHANGED <<active, config, journal, terminal, history, debris,
                   service, requests, clock>>

WriteConfig(p) ==
    /\ pc[p] = "write-config"
    /\ config \in {journal.priorConfig, journal.rid}
    /\ config' = journal.rid
    /\ Goto(p, "cp-config")
    /\ UNCHANGED <<active, rollback, journal, terminal, history, debris,
                   service, requests, clock>>

\* set_journal_checkpoint
SetCheckpoint(p, step, checkpoint, next) ==
    /\ pc[p] = step
    /\ journal' = [journal EXCEPT !.cp = checkpoint]
    /\ Goto(p, next)
    /\ UNCHANGED <<active, rollback, config, terminal, history, debris,
                   service, requests, clock>>

ServiceStart(p) ==
    /\ pc[p] = "service"
    /\ \E o \in Systemctl(IF Adapter = "openbao" THEN "start"
                          ELSE IF journal.priorActive = None THEN "enable-start"
                          ELSE "restart") :
          /\ Unit(o)
          /\ IF o.ok THEN Goto(p, "cp-restarted")
                     ELSE GotoFor(p, FirstRestore, "abandon")
    /\ UNCHANGED <<files, requests, clock>>

\* strict_local_validation, the ordering window and authenticate_active.
\* OpenBao is stopped again whatever the validation says; a failed stop is
\* an exception (Fault).
Validate(p) ==
    /\ pc[p] = "validate"
    /\ ServesCandidate
    /\ now <= journal.created + Window
    /\ active = journal.rid /\ ActiveAuthentic
    /\ IF Adapter = "openbao"
         THEN svc' = "inactive" /\ loaded' = None /\ UNCHANGED masked
         ELSE UNCHANGED service
    /\ Goto(p, "cp-validated")
    /\ UNCHANGED <<files, requests, clock>>

LocalValidated(p) ==
    /\ pc[p] = "cp-validated"
    /\ journal' = [journal EXCEPT !.cp = "local-validated"]
    /\ Exit(p)
    /\ UNCHANGED <<active, rollback, config, terminal, history, debris,
                   service, requests, clock>>

\* `except Exception: restore_from_journal': any step of the activation may
\* raise, a failed validation included.
Fault(p) ==
    /\ pc[p] \in ActivationSteps
    /\ GotoFor(p, FirstRestore, "abandon")
    /\ UNCHANGED <<files, service, requests, clock>>

-----------------------------------------------------------------------------
(***************************************************************************)
(* restore_from_journal                                                    *)
(***************************************************************************)
ServiceStep(p, step, action, next) ==
    /\ pc[p] = step
    /\ \E o \in Systemctl(action) :
          /\ Unit(o)
          /\ IF o.ok THEN Goto(p, next) ELSE Exit(p)
    /\ UNCHANGED <<files, requests, clock>>

RestoreStop(p) == ServiceStep(p, "restore-stop", "stop", "restore-config")

Restorable ==
    /\ config \in {journal.priorConfig, journal.rid}
    /\ active \in {journal.priorActive, journal.rid}
    /\ rollback \in {journal.priorRollback, NewRollback}

RestoreConfig(p) ==
    /\ pc[p] = "restore-config"
    /\ IF Restorable
         THEN config' = journal.priorConfig /\ Goto(p, "restore-active")
         ELSE UNCHANGED config /\ Exit(p)
    /\ UNCHANGED <<active, rollback, journal, terminal, history, debris,
                   service, requests, clock>>

RestoreActive(p) ==
    /\ pc[p] = "restore-active"
    /\ active' = journal.priorActive
    /\ Goto(p, "restore-rollback")
    /\ UNCHANGED <<rollback, config, journal, terminal, history, debris,
                   service, requests, clock>>

RestoreRollback(p) ==
    /\ pc[p] = "restore-rollback"
    /\ rollback' = journal.priorRollback
    /\ Goto(p, "restore-service")
    /\ UNCHANGED <<active, config, journal, terminal, history, debris,
                   service, requests, clock>>

RestoreAction ==
    IF journal.priorSvc = "active" THEN "restart"
    ELSE IF journal.priorActive # None THEN "stop" ELSE "disable-stop"

\* A first OpenBao issue was stopped at the start of the restore.
RestoreService(p) ==
    \/ /\ Adapter = "zot"
       /\ ServiceStep(p, "restore-service", RestoreAction, "restore-cp")
    \/ /\ Adapter = "openbao"
       /\ pc[p] = "restore-service"
       /\ IF svc = "inactive" THEN Goto(p, "restore-cp") ELSE Exit(p)
       /\ UNCHANGED <<files, service, requests, clock>>

RestoredCheckpoint ==
    IF \/ journal.priorActive = None
       \/ journal.cp \in {"prepared", "records-written", "not-activated"}
      THEN "not-activated"
      ELSE "rolled-back"

\* The terminal checkpoint ends a restore; publish_target_failure goes on,
\* the handler of activate_start re-raises.
RestoreCheckpoint(p) ==
    /\ pc[p] = "restore-cp"
    /\ journal' = [journal EXCEPT !.cp = RestoredCheckpoint]
    /\ IF goal[p] = "abandon" THEN Exit(p) ELSE Goto(p, "publish-terminal")
    /\ UNCHANGED <<active, rollback, config, terminal, history, debris,
                   service, requests, clock>>

-----------------------------------------------------------------------------
(***************************************************************************)
(* The terminal record: written once, archived, then the journal goes.     *)
(***************************************************************************)
TerminalRecord(p) ==
    [state |-> IF goal[p] = "complete" THEN "complete" ELSE journal.cp,
     rid   |-> journal.rid,
     epoch |-> proof[p]]

\* write_new_at creates with O_EXCL.
PublishTerminal(p) ==
    /\ pc[p] = "publish-terminal"
    /\ IF terminal.state = "absent"
         THEN terminal' = TerminalRecord(p) /\ Goto(p, "publish-archive")
         ELSE UNCHANGED terminal /\ Exit(p)
    /\ UNCHANGED <<active, rollback, config, journal, history, debris,
                   service, requests, clock>>

\* archive_target_terminal
ArchiveTerminal(p, step, next) ==
    /\ pc[p] = step
    /\ \/ /\ history[terminal.rid] = "absent"
          /\ history' = [history EXCEPT ![terminal.rid] = terminal.state]
          /\ Goto(p, next)
       \/ /\ history[terminal.rid] = terminal.state
          /\ UNCHANGED history /\ Goto(p, next)
       \/ /\ history[terminal.rid] \notin {"absent", terminal.state}
          /\ UNCHANGED history /\ Exit(p)
    /\ UNCHANGED <<active, rollback, config, journal, terminal, debris,
                   service, requests, clock>>

UnlinkJournal(p) ==
    /\ pc[p] = "publish-unlink"
    /\ journal' = IF JournalValid /\ journal.rid = terminal.rid
                    THEN NoJournal ELSE journal
    /\ Exit(p)
    /\ UNCHANGED <<active, rollback, config, terminal, history, debris,
                   service, requests, clock>>

-----------------------------------------------------------------------------
(***************************************************************************)
(* target-activate-complete                                                *)
(***************************************************************************)

\* A complete terminal record whose journal was left behind.
CompleteCleanup(p) ==
    /\ pc[p] = "idle" /\ lock = None
    /\ EntriesAllowed /\ HistoryParses
    /\ JournalValid /\ Candidate(journal.rid)
    /\ terminal.state = "complete" /\ terminal.rid = journal.rid
    /\ TerminalMatchesActive
    /\ journal' = NoJournal
    /\ UNCHANGED <<active, rollback, config, terminal, history, debris,
                   service, requests, clock, procs>>

Complete(p) ==
    /\ pc[p] = "idle" /\ lock = None
    /\ EntriesAllowed /\ HistoryParses
    /\ journal.cp = "local-validated" /\ Candidate(journal.rid)
    /\ terminal.state = "absent"
    /\ active = journal.rid /\ ActiveAuthentic
    /\ IF now >= journal.deadline
         THEN Enter(p, FirstRestore, "fail")
         ELSE Enter(p, FirstProbe, "complete")
    /\ UNCHANGED <<files, service, requests, clock>>

\* A failed probe: the replay re-raises, the completion rolls back.
ProbeFailed(p) ==
    IF goal[p] = "replay" THEN Exit(p) ELSE GotoFor(p, FirstRestore, "fail")

\* openbao_validation_cycle starts the service that must be inactive.
CompleteStart(p) ==
    /\ pc[p] = "complete-start"
    /\ \/ /\ svc = "inactive"
          /\ \E o \in Systemctl("start") :
                /\ Unit(o)
                /\ IF o.ok THEN Goto(p, "complete-validate") ELSE ProbeFailed(p)
       \/ svc # "inactive" /\ UNCHANGED service /\ ProbeFailed(p)
    /\ UNCHANGED <<files, requests, clock>>

\* strict_local_validation of the service, then the stop of OpenBao.
CompleteValidate(p) ==
    /\ pc[p] = "complete-validate"
    /\ \E o \in IF Adapter = "openbao" THEN Systemctl("stop")
               ELSE {[svc |-> svc, loaded |-> loaded, masked |-> masked, ok |-> TRUE]} :
          /\ Unit(o)
          /\ \/ /\ o.ok /\ ServesCandidate
                /\ IF goal[p] = "replay" THEN Exit(p)
                   ELSE /\ proof' = [proof EXCEPT ![p] = now]
                        /\ pc' = [pc EXCEPT ![p] = "complete-deadline"]
                        /\ UNCHANGED <<lock, rid, goal>>
             \/ ProbeFailed(p)
    /\ UNCHANGED <<files, requests, clock>>

\* The deadline is read again after the validation.
CompleteDeadline(p) ==
    /\ pc[p] = "complete-deadline"
    /\ IF now >= journal.deadline
         THEN /\ pc' = [pc EXCEPT ![p] = FirstRestore]
              /\ goal' = [goal EXCEPT ![p] = "fail"]
              /\ proof' = [proof EXCEPT ![p] = 0]
              /\ UNCHANGED <<lock, rid>>
         ELSE Goto(p, "publish-terminal")
    /\ UNCHANGED <<files, service, requests, clock>>

-----------------------------------------------------------------------------
(***************************************************************************)
(* target-recover                                                          *)
(***************************************************************************)
Recover(p) ==
    /\ pc[p] = "idle" /\ lock = None
    /\ Enter(p, IF Adapter = "openbao" THEN "recover-stop" ELSE "recover", "fail")
    /\ UNCHANGED <<files, service, requests, clock>>

RecoverStop(p) == ServiceStep(p, "recover-stop", "stop", "recover")

\* What target_recover goes on to do from the files it finds.
RecoverStep ==
    IF ~EntriesAllowed \/ terminal.state = "torn" THEN "idle"
    ELSE IF terminal.state \in Outcomes THEN
           IF Candidate(terminal.rid) /\ TerminalMatchesActive
             THEN "publish-archive" ELSE "idle"
    ELSE IF ~JournalValid \/ ~Candidate(journal.rid) THEN "idle"
    ELSE IF journal.cp \in Restored THEN "publish-terminal"
    ELSE FirstRestore

RecoverDecide(p) ==
    /\ pc[p] = "recover"
    /\ IF RecoverStep = "idle" THEN Exit(p) ELSE Goto(p, RecoverStep)
    /\ UNCHANGED <<files, service, requests, clock>>

-----------------------------------------------------------------------------
(***************************************************************************)
(* target-status and the activation route (tasks/response_activate.yml),   *)
(* which runs the command that the status requires.                        *)
(***************************************************************************)
StatusRefused ==
    \/ ~EntriesAllowed \/ terminal.state = "torn" \/ ~HistoryParses
    \/ /\ terminal.state \in Outcomes
       /\ ~(Candidate(terminal.rid) /\ TerminalMatchesActive)
    \/ journal.cp = "torn"

RequiredAction ==
    IF StatusRefused THEN "refused"
    ELSE IF journal.cp = "local-validated" THEN "complete-local-validation"
    ELSE IF JournalValid THEN "recover"
    ELSE IF Nonterminal # {} THEN
           IF Nonterminal \cap versions = {} THEN "await-response"
           ELSE IF Nonterminal \subseteq fresh THEN "activate-response"
           ELSE "refused"
    ELSE IF terminal.state \in Outcomes THEN "none"
    ELSE "create-request"

\* tasks/trust.yml runs first.  It validates the installed trust with
\* `install --check', which refuses a state root that holds a journal or a
\* temporary file (validate_final_state of the trust helper).
TrustAccepted == journal.cp = "absent" /\ EntriesAllowed

RouteRecover(p) == TrustAccepted /\ RequiredAction = "recover" /\ Recover(p)

\* The completion follows target-activate-start in the same run of the route.
RouteComplete(p) == /\ RequiredAction = "complete-local-validation"
                    /\ Complete(p) \/ CompleteCleanup(p)

-----------------------------------------------------------------------------
(***************************************************************************)
(* Kills, reboots, time, and the operations that feed the lifecycle.       *)
(***************************************************************************)

\* SIGKILL, or an exception nothing catches: the kernel drops the flock.
Crash(p) ==
    /\ crashes < MaxCrashes /\ crashes' = crashes + 1
    /\ pc[p] # "idle"
    /\ Exit(p)
    /\ UNCHANGED <<files, service, requests, now>>

\* A kill inside write_new_at leaves a short file under its final name ...
CrashCreating(p) ==
    /\ TornWrites /\ crashes < MaxCrashes /\ crashes' = crashes + 1
    /\ \/ /\ pc[p] = "begin" /\ lock = None /\ Activatable(rid[p])
          /\ journal' = TornJournal
          /\ UNCHANGED <<terminal, history>>
       \/ /\ pc[p] = "publish-terminal" /\ terminal.state = "absent"
          /\ terminal' = TornTerminal
          /\ UNCHANGED <<journal, history>>
       \/ /\ pc[p] \in {"publish-archive", "retire-archive"}
          /\ history[terminal.rid] = "absent"
          /\ history' = [history EXCEPT ![terminal.rid] = "torn"]
          /\ UNCHANGED <<journal, terminal>>
    /\ Exit(p)
    /\ UNCHANGED <<active, rollback, config, debris, service, requests, now>>

\* ... and one inside atomic_replace_at leaves its temporary file.
CrashReplacing(p) ==
    /\ TornWrites /\ crashes < MaxCrashes /\ crashes' = crashes + 1
    /\ pc[p] \in {"write-active", "write-rollback", "cp-records", "cp-config",
                  "cp-restarted", "cp-validated", "restore-cp"}
                 \cup (IF journal.priorActive = None THEN {}
                       ELSE {"restore-active", "restore-rollback"})
    /\ debris' = TRUE
    /\ Exit(p)
    /\ UNCHANGED <<active, rollback, config, journal, terminal, history,
                   service, requests, now>>

\* A reboot kills every process and starts an unmasked Zot at will; OpenBao
\* has no persistent enablement.
Reboot ==
    /\ crashes < MaxCrashes /\ crashes' = crashes + 1
    /\ lock' = None
    /\ pc' = [p \in Procs |-> "idle"]
    /\ rid' = [p \in Procs |-> None]
    /\ goal' = [p \in Procs |-> "none"]
    /\ proof' = [p \in Procs |-> 0]
    /\ \/ svc' = "inactive" /\ loaded' = None
       \/ /\ Adapter = "zot" /\ ~masked
          /\ svc' = "active" /\ loaded' = config
    /\ UNCHANGED <<files, masked, requests, now>>

Tick ==
    /\ now < MaxTime
    /\ now' = now + 1
    /\ UNCHANGED <<files, service, requests, crashes, procs>>

\* validate_response_files: not_after - current < minimum remaining lifetime.
Age(r) ==
    /\ Aging /\ r \in versions \cap fresh
    /\ fresh' = fresh \ {r}
    /\ UNCHANGED <<files, service, requested, pred, versions, clock, procs>>

\* The request helper publishes a request that binds the active version.
PublishRequest(r) ==
    /\ lock = None /\ EntriesAllowed
    /\ journal.cp = "absent" /\ terminal.state # "torn" /\ HistoryParses
    /\ r \notin requested /\ Nonterminal = {}
    /\ Adapter = "openbao" => active = None
    /\ requested' = requested \cup {r}
    /\ pred' = [pred EXCEPT ![r] = active]
    /\ fresh' = fresh \cup {r}
    /\ UNCHANGED <<files, service, versions, clock, procs>>

\* target-response-install publishes the immutable version.
InstallResponse(r) ==
    /\ lock = None /\ EntriesAllowed
    /\ journal.cp = "absent" /\ terminal.state # "torn" /\ HistoryParses
    /\ Nonterminal = {r} /\ r \in fresh \ versions
    /\ versions' = versions \cup {r}
    /\ UNCHANGED <<files, service, requested, pred, fresh, clock, procs>>

-----------------------------------------------------------------------------
Init ==
    /\ active = None /\ rollback = NoRollback /\ config = None
    /\ journal = NoJournal /\ terminal = NoTerminal
    /\ history = [r \in Requests |-> "absent"] /\ debris = FALSE
    /\ svc = "inactive" /\ loaded = None /\ masked = (Adapter = "zot")
    /\ requested = {} /\ pred = [r \in Requests |-> None]
    /\ versions = {} /\ fresh = {}
    /\ now = 0 /\ crashes = 0
    /\ lock = None /\ pc = [p \in Procs |-> "idle"]
    /\ rid = [p \in Procs |-> None] /\ goal = [p \in Procs |-> "none"]
    /\ proof = [p \in Procs |-> 0]

Activation(p) ==
    \/ TargetActivateStart(p) \/ Refuse(p) \/ ReplayActivation(p)
    \/ RetireCurrentTerminal(p) \/ RetireUnlink(p)
    \/ ArchiveTerminal(p, "retire-archive", "retire-unlink")
    \/ ActivateStart(p) \/ WriteActive(p) \/ WriteRollback(p)
    \/ SetCheckpoint(p, "cp-records", "records-written", "write-config")
    \/ WriteConfig(p)
    \/ SetCheckpoint(p, "cp-config", "config-written", "service")
    \/ ServiceStart(p)
    \/ SetCheckpoint(p, "cp-restarted", "restarted", "validate")
    \/ Validate(p) \/ LocalValidated(p) \/ Fault(p)

Restoration(p) ==
    \/ RestoreStop(p) \/ RestoreConfig(p) \/ RestoreActive(p)
    \/ RestoreRollback(p) \/ RestoreService(p) \/ RestoreCheckpoint(p)

Publication(p) ==
    \/ PublishTerminal(p)
    \/ ArchiveTerminal(p, "publish-archive", "publish-unlink")
    \/ UnlinkJournal(p)

Completion(p) ==
    \/ CompleteCleanup(p) \/ Complete(p) \/ CompleteStart(p)
    \/ CompleteValidate(p) \/ CompleteDeadline(p)

Recovery(p) == Recover(p) \/ RecoverStop(p) \/ RecoverDecide(p)

Killed(p) == Crash(p) \/ CrashCreating(p) \/ CrashReplacing(p)

Environment ==
    \/ Reboot \/ Tick
    \/ \E r \in Requests : Age(r) \/ PublishRequest(r) \/ InstallResponse(r)

Next ==
    \/ \E p \in Procs : \/ Activation(p) \/ Restoration(p) \/ Publication(p)
                        \/ Completion(p) \/ Recovery(p) \/ Killed(p)
    \/ Environment

Spec == Init /\ [][Next]_vars

Running(p) ==
    /\ pc[p] # "idle"
    /\ \/ Activation(p) \/ Restoration(p) \/ Publication(p)
       \/ Completion(p) \/ Recovery(p)

\* A started command runs on, and systemctl does not fail for ever.
CommandFairness(p) ==
    /\ WF_vars(Running(p))
    /\ SF_vars(RestoreService(p) /\ pc'[p] = "restore-cp")
    /\ SF_vars(RestoreStop(p) /\ pc'[p] = "restore-config")
    /\ SF_vars(RecoverStop(p) /\ pc'[p] = "recover")

\* An operator runs target-recover while a journal is unresolved ...
FairSpec ==
    /\ Spec
    /\ \A p \in Procs : /\ CommandFairness(p)
                        /\ SF_vars(journal.cp # "absent" /\ Recover(p))

\* ... or runs the activation route again and again.
RouteSpec ==
    /\ Spec
    /\ \A p \in Procs : /\ CommandFairness(p)
                        /\ SF_vars(RouteRecover(p))
                        /\ SF_vars(RouteComplete(p))

-----------------------------------------------------------------------------
(***************************************************************************)
(* Properties.                                                             *)
(***************************************************************************)

\* Every variable has its type, and a process holds the flock exactly while
\* it is at a step the helper takes under it.
TypeOK ==
    /\ active \in Sel /\ config \in Sel /\ loaded \in Sel
    /\ rollback \in [for : Sel, pred : Sel]
    /\ journal \in [cp : Checkpoints \cup {"absent", "torn"}, rid : Sel,
                    priorActive : Sel, priorRollback : [for : Sel, pred : Sel],
                    priorConfig : Sel, priorSvc : {"active", "inactive"},
                    created : Nat, deadline : Nat]
    /\ terminal \in [state : Outcomes \cup {"absent", "torn"}, rid : Sel, epoch : Nat]
    /\ history \in [Requests -> Outcomes \cup {"absent", "torn"}]
    /\ debris \in BOOLEAN /\ masked \in BOOLEAN
    /\ svc \in {"active", "inactive"}
    /\ requested \subseteq Requests /\ versions \subseteq requested
    /\ fresh \subseteq requested
    /\ pred \in [Requests -> Sel]
    /\ now \in Nat /\ crashes \in Nat
    /\ lock \in Procs \cup {None}
    /\ pc \in [Procs -> LockedSteps \cup {"idle", "start", "begin"}]
    /\ rid \in [Procs -> Sel]
    /\ goal \in [Procs -> Goals]
    /\ proof \in [Procs -> Nat]
    /\ \A p \in Procs : pc[p] \in LockedSteps <=> lock = p

\* Whatever was interrupted, restore_from_journal never finds an active
\* record, a rollback record or a service configuration that is neither the
\* prior nor the new one (its three "identity no longer matches" refusals).
JournalRestorable == JournalValid => Restorable

\* The journal is settled: absent, torn before the first effect, or restored.
Settled == journal.cp \in {"absent", "torn"} \cup Restored

\* Outside a transaction the active record, the rollback record and the
\* service configuration name the same version, and the rollback record
\* binds the predecessor the request was signed for.
SelectionConsistent ==
    Settled => /\ config = active
               /\ rollback.for = active
               /\ active # None => rollback.pred = pred[active]

\* A terminal record tells the truth about the selection
\* (validate_terminal_activation): complete exactly if its request is active.
TerminalTruthful ==
    terminal.state \in Outcomes =>
        (terminal.state = "complete" <=> active = terminal.rid)

\* The retained history never contradicts the current terminal record.
OneOutcome ==
    terminal.state \in Outcomes =>
        history[terminal.rid] \in {"absent", "torn", terminal.state}

\* The records at rest tell one story: the selection, the outcome on record and
\* the retained outcomes agree, whatever restore was interrupted or repeated.
RecordsAgree == SelectionConsistent /\ TerminalTruthful /\ OneOutcome

\* A running service has loaded the version that is selected, unless an
\* activation or its restore is in progress or was interrupted.
ServedIsSelected == Settled /\ svc = "active" => loaded = config

\* A failed first issue leaves Zot as it was found: stopped and masked.
DormantUntilIssued ==
    Adapter = "zot" /\ Settled /\ active = None => svc = "inactive" /\ masked

\* The service does what the records say: it serves the selected version, and
\* stays masked until there is one, although service_action may fail half way.
ServiceFollows == ServedIsSelected /\ DormantUntilIssued

\* OpenBao runs only while a command that validates it holds the lock or an
\* interrupted activation awaits recovery.
OpenBaoStopped ==
    Adapter = "openbao" /\ Settled /\ lock = None => svc = "inactive"

\* A complete record proves a validation made before the rollback deadline,
\* even if the clock passes the deadline between validation and publication.
CompleteBeforeDeadline ==
    terminal.state = "complete" /\ JournalValid => terminal.epoch < journal.deadline

\* A decided request keeps its outcome for ever: archiving, retiring and
\* recovering never change or lose it.
Outcome(r) ==
    IF history[r] \in Outcomes THEN history[r]
    ELSE IF terminal.rid = r THEN terminal.state ELSE "open"

OutcomeKept ==
    [][\A r \in Requests : Outcome(r) \in Outcomes => Outcome(r)' = Outcome(r)]_vars

\* The recovery route accepts every journal an interruption leaves: at rest,
\* an unresolved journal never meets a refusal of target-recover.
RecoveryAccepted ==
    lock = None /\ journal.cp # "absent" => RecoverStep # "idle"

\* An interrupted or undecided activation is always decided in the end.
JournalResolved == journal.cp # "absent" ~> journal.cp = "absent"

\* No record left at rest contradicts the selection (the refusal "failed
\* target terminal record still selects the target candidate").
TerminalTruthfulAtRest == lock = None => TerminalTruthful

\* The committed selection: while an activation is undecided it is the one
\* the journal can restore.
Committed ==
    IF JournalValid /\ ~(terminal.state = "complete" /\ terminal.rid = journal.rid)
      THEN journal.priorActive ELSE active

Switching == INSTANCE CertSwitch
    WITH selected <- Committed,
         bound <- [r \in Requests |->
                     IF r \in requested THEN pred[r] ELSE "unrequested"],
         outcome <- [r \in Requests |->
                       IF Outcome(r) = "complete" THEN "complete"
                       ELSE IF Outcome(r) \in Restored THEN "failed" ELSE "open"]

\* The whole transaction, its interruptions and recoveries included,
\* implements an atomic switch of the committed certificate.
AtomicSwitch == Switching!Spec
=============================================================================
