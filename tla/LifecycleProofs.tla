-------------------------- MODULE LifecycleProofs --------------------------
(* Proofs about Lifecycle, for every value of its constants. *)
EXTENDS Lifecycle, TLAPS

(***************************************************************************)
(* What holds however many operators run the helper at the same time: the  *)
(* types, and at each step under the lock the files that step relies on.   *)
(***************************************************************************)
JournalSteps == ActivationSteps \cup RestoreSteps \cup CompleteSteps

LockedFacts ==
    \A p \in Procs :
        /\ pc[p] \in JournalSteps => journal.cp \in Checkpoints \ Restored
        /\ pc[p] \in CompleteSteps => goal[p] \in {"complete", "replay"}
        /\ pc[p] \in {"complete-deadline"} => goal[p] = "complete"
        /\ pc[p] \in RestoreSteps => goal[p] \in {"abandon", "fail"}
        /\ pc[p] \in RecoverSteps => goal[p] = "fail"
        /\ pc[p] = "publish-terminal" =>
              /\ goal[p] \in {"complete", "fail"}
              /\ JournalValid
              /\ goal[p] = "fail" => journal.cp \in Restored
        /\ pc[p] \in {"retire-archive", "retire-unlink"} =>
              terminal.state \in Outcomes
        /\ pc[p] = "retire-unlink" /\ terminal.rid \in Requests =>
              history[terminal.rid] = terminal.state

IInv == TypeOK /\ LockedFacts /\ JournalRestorable
(***************************************************************************)
(* What holds when operators take turns (at most one process): the records *)
(* agree with each other.  Two operators that overlap can break it, see    *)
(* the run overlapping_operators_terminal.                                 *)
(***************************************************************************)
Serial == \A p, q \in Procs : p = q

\* The files of an activation that is fully written, and fully restored.
AllNew   == active = journal.rid /\ config = journal.rid /\ rollback = NewRollback
AllPrior == /\ active = journal.priorActive
            /\ config = journal.priorConfig
            /\ rollback = journal.priorRollback

\* Requests bind an earlier request or none.
PredecessorFacts ==
    /\ active \in requested \cup {None}
    /\ \A r \in requested : pred[r] # r /\ pred[r] \in requested \cup {None}

\* What the journal saves is a consistent selection, and the one its request
\* was signed for.
JournalFacts ==
    /\ JournalValid =>
         /\ journal.rid \in requested
         /\ pred[journal.rid] = journal.priorActive
         /\ journal.priorConfig = journal.priorActive
         /\ journal.priorRollback.for = journal.priorActive
         /\ journal.priorActive # None =>
              journal.priorRollback.pred = pred[journal.priorActive]
    /\ journal.cp \in Restored => AllPrior
    /\ journal.cp = "local-validated" /\ config = journal.rid => AllNew

\* How far each step has come.
ProgressFacts ==
    \A p \in Procs :
        /\ pc[p] = "write-rollback" => active = journal.rid
        /\ pc[p] \in {"cp-records", "write-config"} =>
             active = journal.rid /\ rollback = NewRollback
        /\ pc[p] \in {"cp-config", "service", "cp-restarted", "validate",
                      "cp-validated"} => AllNew
        /\ pc[p] \in CompleteSteps \/ (pc[p] = "publish-terminal" /\ goal[p] = "complete") =>
             AllNew /\ journal.cp = "local-validated"
        /\ pc[p] = "restore-active" => config = journal.priorConfig
        /\ pc[p] = "restore-rollback" =>
             config = journal.priorConfig /\ active = journal.priorActive
        /\ pc[p] \in {"restore-service", "restore-cp"} => AllPrior

\* A request is activated only while it is undecided, and a terminal record
\* is the last word on the journal it ends.
DecisionFacts ==
    /\ terminal.state \notin Outcomes => terminal.rid = None
    /\ terminal.state \in Outcomes => terminal.rid \in requested
    /\ JournalValid /\ terminal.state \notin Outcomes =>
         history[journal.rid] = "absent"
    /\ JournalValid /\ terminal.state \in Outcomes =>
         /\ terminal.rid = journal.rid
         /\ terminal.state = "complete" => AllNew /\ journal.cp = "local-validated"
         /\ terminal.state # "complete" => journal.cp \in Restored
    /\ \A p \in Procs :
        /\ pc[p] \in {"start", "begin"} \cup RetireSteps =>
             /\ rid[p] \in requested
             /\ terminal.rid # rid[p]
             /\ history[rid[p]] = "absent"
        /\ pc[p] = "start" => terminal.state # "torn"
        /\ pc[p] \in RetireSteps => journal.cp = "absent"
        /\ pc[p] \in {"begin", "publish-terminal"} \cup JournalSteps =>
             terminal.state = "absent"
        /\ pc[p] \in {"publish-archive", "publish-unlink"} =>
             terminal.state \in Outcomes

SInv ==
    /\ PredecessorFacts /\ JournalFacts /\ ProgressFacts /\ DecisionFacts
    /\ SelectionConsistent /\ TerminalTruthful /\ OneOutcome

(***************************************************************************)
(* What the service does, when a completion was proved and which versions  *)
(* the records name, when operators take turns.                            *)
(***************************************************************************)

\* A selected version is served as it is, and the base configuration is not:
\* the service is stopped, and masked.
ServiceMatches ==
    /\ svc = "active" => loaded = config
    /\ active = None => svc = "inactive" /\ masked

\* The deadline has passed the second reading: what remains is the record.
Completing(p) == pc[p] = "publish-terminal" /\ goal[p] = "complete"

\* Zot: the journal saves whether a version was served, so a restore ends with
\* the service the restored records ask for, and a completion with the one
\* that was validated.
ZotFacts ==
    Adapter = "zot" =>
        /\ JournalValid => (journal.priorSvc = "active" <=> journal.priorActive # None)
        /\ Settled => ServiceMatches
        /\ JournalValid /\ terminal.state = "complete" => ServiceMatches
        /\ \A p \in Procs :
              pc[p] \in {"restore-cp", "complete-deadline"} \/ Completing(p) =>
                  ServiceMatches

\* OpenBao: every restore and every completion goes through a stop.
OpenBaoFacts ==
    Adapter = "openbao" =>
        /\ Settled => svc = "inactive"
        /\ JournalValid /\ terminal.state = "complete" => svc = "inactive"
        /\ \A p \in Procs :
              pc[p] \in {"restore-cp", "complete-deadline"} \/ Completing(p) =>
                  svc = "inactive"

\* The validation epoch is read before the clock is compared with the
\* deadline, and the record carries that epoch.
DeadlineFacts ==
    /\ CompleteBeforeDeadline
    /\ \A p \in Procs :
         /\ pc[p] = "complete-deadline" => proof[p] <= now
         /\ Completing(p) => proof[p] < journal.deadline

\* Journals and terminal records name installed versions.
VersionFacts ==
    /\ JournalValid => journal.rid \in versions
    /\ terminal.state \in Outcomes => terminal.rid \in versions

VInv == ZotFacts /\ OpenBaoFacts /\ DeadlineFacts /\ VersionFacts

\* Without kills in the middle of a write and without aging certificates no
\* record is damaged and no certificate is refused.
Undamaged ==
    /\ ~debris /\ journal.cp # "torn" /\ terminal.state # "torn"
    /\ requested \subseteq fresh

-----------------------------------------------------------------------------
USE LifecycleAssumption
USE DEF files, service, requests, clock, procs, vars,
        Sel, Restored, Outcomes, Checkpoints, NoRollback, NoTerminal, NoJournal,
        TornJournal, TornTerminal, ActivationSteps, RestoreSteps, PublishSteps,
        RetireSteps, CompleteSteps, RecoverSteps, LockedSteps, Goals,
        JournalSteps, FirstRestore, FirstProbe

Actions == {"restart", "start", "stop", "enable-start", "disable-stop"}
UnitStates == [svc : {"active", "inactive"}, loaded : Sel, masked : BOOLEAN,
               ok : BOOLEAN]

\* Whatever a systemctl action does, it leaves a unit state.
LEMMA SystemctlType ==
    ASSUME TypeOK, NEW a \in Actions
    PROVE  Systemctl(a) \subseteq UnitStates
<1> USE DEF TypeOK, Systemctl, UnitStates
<1>1. CASE a = "restart"
    BY <1>1
<1>2. CASE a = "start"
    BY <1>2
<1>3. CASE a = "stop"
    BY <1>3
<1>4. CASE a = "enable-start"
    BY <1>4
<1>5. CASE a = "disable-stop"
    BY <1>5
<1> QED
    BY <1>1, <1>2, <1>3, <1>4, <1>5 DEF Actions

-----------------------------------------------------------------------------
(***************************************************************************)
(* The inductive invariant of any number of operators, one lemma per group *)
(* of actions of Next.                                                     *)
(***************************************************************************)
\* target-activate-start: IInv is preserved.
LEMMA IInvActivation ==
    ASSUME IInv, NEW p \in Procs, Activation(p)
    PROVE  IInv'
<1> USE DEF IInv, TypeOK, LockedFacts, JournalRestorable, JournalValid,
            Restorable, NewRollback
<1>1. CASE TargetActivateStart(p)
    BY <1>1 DEF TargetActivateStart
<1>2. CASE Refuse(p)
    BY <1>2 DEF Refuse, Exit
<1>3. CASE ReplayActivation(p)
    BY <1>3 DEF ReplayActivation, Enter, ActiveAuthentic
<1>4. CASE RetireCurrentTerminal(p)
    BY <1>4 DEF RetireCurrentTerminal, Goto, Enter
<1>5. CASE RetireUnlink(p)
    BY <1>5 DEF RetireUnlink
<1>6. CASE ArchiveTerminal(p, "retire-archive", "retire-unlink")
    BY <1>6 DEF ArchiveTerminal, Goto, Exit
<1>7. CASE ActivateStart(p)
    BY <1>7 DEF ActivateStart, Enter
<1>8. CASE WriteActive(p)
    BY <1>8 DEF WriteActive, Goto
<1>9. CASE WriteRollback(p)
    BY <1>9 DEF WriteRollback, Goto
<1>10. CASE SetCheckpoint(p, "cp-records", "records-written", "write-config")
    BY <1>10 DEF SetCheckpoint, Goto
<1>11. CASE WriteConfig(p)
    BY <1>11 DEF WriteConfig, Goto
<1>12. CASE SetCheckpoint(p, "cp-config", "config-written", "service")
    BY <1>12 DEF SetCheckpoint, Goto
<1>13. CASE ServiceStart(p)
    <2> DEFINE a == IF Adapter = "openbao" THEN "start"
                    ELSE IF journal.priorActive = None THEN "enable-start"
                    ELSE "restart"
    <2>1. PICK o \in Systemctl(a) :
             /\ Unit(o)
             /\ IF o.ok THEN Goto(p, "cp-restarted")
                        ELSE GotoFor(p, FirstRestore, "abandon")
        BY <1>13 DEF ServiceStart
    <2>2. o \in UnitStates
        BY SystemctlType DEF Actions
    <2> QED
        BY <1>13, <2>1, <2>2 DEF ServiceStart, Unit, UnitStates, Goto, GotoFor
<1>14. CASE SetCheckpoint(p, "cp-restarted", "restarted", "validate")
    BY <1>14 DEF SetCheckpoint, Goto
<1>15. CASE Validate(p)
    BY <1>15 DEF Validate, Goto
<1>16. CASE LocalValidated(p)
    BY <1>16 DEF LocalValidated, Exit
<1>17. CASE Fault(p)
    BY <1>17 DEF Fault, GotoFor
<1> QED
    BY <1>1, <1>2, <1>3, <1>4, <1>5, <1>6, <1>7, <1>8, <1>9, <1>10, <1>11,
        <1>12, <1>13, <1>14, <1>15, <1>16, <1>17 DEF Activation

\* restore_from_journal: IInv is preserved.
LEMMA IInvRestoration ==
    ASSUME IInv, NEW p \in Procs, Restoration(p)
    PROVE  IInv'
<1> USE DEF IInv, TypeOK, LockedFacts, JournalRestorable, JournalValid,
            Restorable, NewRollback
<1>1. CASE RestoreStop(p)
    <2>1. PICK o \in Systemctl("stop") :
             Unit(o) /\ IF o.ok THEN Goto(p, "restore-config") ELSE Exit(p)
        BY <1>1 DEF RestoreStop, ServiceStep
    <2>2. o \in UnitStates
        BY SystemctlType DEF Actions
    <2> QED
        BY <1>1, <2>1, <2>2 DEF RestoreStop, ServiceStep, Unit, UnitStates, Goto, Exit
<1>2. CASE RestoreConfig(p)
    BY <1>2 DEF RestoreConfig, Goto, Exit
<1>3. CASE RestoreActive(p)
    BY <1>3 DEF RestoreActive, Goto
<1>4. CASE RestoreRollback(p)
    BY <1>4 DEF RestoreRollback, Goto
<1>5. CASE RestoreService(p)
    <2>1. ASSUME NEW a \in Actions,
                 ServiceStep(p, "restore-service", a, "restore-cp")
          PROVE  IInv'
        <3>1. PICK o \in Systemctl(a) :
                 Unit(o) /\ IF o.ok THEN Goto(p, "restore-cp") ELSE Exit(p)
            BY <2>1 DEF ServiceStep
        <3>2. o \in UnitStates
            BY SystemctlType
        <3> QED
            BY <2>1, <3>1, <3>2 DEF ServiceStep, Unit, UnitStates, Goto, Exit
    <2>2. CASE /\ pc[p] = "restore-service"
               /\ IF svc = "inactive" THEN Goto(p, "restore-cp") ELSE Exit(p)
               /\ UNCHANGED <<files, service, requests, clock>>
        BY <2>2 DEF Goto, Exit
    <2> QED
        BY <1>5, <2>1, <2>2 DEF RestoreService, RestoreAction, Actions
<1>6. CASE RestoreCheckpoint(p)
    BY <1>6 DEF RestoreCheckpoint, RestoredCheckpoint, Exit, Goto
<1> QED
    BY <1>1, <1>2, <1>3, <1>4, <1>5, <1>6 DEF Restoration

\* The publication of a terminal record: IInv is preserved.
LEMMA IInvPublication ==
    ASSUME IInv, NEW p \in Procs, Publication(p)
    PROVE  IInv'
<1> USE DEF IInv, TypeOK, LockedFacts, JournalRestorable, JournalValid,
            Restorable, NewRollback
<1>1. CASE PublishTerminal(p)
    BY <1>1 DEF PublishTerminal, TerminalRecord, Goto, Exit
<1>2. CASE ArchiveTerminal(p, "publish-archive", "publish-unlink")
    BY <1>2 DEF ArchiveTerminal, Goto, Exit
<1>3. CASE UnlinkJournal(p)
    BY <1>3 DEF UnlinkJournal, Exit
<1> QED
    BY <1>1, <1>2, <1>3 DEF Publication

\* target-activate-complete: IInv is preserved.
LEMMA IInvCompletion ==
    ASSUME IInv, NEW p \in Procs, Completion(p)
    PROVE  IInv'
<1> USE DEF IInv, TypeOK, LockedFacts, JournalRestorable, JournalValid,
            Restorable, NewRollback
<1>1. CASE CompleteCleanup(p)
    BY <1>1 DEF CompleteCleanup
<1>2. CASE Complete(p)
    BY <1>2 DEF Complete, Enter
<1>3. CASE CompleteStart(p)
    <2>1. CASE UNCHANGED service
        BY <1>3, <2>1 DEF CompleteStart, Goto, GotoFor, Exit, ProbeFailed
    <2>2. ASSUME NEW o \in Systemctl("start"), Unit(o),
                 IF o.ok THEN Goto(p, "complete-validate") ELSE ProbeFailed(p)
          PROVE  IInv'
        <3>1. o \in UnitStates
            BY SystemctlType DEF Actions
        <3> QED
            BY <1>3, <2>2, <3>1 DEF CompleteStart, Unit, UnitStates, Goto,
                GotoFor, Exit, ProbeFailed
    <2> QED
        BY <1>3, <2>1, <2>2 DEF CompleteStart
<1>4. CASE CompleteValidate(p)
    <2>1. svc' \in {"active", "inactive"} /\ loaded' \in Sel /\ masked' \in BOOLEAN
        <3>1. CASE Adapter = "openbao"
            <4>1. PICK o \in Systemctl("stop") : Unit(o)
                BY <1>4, <3>1 DEF CompleteValidate
            <4> QED
                BY <4>1, SystemctlType DEF Actions, Unit, UnitStates
        <3>2. CASE Adapter # "openbao"
            BY <1>4, <3>2 DEF CompleteValidate, Unit
        <3> QED
            BY <3>1, <3>2
    <2> QED
        BY <1>4, <2>1 DEF CompleteValidate, Goto, GotoFor, Exit, ProbeFailed
<1>5. CASE CompleteDeadline(p)
    BY <1>5 DEF CompleteDeadline, Goto
<1> QED
    BY <1>1, <1>2, <1>3, <1>4, <1>5 DEF Completion

\* target-recover: IInv is preserved.
LEMMA IInvRecovery ==
    ASSUME IInv, NEW p \in Procs, Recovery(p)
    PROVE  IInv'
<1> USE DEF IInv, TypeOK, LockedFacts, JournalRestorable, JournalValid,
            Restorable, NewRollback
<1>1. CASE Recover(p)
    BY <1>1 DEF Recover, Enter
<1>2. CASE RecoverStop(p)
    <2>1. PICK o \in Systemctl("stop") :
             Unit(o) /\ IF o.ok THEN Goto(p, "recover") ELSE Exit(p)
        BY <1>2 DEF RecoverStop, ServiceStep
    <2>2. o \in UnitStates
        BY SystemctlType DEF Actions
    <2> QED
        BY <1>2, <2>1, <2>2 DEF RecoverStop, ServiceStep, Unit, UnitStates, Goto, Exit
<1>3. CASE RecoverDecide(p)
    BY <1>3 DEF RecoverDecide, RecoverStep, Exit, Goto
<1> QED
    BY <1>1, <1>2, <1>3 DEF Recovery

\* Kills: IInv is preserved.
LEMMA IInvKilled ==
    ASSUME IInv, NEW p \in Procs, Killed(p)
    PROVE  IInv'
<1> USE DEF IInv, TypeOK, LockedFacts, JournalRestorable, JournalValid,
            Restorable, NewRollback
<1>1. CASE Crash(p)
    BY <1>1 DEF Crash, Exit
<1>2. CASE CrashCreating(p)
    BY <1>2 DEF CrashCreating, Exit
<1>3. CASE CrashReplacing(p)
    BY <1>3 DEF CrashReplacing, Exit
<1> QED
    BY <1>1, <1>2, <1>3 DEF Killed

\* Reboots, time and the other helpers: IInv is preserved.
LEMMA IInvEnvironment ==
    ASSUME IInv, Environment
    PROVE  IInv'
<1> USE DEF IInv, TypeOK, LockedFacts, JournalRestorable, JournalValid,
            Restorable, NewRollback
<1>1. CASE Reboot
    BY <1>1 DEF Reboot
<1>2. CASE Tick
    BY <1>2 DEF Tick
<1>3. ASSUME NEW r \in Requests, Age(r) PROVE IInv'
    BY <1>3 DEF Age
<1>4. ASSUME NEW r \in Requests, PublishRequest(r) PROVE IInv'
    BY <1>4 DEF PublishRequest
<1>5. ASSUME NEW r \in Requests, InstallResponse(r) PROVE IInv'
    BY <1>5 DEF InstallResponse
<1> QED
    BY <1>1, <1>2, <1>3, <1>4, <1>5 DEF Environment


\* The invariant of any number of operators.
LEMMA IInvHolds == Spec => []IInv
<1>1. Init => IInv
    <2> SUFFICES ASSUME Init PROVE IInv
        OBVIOUS
    <2>1. TypeOK
        BY DEF Init, TypeOK
    <2>2. LockedFacts
        BY DEF Init, LockedFacts
    <2>3. JournalRestorable
        BY DEF Init, JournalRestorable, JournalValid
    <2> QED
        BY <2>1, <2>2, <2>3 DEF IInv
<1>2. IInv /\ [Next]_vars => IInv'
    <2> SUFFICES ASSUME IInv, [Next]_vars PROVE IInv'
        OBVIOUS
    <2>1. CASE UNCHANGED vars
        BY <2>1 DEF IInv, TypeOK, LockedFacts, JournalRestorable, JournalValid,
            Restorable, NewRollback
    <2>2. CASE Next
        BY <2>2, IInvActivation, IInvRestoration, IInvPublication,
            IInvCompletion, IInvRecovery, IInvKilled, IInvEnvironment
            DEF Next
    <2> QED
        BY <2>1, <2>2
<1> QED
    BY <1>1, <1>2, PTL DEF Spec

\* However many operators run the helper, every variable keeps its type and
\* the exclusive flock is held exactly at the steps taken under it: no two
\* processes are inside activate_start, restore_from_journal, the publication
\* of a terminal record or its retirement at the same time.
THEOREM TypeCorrect == Spec => []TypeOK
BY IInvHolds, PTL DEF IInv

\* However many operators run the helper and wherever they are killed,
\* restore_from_journal finds the prior or the new bytes in each file.
THEOREM RestoreNeverRefused == Spec => []JournalRestorable
BY IInvHolds, PTL DEF IInv


KeepsOutcomes ==
    \A r \in Requests : Outcome(r) \in Outcomes => Outcome(r)' = Outcome(r)

-----------------------------------------------------------------------------
(***************************************************************************)
(* No step changes or loses a decided outcome.                             *)
(***************************************************************************)
\* target-activate-start: decided outcomes are kept.
LEMMA OutcomeActivation ==
    ASSUME IInv, NEW p \in Procs, Activation(p)
    PROVE  KeepsOutcomes
<1> USE DEF IInv, TypeOK, LockedFacts, KeepsOutcomes, Outcome
<1>1. CASE TargetActivateStart(p)
    BY <1>1 DEF TargetActivateStart
<1>2. CASE Refuse(p)
    BY <1>2 DEF Refuse, Exit
<1>3. CASE ReplayActivation(p)
    BY <1>3 DEF ReplayActivation, Enter
<1>4. CASE RetireCurrentTerminal(p)
    BY <1>4 DEF RetireCurrentTerminal, Goto, Enter
<1>5. CASE RetireUnlink(p)
    BY <1>5 DEF RetireUnlink
<1>6. CASE ArchiveTerminal(p, "retire-archive", "retire-unlink")
    BY <1>6 DEF ArchiveTerminal, Goto, Exit
<1>7. CASE ActivateStart(p)
    BY <1>7 DEF ActivateStart, Enter
<1>8. CASE WriteActive(p)
    BY <1>8 DEF WriteActive, Goto
<1>9. CASE WriteRollback(p)
    BY <1>9 DEF WriteRollback, Goto
<1>10. CASE SetCheckpoint(p, "cp-records", "records-written", "write-config")
    BY <1>10 DEF SetCheckpoint, Goto
<1>11. CASE WriteConfig(p)
    BY <1>11 DEF WriteConfig, Goto
<1>12. CASE SetCheckpoint(p, "cp-config", "config-written", "service")
    BY <1>12 DEF SetCheckpoint, Goto
<1>13. CASE ServiceStart(p)
    BY <1>13 DEF ServiceStart, Unit, Goto, GotoFor
<1>14. CASE SetCheckpoint(p, "cp-restarted", "restarted", "validate")
    BY <1>14 DEF SetCheckpoint, Goto
<1>15. CASE Validate(p)
    BY <1>15 DEF Validate, Goto
<1>16. CASE LocalValidated(p)
    BY <1>16 DEF LocalValidated, Exit
<1>17. CASE Fault(p)
    BY <1>17 DEF Fault, GotoFor
<1> QED
    BY <1>1, <1>2, <1>3, <1>4, <1>5, <1>6, <1>7, <1>8, <1>9, <1>10, <1>11,
        <1>12, <1>13, <1>14, <1>15, <1>16, <1>17 DEF Activation

\* restore_from_journal: decided outcomes are kept.
LEMMA OutcomeRestoration ==
    ASSUME IInv, NEW p \in Procs, Restoration(p)
    PROVE  KeepsOutcomes
<1> USE DEF IInv, TypeOK, LockedFacts, KeepsOutcomes, Outcome
<1>1. CASE RestoreStop(p)
    BY <1>1 DEF RestoreStop, ServiceStep, Unit, Goto, Exit
<1>2. CASE RestoreConfig(p)
    BY <1>2 DEF RestoreConfig, Goto, Exit
<1>3. CASE RestoreActive(p)
    BY <1>3 DEF RestoreActive, Goto
<1>4. CASE RestoreRollback(p)
    BY <1>4 DEF RestoreRollback, Goto
<1>5. CASE RestoreService(p)
    BY <1>5 DEF RestoreService, ServiceStep, Unit, Goto, Exit, RestoreAction
<1>6. CASE RestoreCheckpoint(p)
    BY <1>6 DEF RestoreCheckpoint, RestoredCheckpoint, Exit, Goto
<1> QED
    BY <1>1, <1>2, <1>3, <1>4, <1>5, <1>6 DEF Restoration

\* The publication of a terminal record: decided outcomes are kept.
LEMMA OutcomePublication ==
    ASSUME IInv, NEW p \in Procs, Publication(p)
    PROVE  KeepsOutcomes
<1> USE DEF IInv, TypeOK, LockedFacts, KeepsOutcomes, Outcome
<1>1. CASE PublishTerminal(p)
    BY <1>1 DEF PublishTerminal, TerminalRecord, Goto, Exit
<1>2. CASE ArchiveTerminal(p, "publish-archive", "publish-unlink")
    BY <1>2 DEF ArchiveTerminal, Goto, Exit
<1>3. CASE UnlinkJournal(p)
    BY <1>3 DEF UnlinkJournal, Exit
<1> QED
    BY <1>1, <1>2, <1>3 DEF Publication

\* target-activate-complete: decided outcomes are kept.
LEMMA OutcomeCompletion ==
    ASSUME IInv, NEW p \in Procs, Completion(p)
    PROVE  KeepsOutcomes
<1> USE DEF IInv, TypeOK, LockedFacts, KeepsOutcomes, Outcome
<1>1. CASE CompleteCleanup(p)
    BY <1>1 DEF CompleteCleanup
<1>2. CASE Complete(p)
    BY <1>2 DEF Complete, Enter
<1>3. CASE CompleteStart(p)
    BY <1>3 DEF CompleteStart, Unit, Goto, ProbeFailed, Exit, GotoFor
<1>4. CASE CompleteValidate(p)
    BY <1>4 DEF CompleteValidate, Unit, Exit, ProbeFailed, GotoFor
<1>5. CASE CompleteDeadline(p)
    BY <1>5 DEF CompleteDeadline, Goto
<1> QED
    BY <1>1, <1>2, <1>3, <1>4, <1>5 DEF Completion

\* target-recover: decided outcomes are kept.
LEMMA OutcomeRecovery ==
    ASSUME IInv, NEW p \in Procs, Recovery(p)
    PROVE  KeepsOutcomes
<1> USE DEF IInv, TypeOK, LockedFacts, KeepsOutcomes, Outcome
<1>1. CASE Recover(p)
    BY <1>1 DEF Recover, Enter
<1>2. CASE RecoverStop(p)
    BY <1>2 DEF RecoverStop, ServiceStep, Unit, Goto, Exit
<1>3. CASE RecoverDecide(p)
    BY <1>3 DEF RecoverDecide, RecoverStep, Exit, Goto
<1> QED
    BY <1>1, <1>2, <1>3 DEF Recovery

\* Kills: decided outcomes are kept.
LEMMA OutcomeKilled ==
    ASSUME IInv, NEW p \in Procs, Killed(p)
    PROVE  KeepsOutcomes
<1> USE DEF IInv, TypeOK, LockedFacts, KeepsOutcomes, Outcome
<1>1. CASE Crash(p)
    BY <1>1 DEF Crash, Exit
<1>2. CASE CrashCreating(p)
    BY <1>2 DEF CrashCreating, Exit
<1>3. CASE CrashReplacing(p)
    BY <1>3 DEF CrashReplacing, Exit
<1> QED
    BY <1>1, <1>2, <1>3 DEF Killed

\* Reboots, time and the other helpers: decided outcomes are kept.
LEMMA OutcomeEnvironment ==
    ASSUME IInv, Environment
    PROVE  KeepsOutcomes
<1> USE DEF IInv, TypeOK, LockedFacts, KeepsOutcomes, Outcome
<1>1. CASE Reboot
    BY <1>1 DEF Reboot
<1>2. CASE Tick
    BY <1>2 DEF Tick
<1>3. ASSUME NEW r \in Requests, Age(r) PROVE KeepsOutcomes
    BY <1>3 DEF Age
<1>4. ASSUME NEW r \in Requests, PublishRequest(r) PROVE KeepsOutcomes
    BY <1>4 DEF PublishRequest
<1>5. ASSUME NEW r \in Requests, InstallResponse(r) PROVE KeepsOutcomes
    BY <1>5 DEF InstallResponse
<1> QED
    BY <1>1, <1>2, <1>3, <1>4, <1>5 DEF Environment


\* However many operators run the helper and wherever they are killed, a
\* request that was decided keeps its outcome: archive_target_terminal,
\* retire_current_target_terminal and target_recover never change or lose it.
THEOREM OutcomesKept == Spec => OutcomeKept
<1>1. IInv /\ [Next]_vars => [KeepsOutcomes]_vars
    <2> SUFFICES ASSUME IInv, Next PROVE KeepsOutcomes
        OBVIOUS
    <2> QED
        BY OutcomeActivation, OutcomeRestoration, OutcomePublication,
            OutcomeCompletion, OutcomeRecovery, OutcomeKilled,
            OutcomeEnvironment DEF Next
<1> QED
    BY <1>1, IInvHolds, PTL DEF Spec, OutcomeKept, KeepsOutcomes

-----------------------------------------------------------------------------
(***************************************************************************)
(* Operators that take turns: the records agree with each other.           *)
(***************************************************************************)
\* target-activate-start: SInv is preserved.
LEMMA SInvActivation ==
    ASSUME IInv, SInv, Serial, NEW p \in Procs, Activation(p)
    PROVE  SInv'
<1> USE DEF IInv, TypeOK, LockedFacts, JournalRestorable, JournalValid,
            Restorable, NewRollback, SInv, PredecessorFacts, JournalFacts,
            ProgressFacts, DecisionFacts, SelectionConsistent,
            TerminalTruthful, OneOutcome, AllNew, AllPrior, Settled, Serial,
            Nonterminal, Candidate, Pending, Installed, ResponseValid,
            HistoryParses, ActiveAuthentic, TerminalMatchesActive,
            EntriesAllowed
<1>1. CASE TargetActivateStart(p)
    BY <1>1 DEF TargetActivateStart
<1>2. CASE Refuse(p)
    BY <1>2 DEF Refuse, Exit
<1>3. CASE ReplayActivation(p)
    BY <1>3 DEF ReplayActivation, Enter
<1>4. CASE RetireCurrentTerminal(p)
    BY <1>4 DEF RetireCurrentTerminal, Goto, Enter
<1>5. CASE RetireUnlink(p)
    BY <1>5 DEF RetireUnlink
<1>6. CASE ArchiveTerminal(p, "retire-archive", "retire-unlink")
    BY <1>6 DEF ArchiveTerminal, Goto, Exit
<1>7. CASE ActivateStart(p)
    BY <1>7 DEF ActivateStart, Activatable, Enter
<1>8. CASE WriteActive(p)
    BY <1>8 DEF WriteActive, Goto
<1>9. CASE WriteRollback(p)
    BY <1>9 DEF WriteRollback, Goto
<1>10. CASE SetCheckpoint(p, "cp-records", "records-written", "write-config")
    BY <1>10 DEF SetCheckpoint, Goto
<1>11. CASE WriteConfig(p)
    BY <1>11 DEF WriteConfig, Goto
<1>12. CASE SetCheckpoint(p, "cp-config", "config-written", "service")
    BY <1>12 DEF SetCheckpoint, Goto
<1>13. CASE ServiceStart(p)
    BY <1>13 DEF ServiceStart, Unit, Goto, GotoFor
<1>14. CASE SetCheckpoint(p, "cp-restarted", "restarted", "validate")
    BY <1>14 DEF SetCheckpoint, Goto
<1>15. CASE Validate(p)
    BY <1>15 DEF Validate, Goto
<1>16. CASE LocalValidated(p)
    BY <1>16 DEF LocalValidated, Exit
<1>17. CASE Fault(p)
    BY <1>17 DEF Fault, GotoFor
<1> QED
    BY <1>1, <1>2, <1>3, <1>4, <1>5, <1>6, <1>7, <1>8, <1>9, <1>10, <1>11,
        <1>12, <1>13, <1>14, <1>15, <1>16, <1>17 DEF Activation

\* restore_from_journal: SInv is preserved.
LEMMA SInvRestoration ==
    ASSUME IInv, SInv, Serial, NEW p \in Procs, Restoration(p)
    PROVE  SInv'
<1> USE DEF IInv, TypeOK, LockedFacts, JournalRestorable, JournalValid,
            Restorable, NewRollback, SInv, PredecessorFacts, JournalFacts,
            ProgressFacts, DecisionFacts, SelectionConsistent,
            TerminalTruthful, OneOutcome, AllNew, AllPrior, Settled, Serial,
            Nonterminal, Candidate, Pending, Installed, ResponseValid,
            HistoryParses, ActiveAuthentic, TerminalMatchesActive,
            EntriesAllowed
<1>1. CASE RestoreStop(p)
    BY <1>1 DEF RestoreStop, ServiceStep, Unit, Goto, Exit
<1>2. CASE RestoreConfig(p)
    BY <1>2 DEF RestoreConfig, Goto, Exit
<1>3. CASE RestoreActive(p)
    BY <1>3 DEF RestoreActive, Goto
<1>4. CASE RestoreRollback(p)
    BY <1>4 DEF RestoreRollback, Goto
<1>5. CASE RestoreService(p)
    BY <1>5 DEF RestoreService, ServiceStep, Unit, Goto, Exit, RestoreAction
<1>6. CASE RestoreCheckpoint(p)
    BY <1>6 DEF RestoreCheckpoint, RestoredCheckpoint, Exit, Goto
<1> QED
    BY <1>1, <1>2, <1>3, <1>4, <1>5, <1>6 DEF Restoration

\* The publication of a terminal record: SInv is preserved.
LEMMA SInvPublication ==
    ASSUME IInv, SInv, Serial, NEW p \in Procs, Publication(p)
    PROVE  SInv'
<1> USE DEF IInv, TypeOK, LockedFacts, JournalRestorable, JournalValid,
            Restorable, NewRollback, SInv, PredecessorFacts, JournalFacts,
            ProgressFacts, DecisionFacts, SelectionConsistent,
            TerminalTruthful, OneOutcome, AllNew, AllPrior, Settled, Serial,
            Nonterminal, Candidate, Pending, Installed, ResponseValid,
            HistoryParses, ActiveAuthentic, TerminalMatchesActive,
            EntriesAllowed
<1>1. CASE PublishTerminal(p)
    BY <1>1 DEF PublishTerminal, TerminalRecord, Goto, Exit
<1>2. CASE ArchiveTerminal(p, "publish-archive", "publish-unlink")
    BY <1>2 DEF ArchiveTerminal, Goto, Exit
<1>3. CASE UnlinkJournal(p)
    BY <1>3 DEF UnlinkJournal, Exit
<1> QED
    BY <1>1, <1>2, <1>3 DEF Publication

\* target-activate-complete: SInv is preserved.
LEMMA SInvCompletion ==
    ASSUME IInv, SInv, Serial, NEW p \in Procs, Completion(p)
    PROVE  SInv'
<1> USE DEF IInv, TypeOK, LockedFacts, JournalRestorable, JournalValid,
            Restorable, NewRollback, SInv, PredecessorFacts, JournalFacts,
            ProgressFacts, DecisionFacts, SelectionConsistent,
            TerminalTruthful, OneOutcome, AllNew, AllPrior, Settled, Serial,
            Nonterminal, Candidate, Pending, Installed, ResponseValid,
            HistoryParses, ActiveAuthentic, TerminalMatchesActive,
            EntriesAllowed
<1>1. CASE CompleteCleanup(p)
    BY <1>1 DEF CompleteCleanup
<1>2. CASE Complete(p)
    BY <1>2 DEF Complete, Enter
<1>3. CASE CompleteStart(p)
    BY <1>3 DEF CompleteStart, Unit, Goto, ProbeFailed, Exit, GotoFor
<1>4. CASE CompleteValidate(p)
    BY <1>4 DEF CompleteValidate, Unit, Exit, ProbeFailed, GotoFor
<1>5. CASE CompleteDeadline(p)
    BY <1>5 DEF CompleteDeadline, Goto
<1> QED
    BY <1>1, <1>2, <1>3, <1>4, <1>5 DEF Completion

\* target-recover: SInv is preserved.
LEMMA SInvRecovery ==
    ASSUME IInv, SInv, Serial, NEW p \in Procs, Recovery(p)
    PROVE  SInv'
<1> USE DEF IInv, TypeOK, LockedFacts, JournalRestorable, JournalValid,
            Restorable, NewRollback, SInv, PredecessorFacts, JournalFacts,
            ProgressFacts, DecisionFacts, SelectionConsistent,
            TerminalTruthful, OneOutcome, AllNew, AllPrior, Settled, Serial,
            Nonterminal, Candidate, Pending, Installed, ResponseValid,
            HistoryParses, ActiveAuthentic, TerminalMatchesActive,
            EntriesAllowed
<1>1. CASE Recover(p)
    BY <1>1 DEF Recover, Enter
<1>2. CASE RecoverStop(p)
    BY <1>2 DEF RecoverStop, ServiceStep, Unit, Goto, Exit
<1>3. CASE RecoverDecide(p)
    BY <1>3 DEF RecoverDecide, RecoverStep, Exit, Goto
<1> QED
    BY <1>1, <1>2, <1>3 DEF Recovery

\* Kills: SInv is preserved.
LEMMA SInvKilled ==
    ASSUME IInv, SInv, Serial, NEW p \in Procs, Killed(p)
    PROVE  SInv'
<1> USE DEF IInv, TypeOK, LockedFacts, JournalRestorable, JournalValid,
            Restorable, NewRollback, SInv, PredecessorFacts, JournalFacts,
            ProgressFacts, DecisionFacts, SelectionConsistent,
            TerminalTruthful, OneOutcome, AllNew, AllPrior, Settled, Serial,
            Nonterminal, Candidate, Pending, Installed, ResponseValid,
            HistoryParses, ActiveAuthentic, TerminalMatchesActive,
            EntriesAllowed
<1>1. CASE Crash(p)
    BY <1>1 DEF Crash, Exit
<1>2. CASE CrashCreating(p)
    BY <1>2 DEF CrashCreating, Activatable, Exit
<1>3. CASE CrashReplacing(p)
    BY <1>3 DEF CrashReplacing, Exit
<1> QED
    BY <1>1, <1>2, <1>3 DEF Killed

\* Reboots, time and the other helpers: SInv is preserved.
LEMMA SInvEnvironment ==
    ASSUME IInv, SInv, Serial, Environment
    PROVE  SInv'
<1> USE DEF IInv, TypeOK, LockedFacts, JournalRestorable, JournalValid,
            Restorable, NewRollback, SInv, PredecessorFacts, JournalFacts,
            ProgressFacts, DecisionFacts, SelectionConsistent,
            TerminalTruthful, OneOutcome, AllNew, AllPrior, Settled, Serial,
            Nonterminal, Candidate, Pending, Installed, ResponseValid,
            HistoryParses, ActiveAuthentic, TerminalMatchesActive,
            EntriesAllowed
<1>1. CASE Reboot
    BY <1>1 DEF Reboot
<1>2. CASE Tick
    BY <1>2 DEF Tick
<1>3. ASSUME NEW r \in Requests, Age(r) PROVE SInv'
    BY <1>3 DEF Age
<1>4. ASSUME NEW r \in Requests, PublishRequest(r) PROVE SInv'
    BY <1>4 DEF PublishRequest
<1>5. ASSUME NEW r \in Requests, InstallResponse(r) PROVE SInv'
    BY <1>5 DEF InstallResponse
<1> QED
    BY <1>1, <1>2, <1>3, <1>4, <1>5 DEF Environment


\* The invariant of operators that take turns.
LEMMA SInvHolds ==
    ASSUME Serial
    PROVE  Spec => []SInv
<1>1. Init => SInv
    <2> SUFFICES ASSUME Init PROVE SInv
        OBVIOUS
    <2>1. PredecessorFacts /\ JournalFacts /\ ProgressFacts
        BY DEF Init, PredecessorFacts, JournalFacts, ProgressFacts, JournalValid
    <2>2. DecisionFacts
        BY DEF Init, DecisionFacts, JournalValid
    <2>3. SelectionConsistent /\ TerminalTruthful /\ OneOutcome
        BY DEF Init, SelectionConsistent, TerminalTruthful, OneOutcome
    <2> QED
        BY <2>1, <2>2, <2>3 DEF SInv
<1>2. IInv /\ SInv /\ [Next]_vars => SInv'
    <2> SUFFICES ASSUME IInv, SInv, [Next]_vars PROVE SInv'
        OBVIOUS
    <2>1. CASE UNCHANGED vars
        BY <2>1 DEF SInv, PredecessorFacts, JournalFacts, ProgressFacts,
            DecisionFacts, SelectionConsistent, TerminalTruthful, OneOutcome,
            AllNew, AllPrior, NewRollback, Settled, JournalValid
    <2>2. CASE Next
        BY <2>2, SInvActivation, SInvRestoration, SInvPublication,
            SInvCompletion, SInvRecovery, SInvKilled, SInvEnvironment
            DEF Next
    <2> QED
        BY <2>1, <2>2
<1> QED
    BY <1>1, <1>2, IInvHolds, PTL DEF Spec

\* Operators that take turns: outside a transaction the active record, the
\* rollback record and the service configuration name the same version,
\* through every kill, torn write and failed systemctl action.
THEOREM SelectionAgrees ==
    ASSUME Serial
    PROVE  Spec => []SelectionConsistent
BY SInvHolds, PTL DEF SInv

\* Operators that take turns: the terminal record target_status and
\* target_recover authenticate never contradicts the active record.
THEOREM TerminalAgrees ==
    ASSUME Serial
    PROVE  Spec => []TerminalTruthful
BY SInvHolds, PTL DEF SInv

\* Operators that take turns: archive_target_terminal never meets a retained
\* record of the same request with another outcome.
THEOREM HistoryAgrees ==
    ASSUME Serial
    PROVE  Spec => []OneOutcome
BY SInvHolds, PTL DEF SInv

\* Operators that take turns: selection, terminal record and history agree,
\* however many activations, restores and recoveries were interrupted.
THEOREM RecordsTellOneStory ==
    ASSUME Serial
    PROVE  Spec => []RecordsAgree
BY SInvHolds, PTL DEF SInv, RecordsAgree

-----------------------------------------------------------------------------
(***************************************************************************)
(* Operators that take turns: the service follows the records, a complete  *)
(* record was proved in time, and the records name installed versions.     *)
(***************************************************************************)
\* target-activate-start: VInv is preserved.
LEMMA VInvActivation ==
    ASSUME IInv, SInv, VInv, Serial, NEW p \in Procs, Activation(p)
    PROVE  VInv'
<1> USE DEF IInv, TypeOK, LockedFacts, SInv, JournalFacts, ProgressFacts,
            DecisionFacts, AllNew, AllPrior, JournalValid, NewRollback,
            Settled, Serial, VInv, ZotFacts, OpenBaoFacts, DeadlineFacts,
            VersionFacts, ServiceMatches, Completing, CompleteBeforeDeadline
<1>1. CASE TargetActivateStart(p)
    BY <1>1 DEF TargetActivateStart
<1>2. CASE Refuse(p)
    BY <1>2 DEF Refuse, Exit
<1>3. CASE ReplayActivation(p)
    BY <1>3 DEF ReplayActivation, Enter
<1>4. CASE RetireCurrentTerminal(p)
    BY <1>4 DEF RetireCurrentTerminal, Goto, Enter
<1>5. CASE RetireUnlink(p)
    BY <1>5 DEF RetireUnlink
<1>6. CASE ArchiveTerminal(p, "retire-archive", "retire-unlink")
    BY <1>6 DEF ArchiveTerminal, Goto, Exit
<1>7. CASE ActivateStart(p)
    BY <1>7 DEF ActivateStart, Activatable, ServicePrecondition,
        OpenBaoPrecondition, Candidate, Installed, Enter
<1>8. CASE WriteActive(p)
    BY <1>8 DEF WriteActive, Goto
<1>9. CASE WriteRollback(p)
    BY <1>9 DEF WriteRollback, Goto
<1>10. CASE SetCheckpoint(p, "cp-records", "records-written", "write-config")
    BY <1>10 DEF SetCheckpoint, Goto
<1>11. CASE WriteConfig(p)
    BY <1>11 DEF WriteConfig, Goto
<1>12. CASE SetCheckpoint(p, "cp-config", "config-written", "service")
    BY <1>12 DEF SetCheckpoint, Goto
<1>13. CASE ServiceStart(p)
    BY <1>13 DEF ServiceStart, Unit, Goto, GotoFor
<1>14. CASE SetCheckpoint(p, "cp-restarted", "restarted", "validate")
    BY <1>14 DEF SetCheckpoint, Goto
<1>15. CASE Validate(p)
    BY <1>15 DEF Validate, Goto
<1>16. CASE LocalValidated(p)
    BY <1>16 DEF LocalValidated, Exit
<1>17. CASE Fault(p)
    BY <1>17 DEF Fault, GotoFor
<1> QED
    BY <1>1, <1>2, <1>3, <1>4, <1>5, <1>6, <1>7, <1>8, <1>9, <1>10, <1>11,
        <1>12, <1>13, <1>14, <1>15, <1>16, <1>17 DEF Activation

\* restore_from_journal: VInv is preserved.
LEMMA VInvRestoration ==
    ASSUME IInv, SInv, VInv, Serial, NEW p \in Procs, Restoration(p)
    PROVE  VInv'
<1> USE DEF IInv, TypeOK, LockedFacts, SInv, JournalFacts, ProgressFacts,
            DecisionFacts, AllNew, AllPrior, JournalValid, NewRollback,
            Settled, Serial, VInv, ZotFacts, OpenBaoFacts, DeadlineFacts,
            VersionFacts, ServiceMatches, Completing, CompleteBeforeDeadline
<1>1. CASE RestoreStop(p)
    BY <1>1 DEF RestoreStop, ServiceStep, Unit, Goto, Exit
<1>2. CASE RestoreConfig(p)
    BY <1>2 DEF RestoreConfig, Goto, Exit
<1>3. CASE RestoreActive(p)
    BY <1>3 DEF RestoreActive, Goto
<1>4. CASE RestoreRollback(p)
    BY <1>4 DEF RestoreRollback, Goto
<1>5. CASE RestoreService(p)
    BY <1>5 DEF RestoreService, ServiceStep, Systemctl, Unit, Goto, Exit,
        RestoreAction
<1>6. CASE RestoreCheckpoint(p)
    <2>1. /\ pc[p] = "restore-cp" /\ terminal.state = "absent"
          /\ journal' = [journal EXCEPT !.cp = RestoredCheckpoint]
          /\ RestoredCheckpoint \in Restored
          /\ \A q \in Procs : q = p
          /\ pc'[p] \in {"idle", "publish-terminal"}
          /\ goal'[p] \in {"none", "fail"}
          /\ JournalValid
          /\ journal \in [cp : Checkpoints, rid : Sel, priorActive : Sel,
                         priorRollback : [for : Sel, pred : Sel],
                         priorConfig : Sel, priorSvc : {"active", "inactive"},
                         created : Nat, deadline : Nat]
          /\ UNCHANGED <<active, config, terminal, svc, loaded, masked, versions, now>>
        BY <1>6 DEF RestoreCheckpoint, RestoredCheckpoint, Exit, Goto
    <2> HIDE DEF IInv, SInv, JournalFacts, ProgressFacts, DecisionFacts,
                 LockedFacts, TypeOK, AllNew, AllPrior
    <2>2. ZotFacts'
        BY <2>1
    <2>3. OpenBaoFacts'
        BY <2>1
    <2>4. DeadlineFacts' /\ VersionFacts'
        BY <2>1
    <2> QED
        BY <2>2, <2>3, <2>4
<1> QED
    BY <1>1, <1>2, <1>3, <1>4, <1>5, <1>6 DEF Restoration

\* The publication of a terminal record: VInv is preserved.
LEMMA VInvPublication ==
    ASSUME IInv, SInv, VInv, Serial, NEW p \in Procs, Publication(p)
    PROVE  VInv'
<1> USE DEF IInv, TypeOK, LockedFacts, SInv, JournalFacts, ProgressFacts,
            DecisionFacts, AllNew, AllPrior, JournalValid, NewRollback,
            Settled, Serial, VInv, ZotFacts, OpenBaoFacts, DeadlineFacts,
            VersionFacts, ServiceMatches, Completing, CompleteBeforeDeadline
<1>1. CASE PublishTerminal(p)
    BY <1>1 DEF PublishTerminal, TerminalRecord, Goto, Exit
<1>2. CASE ArchiveTerminal(p, "publish-archive", "publish-unlink")
    BY <1>2 DEF ArchiveTerminal, Goto, Exit
<1>3. CASE UnlinkJournal(p)
    BY <1>3 DEF UnlinkJournal, Exit
<1> QED
    BY <1>1, <1>2, <1>3 DEF Publication

\* target-activate-complete: VInv is preserved.
LEMMA VInvCompletion ==
    ASSUME IInv, SInv, VInv, Serial, NEW p \in Procs, Completion(p)
    PROVE  VInv'
<1> USE DEF IInv, TypeOK, LockedFacts, SInv, JournalFacts, ProgressFacts,
            DecisionFacts, AllNew, AllPrior, JournalValid, NewRollback,
            Settled, Serial, VInv, ZotFacts, OpenBaoFacts, DeadlineFacts,
            VersionFacts, ServiceMatches, Completing, CompleteBeforeDeadline
<1>1. CASE CompleteCleanup(p)
    BY <1>1 DEF CompleteCleanup
<1>2. CASE Complete(p)
    BY <1>2 DEF Complete, Enter
<1>3. CASE CompleteStart(p)
    BY <1>3 DEF CompleteStart, Unit, Goto, ProbeFailed, Exit, GotoFor
<1>4. CASE CompleteValidate(p)
    BY <1>4 DEF CompleteValidate, Systemctl, ServesCandidate, Unit, Exit,
        ProbeFailed, GotoFor
<1>5. CASE CompleteDeadline(p)
    <2>1. /\ pc[p] = "complete-deadline"
          /\ \A q \in Procs : q = p
          /\ UNCHANGED <<files, service, requests, clock>>
          /\ proof[p] \in Nat /\ now \in Nat /\ journal.deadline \in Nat
          /\ pc \in [Procs -> LockedSteps \cup {"idle", "start", "begin"}]
          /\ \/ /\ now < journal.deadline
                /\ pc' = [pc EXCEPT ![p] = "publish-terminal"]
                /\ UNCHANGED <<goal, proof>>
             \/ pc' = [pc EXCEPT ![p] = FirstRestore]
        BY <1>5 DEF CompleteDeadline, Goto
    <2> HIDE DEF IInv, SInv, JournalFacts, ProgressFacts, DecisionFacts,
                 LockedFacts, TypeOK, AllNew, AllPrior
    <2>2. ZotFacts'
        BY <2>1
    <2>3. OpenBaoFacts'
        BY <2>1
    <2>4. DeadlineFacts' /\ VersionFacts'
        BY <2>1
    <2> QED
        BY <2>2, <2>3, <2>4
<1> QED
    BY <1>1, <1>2, <1>3, <1>4, <1>5 DEF Completion

\* target-recover: VInv is preserved.
LEMMA VInvRecovery ==
    ASSUME IInv, SInv, VInv, Serial, NEW p \in Procs, Recovery(p)
    PROVE  VInv'
<1> USE DEF IInv, TypeOK, LockedFacts, SInv, JournalFacts, ProgressFacts,
            DecisionFacts, AllNew, AllPrior, JournalValid, NewRollback,
            Settled, Serial, VInv, ZotFacts, OpenBaoFacts, DeadlineFacts,
            VersionFacts, ServiceMatches, Completing, CompleteBeforeDeadline
<1>1. CASE Recover(p)
    BY <1>1 DEF Recover, Enter
<1>2. CASE RecoverStop(p)
    BY <1>2 DEF RecoverStop, ServiceStep, Systemctl, Unit, Goto, Exit
<1>3. CASE RecoverDecide(p)
    BY <1>3 DEF RecoverDecide, RecoverStep, Exit, Goto
<1> QED
    BY <1>1, <1>2, <1>3 DEF Recovery

\* Kills: VInv is preserved.
LEMMA VInvKilled ==
    ASSUME IInv, SInv, VInv, Serial, NEW p \in Procs, Killed(p)
    PROVE  VInv'
<1> USE DEF IInv, TypeOK, LockedFacts, SInv, JournalFacts, ProgressFacts,
            DecisionFacts, AllNew, AllPrior, JournalValid, NewRollback,
            Settled, Serial, VInv, ZotFacts, OpenBaoFacts, DeadlineFacts,
            VersionFacts, ServiceMatches, Completing, CompleteBeforeDeadline
<1>1. CASE Crash(p)
    BY <1>1 DEF Crash, Exit
<1>2. CASE CrashCreating(p)
    <2>1. /\ \/ journal' = TornJournal /\ UNCHANGED terminal
                /\ journal.cp = "absent"
             \/ terminal' = TornTerminal /\ UNCHANGED journal
             \/ UNCHANGED <<journal, terminal>>
          /\ pc'[p] = "idle"
          /\ \A q \in Procs : q = p
          /\ UNCHANGED <<active, config, svc, loaded, masked, versions, now>>
        BY <1>2 DEF CrashCreating, Activatable, Exit
    <2>2. ZotFacts'
        BY <2>1
    <2>3. OpenBaoFacts'
        BY <2>1
    <2>4. DeadlineFacts' /\ VersionFacts'
        BY <2>1
    <2> QED
        BY <2>2, <2>3, <2>4
<1>3. CASE CrashReplacing(p)
    BY <1>3 DEF CrashReplacing, Exit
<1> QED
    BY <1>1, <1>2, <1>3 DEF Killed

\* Reboots, time and the other helpers: VInv is preserved.
LEMMA VInvEnvironment ==
    ASSUME IInv, SInv, VInv, Serial, Environment
    PROVE  VInv'
<1> USE DEF IInv, TypeOK, LockedFacts, SInv, JournalFacts, ProgressFacts,
            DecisionFacts, AllNew, AllPrior, JournalValid, NewRollback,
            Settled, Serial, VInv, ZotFacts, OpenBaoFacts, DeadlineFacts,
            VersionFacts, ServiceMatches, Completing, CompleteBeforeDeadline
<1>1. CASE Reboot
    BY <1>1 DEF Reboot
<1>2. CASE Tick
    BY <1>2 DEF Tick
<1>3. ASSUME NEW r \in Requests, Age(r) PROVE VInv'
    BY <1>3 DEF Age
<1>4. ASSUME NEW r \in Requests, PublishRequest(r) PROVE VInv'
    BY <1>4 DEF PublishRequest
<1>5. ASSUME NEW r \in Requests, InstallResponse(r) PROVE VInv'
    BY <1>5 DEF InstallResponse
<1> QED
    BY <1>1, <1>2, <1>3, <1>4, <1>5 DEF Environment

\* The invariant of the service, the deadline and the versions.
LEMMA VInvHolds ==
    ASSUME Serial
    PROVE  Spec => []VInv
<1>1. Init => VInv
    <2> SUFFICES ASSUME Init PROVE VInv
        OBVIOUS
    <2>1. ZotFacts
        <3>1. Adapter = "zot" => masked
            BY DEF Init
        <3> QED
            BY <3>1 DEF Init, ZotFacts, ServiceMatches, Completing, JournalValid
    <2>2. OpenBaoFacts
        BY DEF Init, OpenBaoFacts, JournalValid
    <2>3. DeadlineFacts /\ VersionFacts
        BY DEF Init, DeadlineFacts, VersionFacts, CompleteBeforeDeadline,
            Completing, JournalValid
    <2> QED
        BY <2>1, <2>2, <2>3 DEF VInv
<1>2. IInv /\ SInv /\ VInv /\ [Next]_vars => VInv'
    <2> SUFFICES ASSUME IInv, SInv, VInv, [Next]_vars PROVE VInv'
        OBVIOUS
    <2>1. CASE UNCHANGED vars
        BY <2>1 DEF VInv, ZotFacts, OpenBaoFacts, DeadlineFacts, VersionFacts,
            ServiceMatches, Completing, CompleteBeforeDeadline, JournalValid, Settled
    <2>2. CASE Next
        BY <2>2, VInvActivation, VInvRestoration, VInvPublication,
            VInvCompletion, VInvRecovery, VInvKilled, VInvEnvironment
            DEF Next
    <2> QED
        BY <2>1, <2>2
<1> QED
    BY <1>1, <1>2, IInvHolds, SInvHolds, PTL DEF Spec

\* Operators that take turns: whatever systemctl actions failed and whatever
\* was killed, outside a transaction a running service has loaded the selected
\* version, and Zot stays stopped and masked until there is one.
THEOREM ServiceServesSelection ==
    ASSUME Serial
    PROVE  Spec => []ServiceFollows
<1>1. TypeOK /\ VInv => ServiceFollows
    BY DEF TypeOK, VInv, ZotFacts, OpenBaoFacts, ServiceMatches,
        ServiceFollows, ServedIsSelected, DormantUntilIssued
<1> QED
    BY <1>1, IInvHolds, VInvHolds, PTL DEF IInv

\* Operators that take turns: outside a transaction OpenBao is stopped, also
\* after a failed validation cycle, a failed stop or a kill inside one.
THEOREM OpenBaoLeftStopped ==
    ASSUME Serial
    PROVE  Spec => []OpenBaoStopped
<1>1. VInv => OpenBaoStopped
    BY DEF VInv, OpenBaoFacts, OpenBaoStopped
<1> QED
    BY <1>1, VInvHolds, PTL

\* Operators that take turns: a complete record carries the epoch of a
\* validation made before the rollback deadline of its journal, however long
\* the command took afterwards and however often it was repeated.
THEOREM CompletedInTime ==
    ASSUME Serial
    PROVE  Spec => []CompleteBeforeDeadline
<1>1. VInv => CompleteBeforeDeadline
    BY DEF VInv, DeadlineFacts
<1> QED
    BY <1>1, VInvHolds, PTL

\* target-activate-start: Undamaged is preserved.
LEMMA UndamagedActivation ==
    ASSUME IInv, Undamaged, ~TornWrites, ~Aging, NEW p \in Procs, Activation(p)
    PROVE  Undamaged'
<1> USE DEF IInv, TypeOK, LockedFacts, Undamaged, EntriesAllowed
<1>1. CASE TargetActivateStart(p)
    BY <1>1 DEF TargetActivateStart
<1>2. CASE Refuse(p)
    BY <1>2 DEF Refuse, Exit
<1>3. CASE ReplayActivation(p)
    BY <1>3 DEF ReplayActivation, Enter
<1>4. CASE RetireCurrentTerminal(p)
    BY <1>4 DEF RetireCurrentTerminal, Goto, Enter
<1>5. CASE RetireUnlink(p)
    BY <1>5 DEF RetireUnlink
<1>6. CASE ArchiveTerminal(p, "retire-archive", "retire-unlink")
    BY <1>6 DEF ArchiveTerminal, Goto, Exit
<1>7. CASE ActivateStart(p)
    BY <1>7 DEF ActivateStart, Activatable, ServicePrecondition,
        OpenBaoPrecondition, Candidate, Installed, Enter
<1>8. CASE WriteActive(p)
    BY <1>8 DEF WriteActive, Goto
<1>9. CASE WriteRollback(p)
    BY <1>9 DEF WriteRollback, Goto
<1>10. CASE SetCheckpoint(p, "cp-records", "records-written", "write-config")
    BY <1>10 DEF SetCheckpoint, Goto
<1>11. CASE WriteConfig(p)
    BY <1>11 DEF WriteConfig, Goto
<1>12. CASE SetCheckpoint(p, "cp-config", "config-written", "service")
    BY <1>12 DEF SetCheckpoint, Goto
<1>13. CASE ServiceStart(p)
    BY <1>13 DEF ServiceStart, Unit, Goto, GotoFor
<1>14. CASE SetCheckpoint(p, "cp-restarted", "restarted", "validate")
    BY <1>14 DEF SetCheckpoint, Goto
<1>15. CASE Validate(p)
    BY <1>15 DEF Validate, Goto
<1>16. CASE LocalValidated(p)
    BY <1>16 DEF LocalValidated, Exit
<1>17. CASE Fault(p)
    BY <1>17 DEF Fault, GotoFor
<1> QED
    BY <1>1, <1>2, <1>3, <1>4, <1>5, <1>6, <1>7, <1>8, <1>9, <1>10, <1>11,
        <1>12, <1>13, <1>14, <1>15, <1>16, <1>17 DEF Activation

\* restore_from_journal: Undamaged is preserved.
LEMMA UndamagedRestoration ==
    ASSUME IInv, Undamaged, ~TornWrites, ~Aging, NEW p \in Procs, Restoration(p)
    PROVE  Undamaged'
<1> USE DEF IInv, TypeOK, LockedFacts, Undamaged, EntriesAllowed
<1>1. CASE RestoreStop(p)
    BY <1>1 DEF RestoreStop, ServiceStep, Unit, Goto, Exit
<1>2. CASE RestoreConfig(p)
    BY <1>2 DEF RestoreConfig, Goto, Exit
<1>3. CASE RestoreActive(p)
    BY <1>3 DEF RestoreActive, Goto
<1>4. CASE RestoreRollback(p)
    BY <1>4 DEF RestoreRollback, Goto
<1>5. CASE RestoreService(p)
    BY <1>5 DEF RestoreService, ServiceStep, Systemctl, Unit, Goto, Exit,
        RestoreAction
<1>6. CASE RestoreCheckpoint(p)
    BY <1>6 DEF RestoreCheckpoint, RestoredCheckpoint, Exit, Goto
<1> QED
    BY <1>1, <1>2, <1>3, <1>4, <1>5, <1>6 DEF Restoration

\* The publication of a terminal record: Undamaged is preserved.
LEMMA UndamagedPublication ==
    ASSUME IInv, Undamaged, ~TornWrites, ~Aging, NEW p \in Procs, Publication(p)
    PROVE  Undamaged'
<1> USE DEF IInv, TypeOK, LockedFacts, Undamaged, EntriesAllowed
<1>1. CASE PublishTerminal(p)
    BY <1>1 DEF PublishTerminal, TerminalRecord, Goto, Exit
<1>2. CASE ArchiveTerminal(p, "publish-archive", "publish-unlink")
    BY <1>2 DEF ArchiveTerminal, Goto, Exit
<1>3. CASE UnlinkJournal(p)
    BY <1>3 DEF UnlinkJournal, Exit
<1> QED
    BY <1>1, <1>2, <1>3 DEF Publication

\* target-activate-complete: Undamaged is preserved.
LEMMA UndamagedCompletion ==
    ASSUME IInv, Undamaged, ~TornWrites, ~Aging, NEW p \in Procs, Completion(p)
    PROVE  Undamaged'
<1> USE DEF IInv, TypeOK, LockedFacts, Undamaged, EntriesAllowed
<1>1. CASE CompleteCleanup(p)
    BY <1>1 DEF CompleteCleanup
<1>2. CASE Complete(p)
    BY <1>2 DEF Complete, Enter
<1>3. CASE CompleteStart(p)
    BY <1>3 DEF CompleteStart, Unit, Goto, ProbeFailed, Exit, GotoFor
<1>4. CASE CompleteValidate(p)
    BY <1>4 DEF CompleteValidate, Systemctl, ServesCandidate, Unit, Exit,
        ProbeFailed, GotoFor
<1>5. CASE CompleteDeadline(p)
    BY <1>5 DEF CompleteDeadline, Goto
<1> QED
    BY <1>1, <1>2, <1>3, <1>4, <1>5 DEF Completion

\* target-recover: Undamaged is preserved.
LEMMA UndamagedRecovery ==
    ASSUME IInv, Undamaged, ~TornWrites, ~Aging, NEW p \in Procs, Recovery(p)
    PROVE  Undamaged'
<1> USE DEF IInv, TypeOK, LockedFacts, Undamaged, EntriesAllowed
<1>1. CASE Recover(p)
    BY <1>1 DEF Recover, Enter
<1>2. CASE RecoverStop(p)
    BY <1>2 DEF RecoverStop, ServiceStep, Systemctl, Unit, Goto, Exit
<1>3. CASE RecoverDecide(p)
    BY <1>3 DEF RecoverDecide, RecoverStep, Exit, Goto
<1> QED
    BY <1>1, <1>2, <1>3 DEF Recovery

\* Kills: Undamaged is preserved.
LEMMA UndamagedKilled ==
    ASSUME IInv, Undamaged, ~TornWrites, ~Aging, NEW p \in Procs, Killed(p)
    PROVE  Undamaged'
<1> USE DEF IInv, TypeOK, LockedFacts, Undamaged, EntriesAllowed
<1>1. CASE Crash(p)
    BY <1>1 DEF Crash, Exit
<1>2. CASE CrashCreating(p)
    BY <1>2 DEF CrashCreating, Exit
<1>3. CASE CrashReplacing(p)
    BY <1>3 DEF CrashReplacing, Exit
<1> QED
    BY <1>1, <1>2, <1>3 DEF Killed

\* Reboots, time and the other helpers: Undamaged is preserved.
LEMMA UndamagedEnvironment ==
    ASSUME IInv, Undamaged, ~TornWrites, ~Aging, Environment
    PROVE  Undamaged'
<1> USE DEF IInv, TypeOK, LockedFacts, Undamaged, EntriesAllowed
<1>1. CASE Reboot
    BY <1>1 DEF Reboot
<1>2. CASE Tick
    BY <1>2 DEF Tick
<1>3. ASSUME NEW r \in Requests, Age(r) PROVE Undamaged'
    BY <1>3 DEF Age
<1>4. ASSUME NEW r \in Requests, PublishRequest(r) PROVE Undamaged'
    BY <1>4 DEF PublishRequest
<1>5. ASSUME NEW r \in Requests, InstallResponse(r) PROVE Undamaged'
    BY <1>5 DEF InstallResponse
<1> QED
    BY <1>1, <1>2, <1>3, <1>4, <1>5 DEF Environment

\* Without kills inside a write and without aging nothing is ever damaged.
LEMMA UndamagedHolds ==
    ASSUME ~TornWrites, ~Aging
    PROVE  Spec => []Undamaged
<1>1. Init => Undamaged
    BY DEF Init, Undamaged
<1>2. IInv /\ Undamaged /\ [Next]_vars => Undamaged'
    <2> SUFFICES ASSUME IInv, Undamaged, [Next]_vars PROVE Undamaged'
        OBVIOUS
    <2>1. CASE UNCHANGED vars
        BY <2>1 DEF Undamaged
    <2>2. CASE Next
        BY <2>2, UndamagedActivation, UndamagedRestoration,
            UndamagedPublication, UndamagedCompletion, UndamagedRecovery,
            UndamagedKilled, UndamagedEnvironment DEF Next
    <2> QED
        BY <2>1, <2>2
<1> QED
    BY <1>1, <1>2, IInvHolds, PTL DEF Spec

\* Operators that take turns, kills between two effects only and certificates
\* that stay valid: target-recover accepts every journal an interruption
\* leaves, so no host waits for repair by hand.
THEOREM RecoveryNeverRefused ==
    ASSUME Serial, ~TornWrites, ~Aging
    PROVE  Spec => []RecoveryAccepted
<1>1. IInv /\ SInv /\ VInv /\ Undamaged => RecoveryAccepted
    <2> SUFFICES ASSUME IInv, SInv, VInv, Undamaged, journal.cp # "absent"
                 PROVE  RecoverStep # "idle"
        BY DEF RecoveryAccepted
    <2>1. EntriesAllowed /\ terminal.state # "torn" /\ JournalValid
        BY DEF IInv, TypeOK, Undamaged, EntriesAllowed, JournalValid
    <2>2. Candidate(journal.rid)
        BY <2>1 DEF IInv, TypeOK, VInv, VersionFacts, Undamaged, Candidate,
            Pending, Installed, ResponseValid
    <2>3. CASE terminal.state \in Outcomes
        <3>1. terminal.rid = journal.rid
            BY <2>1, <2>3 DEF SInv, DecisionFacts
        <3>2. ActiveAuthentic
            BY <2>1, <2>3 DEF SInv, DecisionFacts, AllNew, SelectionConsistent,
                Settled, ActiveAuthentic
        <3>3. TerminalMatchesActive
            BY <2>3, <3>2 DEF SInv, TerminalTruthful, TerminalMatchesActive
        <3> QED
            BY <2>1, <2>2, <2>3, <3>1, <3>3 DEF RecoverStep
    <2>4. CASE terminal.state \notin Outcomes
        BY <2>1, <2>2, <2>4 DEF RecoverStep
    <2> QED
        BY <2>3, <2>4
<1> QED
    BY <1>1, IInvHolds, SInvHolds, VInvHolds, UndamagedHolds, PTL

-----------------------------------------------------------------------------
(***************************************************************************)
(* Every step is a step of CertSwitch, or changes nothing it speaks of.    *)
(***************************************************************************)
\* target-activate-start implements CertSwitch.
LEMMA SwitchActivation ==
    ASSUME IInv, SInv, Serial, NEW p \in Procs, Activation(p)
    PROVE  [Switching!Next]_Switching!vars
<1> USE DEF IInv, TypeOK, LockedFacts, JournalRestorable, JournalValid,
            Restorable, NewRollback, SInv, PredecessorFacts, JournalFacts,
            ProgressFacts, DecisionFacts, SelectionConsistent,
            TerminalTruthful, OneOutcome, AllNew, AllPrior, Settled, Serial,
            Nonterminal, Candidate, Pending, Installed, ResponseValid,
            HistoryParses, ActiveAuthentic, TerminalMatchesActive,
            EntriesAllowed
<1> USE DEF Committed, Outcome, Switching!Next, Switching!Request,
            Switching!Switch, Switching!Abort, Switching!vars,
            Switching!Unrequested
<1>1. CASE TargetActivateStart(p)
    BY <1>1 DEF TargetActivateStart
<1>2. CASE Refuse(p)
    BY <1>2 DEF Refuse, Exit
<1>3. CASE ReplayActivation(p)
    BY <1>3 DEF ReplayActivation, Enter
<1>4. CASE RetireCurrentTerminal(p)
    BY <1>4 DEF RetireCurrentTerminal, Goto, Enter
<1>5. CASE RetireUnlink(p)
    BY <1>5 DEF RetireUnlink
<1>6. CASE ArchiveTerminal(p, "retire-archive", "retire-unlink")
    BY <1>6 DEF ArchiveTerminal, Goto, Exit
<1>7. CASE ActivateStart(p)
    BY <1>7 DEF ActivateStart, Activatable, Enter
<1>8. CASE WriteActive(p)
    BY <1>8 DEF WriteActive, Goto
<1>9. CASE WriteRollback(p)
    BY <1>9 DEF WriteRollback, Goto
<1>10. CASE SetCheckpoint(p, "cp-records", "records-written", "write-config")
    BY <1>10 DEF SetCheckpoint, Goto
<1>11. CASE WriteConfig(p)
    BY <1>11 DEF WriteConfig, Goto
<1>12. CASE SetCheckpoint(p, "cp-config", "config-written", "service")
    BY <1>12 DEF SetCheckpoint, Goto
<1>13. CASE ServiceStart(p)
    BY <1>13 DEF ServiceStart, Unit, Goto, GotoFor
<1>14. CASE SetCheckpoint(p, "cp-restarted", "restarted", "validate")
    BY <1>14 DEF SetCheckpoint, Goto
<1>15. CASE Validate(p)
    BY <1>15 DEF Validate, Goto
<1>16. CASE LocalValidated(p)
    BY <1>16 DEF LocalValidated, Exit
<1>17. CASE Fault(p)
    BY <1>17 DEF Fault, GotoFor
<1> QED
    BY <1>1, <1>2, <1>3, <1>4, <1>5, <1>6, <1>7, <1>8, <1>9, <1>10, <1>11,
        <1>12, <1>13, <1>14, <1>15, <1>16, <1>17 DEF Activation

\* restore_from_journal implements CertSwitch.
LEMMA SwitchRestoration ==
    ASSUME IInv, SInv, Serial, NEW p \in Procs, Restoration(p)
    PROVE  [Switching!Next]_Switching!vars
<1> USE DEF IInv, TypeOK, LockedFacts, JournalRestorable, JournalValid,
            Restorable, NewRollback, SInv, PredecessorFacts, JournalFacts,
            ProgressFacts, DecisionFacts, SelectionConsistent,
            TerminalTruthful, OneOutcome, AllNew, AllPrior, Settled, Serial,
            Nonterminal, Candidate, Pending, Installed, ResponseValid,
            HistoryParses, ActiveAuthentic, TerminalMatchesActive,
            EntriesAllowed
<1> USE DEF Committed, Outcome, Switching!Next, Switching!Request,
            Switching!Switch, Switching!Abort, Switching!vars,
            Switching!Unrequested
<1>1. CASE RestoreStop(p)
    BY <1>1 DEF RestoreStop, ServiceStep, Unit, Goto, Exit
<1>2. CASE RestoreConfig(p)
    BY <1>2 DEF RestoreConfig, Goto, Exit
<1>3. CASE RestoreActive(p)
    BY <1>3 DEF RestoreActive, Goto
<1>4. CASE RestoreRollback(p)
    BY <1>4 DEF RestoreRollback, Goto
<1>5. CASE RestoreService(p)
    BY <1>5 DEF RestoreService, ServiceStep, Unit, Goto, Exit, RestoreAction
<1>6. CASE RestoreCheckpoint(p)
    BY <1>6 DEF RestoreCheckpoint, RestoredCheckpoint, Exit, Goto
<1> QED
    BY <1>1, <1>2, <1>3, <1>4, <1>5, <1>6 DEF Restoration

\* The publication of a terminal record implements CertSwitch.
LEMMA SwitchPublication ==
    ASSUME IInv, SInv, Serial, NEW p \in Procs, Publication(p)
    PROVE  [Switching!Next]_Switching!vars
<1> USE DEF IInv, TypeOK, LockedFacts, JournalRestorable, JournalValid,
            Restorable, NewRollback, SInv, PredecessorFacts, JournalFacts,
            ProgressFacts, DecisionFacts, SelectionConsistent,
            TerminalTruthful, OneOutcome, AllNew, AllPrior, Settled, Serial,
            Nonterminal, Candidate, Pending, Installed, ResponseValid,
            HistoryParses, ActiveAuthentic, TerminalMatchesActive,
            EntriesAllowed
<1> USE DEF Committed, Outcome, Switching!Next, Switching!Request,
            Switching!Switch, Switching!Abort, Switching!vars,
            Switching!Unrequested
<1>1. CASE PublishTerminal(p)
    <2>1. CASE terminal.state # "absent"
        BY <1>1, <2>1 DEF PublishTerminal, Exit
    <2> DEFINE k == journal.rid
    <2>2. CASE terminal.state = "absent"
        <3>1. /\ terminal' = TerminalRecord(p)
              /\ UNCHANGED <<active, journal, history, requested, pred>>
            BY <1>1, <2>2 DEF PublishTerminal
        <3>2. /\ JournalValid /\ k \in requested /\ k \in Requests
              /\ pred[k] = journal.priorActive
              /\ history[k] = "absent" /\ terminal.rid = None
              /\ Committed = journal.priorActive
            BY <1>1, <2>2 DEF PublishTerminal
        <3>3. CASE goal[p] = "complete"
            <4>1. \A r \in Requests :
                     Outcome(r)' = IF r = k THEN "complete" ELSE Outcome(r)
                BY <3>1, <3>2, <3>3, <1>1 DEF PublishTerminal, TerminalRecord
            <4>2. Committed' = k
                BY <3>1, <3>2, <3>3, <1>1 DEF PublishTerminal, TerminalRecord
            <4>3. Outcome(k) \notin Outcomes
                BY <3>2, <2>2
            <4>4. "complete" \in {"complete"}
                BY <3>3, <1>1 DEF PublishTerminal
            <4> HIDE DEF Outcome, Committed, IInv, SInv
            <4>5. Switching!Switch(k)
                BY <3>1, <3>2, <4>1, <4>2, <4>3, <4>4
            <4> QED
                BY <4>5, <3>2
        <3>4. CASE goal[p] = "fail"
            <4>1. \A r \in Requests :
                     Outcome(r)' = IF r = k THEN journal.cp ELSE Outcome(r)
                BY <3>1, <3>2, <3>4, <1>1 DEF PublishTerminal, TerminalRecord
            <4>2. Committed' = Committed
                BY <3>1, <3>2, <3>4, <1>1 DEF PublishTerminal, TerminalRecord
            <4>3. Outcome(k) \notin Outcomes
                BY <3>2, <2>2
            <4>4. journal.cp \in Restored
                BY <3>4, <1>1 DEF PublishTerminal
            <4> HIDE DEF Outcome, Committed, IInv, SInv
            <4>5. Switching!Abort(k)
                BY <3>1, <3>2, <4>1, <4>2, <4>3, <4>4
            <4> QED
                BY <4>5, <3>2
        <3> QED
            BY <1>1, <3>3, <3>4 DEF PublishTerminal
    <2> QED
        BY <2>1, <2>2
<1>2. CASE ArchiveTerminal(p, "publish-archive", "publish-unlink")
    BY <1>2 DEF ArchiveTerminal, Goto, Exit
<1>3. CASE UnlinkJournal(p)
    BY <1>3 DEF UnlinkJournal, Exit
<1> QED
    BY <1>1, <1>2, <1>3 DEF Publication

\* target-activate-complete implements CertSwitch.
LEMMA SwitchCompletion ==
    ASSUME IInv, SInv, Serial, NEW p \in Procs, Completion(p)
    PROVE  [Switching!Next]_Switching!vars
<1> USE DEF IInv, TypeOK, LockedFacts, JournalRestorable, JournalValid,
            Restorable, NewRollback, SInv, PredecessorFacts, JournalFacts,
            ProgressFacts, DecisionFacts, SelectionConsistent,
            TerminalTruthful, OneOutcome, AllNew, AllPrior, Settled, Serial,
            Nonterminal, Candidate, Pending, Installed, ResponseValid,
            HistoryParses, ActiveAuthentic, TerminalMatchesActive,
            EntriesAllowed
<1> USE DEF Committed, Outcome, Switching!Next, Switching!Request,
            Switching!Switch, Switching!Abort, Switching!vars,
            Switching!Unrequested
<1>1. CASE CompleteCleanup(p)
    BY <1>1 DEF CompleteCleanup
<1>2. CASE Complete(p)
    BY <1>2 DEF Complete, Enter
<1>3. CASE CompleteStart(p)
    BY <1>3 DEF CompleteStart, Unit, Goto, ProbeFailed, Exit, GotoFor
<1>4. CASE CompleteValidate(p)
    BY <1>4 DEF CompleteValidate, Unit, Exit, ProbeFailed, GotoFor
<1>5. CASE CompleteDeadline(p)
    BY <1>5 DEF CompleteDeadline, Goto
<1> QED
    BY <1>1, <1>2, <1>3, <1>4, <1>5 DEF Completion

\* target-recover implements CertSwitch.
LEMMA SwitchRecovery ==
    ASSUME IInv, SInv, Serial, NEW p \in Procs, Recovery(p)
    PROVE  [Switching!Next]_Switching!vars
<1> USE DEF IInv, TypeOK, LockedFacts, JournalRestorable, JournalValid,
            Restorable, NewRollback, SInv, PredecessorFacts, JournalFacts,
            ProgressFacts, DecisionFacts, SelectionConsistent,
            TerminalTruthful, OneOutcome, AllNew, AllPrior, Settled, Serial,
            Nonterminal, Candidate, Pending, Installed, ResponseValid,
            HistoryParses, ActiveAuthentic, TerminalMatchesActive,
            EntriesAllowed
<1> USE DEF Committed, Outcome, Switching!Next, Switching!Request,
            Switching!Switch, Switching!Abort, Switching!vars,
            Switching!Unrequested
<1>1. CASE Recover(p)
    BY <1>1 DEF Recover, Enter
<1>2. CASE RecoverStop(p)
    BY <1>2 DEF RecoverStop, ServiceStep, Unit, Goto, Exit
<1>3. CASE RecoverDecide(p)
    BY <1>3 DEF RecoverDecide, RecoverStep, Exit, Goto
<1> QED
    BY <1>1, <1>2, <1>3 DEF Recovery

\* Kills implements CertSwitch.
LEMMA SwitchKilled ==
    ASSUME IInv, SInv, Serial, NEW p \in Procs, Killed(p)
    PROVE  [Switching!Next]_Switching!vars
<1> USE DEF IInv, TypeOK, LockedFacts, JournalRestorable, JournalValid,
            Restorable, NewRollback, SInv, PredecessorFacts, JournalFacts,
            ProgressFacts, DecisionFacts, SelectionConsistent,
            TerminalTruthful, OneOutcome, AllNew, AllPrior, Settled, Serial,
            Nonterminal, Candidate, Pending, Installed, ResponseValid,
            HistoryParses, ActiveAuthentic, TerminalMatchesActive,
            EntriesAllowed
<1> USE DEF Committed, Outcome, Switching!Next, Switching!Request,
            Switching!Switch, Switching!Abort, Switching!vars,
            Switching!Unrequested
<1>1. CASE Crash(p)
    BY <1>1 DEF Crash, Exit
<1>2. CASE CrashCreating(p)
    <2>1. CASE journal' = TornJournal /\ UNCHANGED <<terminal, history>>
        BY <1>2, <2>1 DEF CrashCreating, Activatable, Exit
    <2>2. CASE terminal' = TornTerminal /\ UNCHANGED <<journal, history>>
        BY <1>2, <2>2 DEF CrashCreating, Activatable, Exit
    <2>3. CASE UNCHANGED <<journal, terminal>>
        BY <1>2, <2>3 DEF CrashCreating, Activatable, Exit
    <2> QED
        BY <1>2, <2>1, <2>2, <2>3 DEF CrashCreating
<1>3. CASE CrashReplacing(p)
    BY <1>3 DEF CrashReplacing, Exit
<1> QED
    BY <1>1, <1>2, <1>3 DEF Killed

\* Reboots, time and the other helpers implements CertSwitch.
LEMMA SwitchEnvironment ==
    ASSUME IInv, SInv, Serial, Environment
    PROVE  [Switching!Next]_Switching!vars
<1> USE DEF IInv, TypeOK, LockedFacts, JournalRestorable, JournalValid,
            Restorable, NewRollback, SInv, PredecessorFacts, JournalFacts,
            ProgressFacts, DecisionFacts, SelectionConsistent,
            TerminalTruthful, OneOutcome, AllNew, AllPrior, Settled, Serial,
            Nonterminal, Candidate, Pending, Installed, ResponseValid,
            HistoryParses, ActiveAuthentic, TerminalMatchesActive,
            EntriesAllowed
<1> USE DEF Committed, Outcome, Switching!Next, Switching!Request,
            Switching!Switch, Switching!Abort, Switching!vars,
            Switching!Unrequested
<1>1. CASE Reboot
    BY <1>1 DEF Reboot
<1>2. CASE Tick
    BY <1>2 DEF Tick
<1>3. ASSUME NEW r \in Requests, Age(r) PROVE [Switching!Next]_Switching!vars
    BY <1>3 DEF Age
<1>4. ASSUME NEW r \in Requests, PublishRequest(r) PROVE [Switching!Next]_Switching!vars
    <2>1. /\ Committed = active /\ Committed' = active
          /\ requested' = requested \cup {r}
          /\ pred' = [pred EXCEPT ![r] = active]
          /\ r \notin requested
        BY <1>4 DEF PublishRequest
    <2>2. \A q \in Requests : Outcome(q)' = Outcome(q)
        BY <1>4 DEF PublishRequest
    <2>3. pred \in [Requests -> Sel]
        OBVIOUS
    <2> HIDE DEF Outcome, Committed, IInv, SInv
    <2>4. Switching!Request(r)
        BY <2>1, <2>2, <2>3
    <2> QED
        BY <2>4
<1>5. ASSUME NEW r \in Requests, InstallResponse(r) PROVE [Switching!Next]_Switching!vars
    BY <1>5 DEF InstallResponse
<1> QED
    BY <1>1, <1>2, <1>3, <1>4, <1>5 DEF Environment


\* Operators that take turns: the transaction of activate_start, its
\* completion, rollback and recovery, implements the atomic switch of
\* CertSwitch, whatever is interrupted.
THEOREM ImplementsSwitch ==
    ASSUME Serial
    PROVE  Spec => AtomicSwitch
<1>1. Init => Switching!Init
    BY DEF Init, Switching!Init, Switching!Unrequested, Committed,
        JournalValid, Outcome
<1>2. IInv /\ SInv /\ [Next]_vars => [Switching!Next]_Switching!vars
    <2> SUFFICES ASSUME IInv, SInv, [Next]_vars
                 PROVE  [Switching!Next]_Switching!vars
        OBVIOUS
    <2>1. CASE UNCHANGED vars
        BY <2>1 DEF Switching!vars, Committed, JournalValid, Outcome
    <2>2. CASE Next
        BY <2>2, SwitchActivation, SwitchRestoration, SwitchPublication,
            SwitchCompletion, SwitchRecovery, SwitchKilled, SwitchEnvironment
            DEF Next
    <2> QED
        BY <2>1, <2>2
<1> QED
    BY <1>1, <1>2, IInvHolds, SInvHolds, PTL
        DEF Spec, AtomicSwitch, Switching!Spec

=============================================================================
