------------------------- MODULE RunnerConcurrency -------------------------
(***************************************************************************)
(* The module that sets the root "concurrent" of a GitLab Runner           *)
(* configuration (roles/gitlab_runner/library/gitlab_runner_concurrency.py)*)
(* and the play that applies it with a backup and a rollback               *)
(* (playbooks/gitlab-runners.yml, roles/gitlab_runner/tasks), while the    *)
(* Runner, which owns the file, rotates its token in it and reloads it when*)
(* its modification time has grown.                                        *)
(*                                                                         *)
(* A text has the value of "concurrent" and the token, which stands for    *)
(* everything else.  Plays are serialized.  Nobody but the Runner and the  *)
(* play writes the file, and the Runner not between the last lstat and the *)
(* rename: the code asks for both, and the two calls are one step here.    *)
(***************************************************************************)
EXTENDS Naturals

CONSTANTS
    Desired, Values,  \* the wanted value, and the values the file may have
    MaxClock,         \* bound: the clock of the host
    MaxWrites,        \* bound: writes of the Runner
    MaxFaults         \* bound: failed tasks and calls, kills

ASSUME RunnerAssumption ==
    /\ Values \subseteq Nat \ {0} /\ Desired \in Values
    /\ MaxClock \in Nat /\ MaxWrites \in Nat /\ MaxFaults \in Nat

VARIABLES
    text, mtime,              \* config.toml
    clock, issued,            \* the host's clock; the token that GitLab accepts
    loaded, seen,             \* the Runner: value and modification time it has read
    step, orig, replay, bad,  \* the play: next task, config_stat; its rescue runs,
                              \* a part of the rollback failed
    backup, saved, ready,     \* the backup file, its text, backup_ready
    outcome,                  \* how the last play ended
    pc, before, report,       \* the module run
    touched,                  \* identity(lstat) is no longer identity(before)
    temp, killed,             \* its temporary file is there; it was killed
    reverted, missed,         \* history: the last rotation was undone; the last
                              \* replacement is not newer than what the Runner read
    faults

runner  == <<clock, issued, loaded, seen>>
config  == <<text, mtime, touched, missed, reverted>>
copy    == <<backup, saved, ready>>
play    == <<step, orig, replay, bad, outcome>>
module  == <<pc, before, report, temp, killed>>
vars    == <<runner, config, copy, play, module, faults>>

NoText == [val |-> 0, token |-> 0]

Fault == faults < MaxFaults /\ faults' = faults + 1

-----------------------------------------------------------------------------
(***************************************************************************)
(* The Runner and the clock                                                *)
(***************************************************************************)

\* The clock is set, forwards or backwards.
Tick ==
    /\ clock' \in 0..MaxClock \ {clock}
    /\ UNCHANGED <<issued, loaded, seen, config, copy, play, module, faults>>

\* The Runner rotates its token, or registers with another value of concurrent,
\* and writes the file; it knows the modification time of what it wrote.
Rotate ==
    /\ issued < MaxWrites
    /\ issued' = issued + 1
    /\ \E v \in Values : text' = [val |-> v, token |-> issued'] /\ loaded' = v
    /\ mtime' = clock /\ seen' = clock
    /\ touched' = TRUE /\ missed' = FALSE /\ reverted' = FALSE
    /\ UNCHANGED <<clock, copy, play, module, faults>>

\* The configuration loop: only a larger modification time is reloaded.
Reload ==
    /\ mtime > seen
    /\ loaded' = text.val /\ seen' = mtime
    /\ UNCHANGED <<clock, issued, config, copy, play, module, faults>>

\* Slip: the new file has the time of the old one.
ReplacedKeepingTime(t) ==
    /\ text' = t /\ mtime' = mtime
    /\ touched' = TRUE /\ missed' = (clock <= seen)

\* atomic_move over a file that is there gives its attributes and the current
\* time to the new one; what utime had set does not survive it.
Replaced(t) ==
    /\ text' = t /\ mtime' = clock
    /\ touched' = TRUE /\ missed' = (clock <= seen)

-----------------------------------------------------------------------------
(***************************************************************************)
(* The module.  Preflight runs it in check mode.                           *)
(***************************************************************************)
Running == pc # "idle"
Check   == step = "preflight"

\* The task ends, and its result decides where the play goes on.
Result(r) ==
    /\ report' = r /\ pc' = "idle" /\ before' = NoText
    /\ \/ /\ Check /\ r \in {"failed", "killed"}
          /\ step' = "idle" /\ outcome' = "refused"
       \/ /\ Check /\ r \notin {"failed", "killed"}
          /\ step' = (IF r = "needs-change" THEN "tempfile" ELSE "apply")
          /\ UNCHANGED outcome
       \/ /\ ~Check
          /\ step' = (IF r \in {"failed", "killed"} THEN "rollback" ELSE "later")
          /\ UNCHANGED outcome
    /\ UNCHANGED <<orig, replay, bad>>

\* fail_json or exit_json, after the finally clause.
Exit(r) == Result(r) /\ temp' = FALSE /\ UNCHANGED <<killed, copy, runner>>

Fails == Exit("failed") /\ UNCHANGED <<config, faults>>

\* A system call fails.
Error ==
    /\ Running /\ Fault
    /\ Exit("failed")
    /\ UNCHANGED config

\* The module is killed; what it left behind stays.
Kill ==
    /\ Running /\ Fault
    /\ Result("killed") /\ killed' = TRUE
    /\ UNCHANGED <<temp, config, copy, runner>>

\* The file is opened; its owner, mode and links are those of a Runner file.
Open ==
    /\ ~Running /\ step \in {"preflight", "apply"}
    /\ pc' = "read" /\ before' = text /\ touched' = FALSE /\ report' = "none"
    /\ UNCHANGED <<text, mtime, missed, reverted, runner, copy, play, temp, killed, faults>>

\* candidate_config: only concurrent differs from what was read.
Candidate == [before EXCEPT !.val = Desired]

\* The whole file is read; then identity() is compared.
Read ==
    /\ pc = "read"
    /\ \/ touched /\ Fails
       \/ /\ ~touched
          /\ pc' = (IF before.val # Desired /\ ~Check THEN "write" ELSE "compare")
          /\ UNCHANGED <<before, report, temp, killed, config, runner, copy, play, faults>>

\* The candidate is written to a temporary file of its own.
Write ==
    /\ pc = "write"
    /\ temp' = TRUE /\ pc' = "publish"
    /\ UNCHANGED <<before, report, killed, config, runner, copy, play, faults>>

\* Slip: the file is not looked at again.
PublishBlind ==
    /\ pc = "publish"
    /\ Replaced(Candidate) /\ Exit("changed") /\ UNCHANGED <<reverted, faults>>

\* lstat and identity() once more, then atomic_move.
Publish ==
    /\ pc = "publish"
    /\ \/ touched /\ Fails
       \/ ~touched /\ Replaced(Candidate) /\ Exit("changed") /\ UNCHANGED <<reverted, faults>>

\* Slip: nothing to publish, nothing to compare.
CompareNothing ==
    /\ pc = "compare"
    /\ Exit(IF before.val = Desired THEN "ok" ELSE "needs-change")
    /\ UNCHANGED <<config, faults>>

\* Nothing is to be published, in check mode or because the value is there.
Compare ==
    /\ pc = "compare"
    /\ \/ touched /\ Fails
       \/ /\ ~touched
          /\ Exit(IF before.val = Desired THEN "ok" ELSE "needs-change")
          /\ UNCHANGED <<config, faults>>

-----------------------------------------------------------------------------
(***************************************************************************)
(* The play                                                                *)
(***************************************************************************)
At(s) == step = s /\ ~Running

GoesTo(s) == step' = s /\ UNCHANGED <<orig, replay, outcome>>

Ends(o) == step' = "idle" /\ outcome' = o /\ UNCHANGED <<orig, replay>>

\* The play's own rescue begins.
Rescued == step' = "rollback" /\ replay' = TRUE /\ UNCHANGED <<orig, outcome, bad>>

\* The file is inspected.  What earlier plays left has names of its own.
PlayStart ==
    /\ At("idle")
    /\ step' = "preflight" /\ orig' = text
    /\ replay' = FALSE /\ bad' = FALSE /\ outcome' = "none"
    /\ backup' = "none" /\ saved' = NoText /\ ready' = FALSE
    /\ temp' = FALSE /\ killed' = FALSE
    /\ UNCHANGED <<config, runner, pc, before, report, faults>>

\* A file is removed; a failing task may have removed it.
Removed       == backup' = "none" /\ UNCHANGED <<saved, ready>>
RemovalFailed == backup' \in {backup, "none"} /\ UNCHANGED <<saved, ready>>

\* Drift was found: the backup gets a name (a task that fails leaves nothing with
\* a token in it) ...
Tempfile ==
    /\ At("tempfile")
    /\ backup' = "empty" /\ GoesTo("copy")
    /\ UNCHANGED <<bad, saved, ready, config, runner, module, faults>>

\* ... and the text; a failed copy may be there, but is not ready.
CopyBackup ==
    /\ At("copy")
    /\ \/ /\ backup' = "full" /\ saved' = text /\ ready' = TRUE
          /\ GoesTo("apply") /\ UNCHANGED faults
       \/ /\ Fault /\ GoesTo("discard") /\ UNCHANGED ready
          /\ \/ backup' = "full" /\ saved' = text
             \/ UNCHANGED <<backup, saved>>
    /\ UNCHANGED <<bad, config, runner, module>>

\* The incomplete backup is removed and the role fails.
Discard ==
    /\ At("discard")
    /\ \/ Removed /\ UNCHANGED faults
       \/ Fault /\ RemovalFailed
    /\ Rescued
    /\ UNCHANGED <<config, runner, module>>

\* A task outside the role's own block and rescue fails, before it or after it.
TaskFails ==
    /\ At("tempfile") \/ (At("apply") /\ ~ready) \/ At("later")
    /\ Fault /\ Rescued
    /\ UNCHANGED <<copy, config, runner, module>>

\* Quadlet, service and handlers.
Later ==
    /\ At("later")
    /\ GoesTo("finish")
    /\ UNCHANGED <<bad, copy, config, runner, module, faults>>

\* The deferred removal of the backup ends the play.
Finish ==
    /\ At("finish")
    /\ \/ ~ready /\ Ends("ok") /\ UNCHANGED <<bad, copy, faults>>
       \/ ready /\ Removed /\ Ends("ok") /\ UNCHANGED <<bad, faults>>
       \/ ready /\ Fault /\ RemovalFailed /\ Rescued
    /\ UNCHANGED <<config, runner, module>>

-----------------------------------------------------------------------------
(***************************************************************************)
(* tasks/rollback.yml: in the rescue of the role, and in that of the play  *)
(* unless the first was complete                                           *)
(***************************************************************************)

\* A backup that was not ready is removed.
Rollback ==
    /\ At("rollback")
    /\ GoesTo("restore")
    /\ \/ ready /\ bad' = FALSE /\ UNCHANGED <<copy, faults>>
       \/ ~ready /\ Removed /\ bad' = FALSE /\ UNCHANGED faults
       \/ ~ready /\ backup # "none" /\ Fault /\ RemovalFailed /\ bad' = TRUE
    /\ UNCHANGED <<config, runner, module>>

\* The backup is copied back over whatever is there, if that differs.
PutBack ==
    \/ text = saved /\ UNCHANGED config
    \/ /\ text # saved /\ Replaced(saved)
       /\ reverted' = (reverted \/ text.token # saved.token)

Restore ==
    /\ At("restore")
    /\ \/ ~ready /\ GoesTo("services") /\ UNCHANGED <<bad, config, faults>>
       \/ /\ ready /\ backup = "full"
          /\ PutBack /\ GoesTo("verify") /\ UNCHANGED <<bad, faults>>
       \/ /\ ready /\ backup # "full"
          /\ GoesTo("services") /\ bad' = TRUE /\ UNCHANGED <<config, faults>>
       \/ /\ ready /\ Fault
          /\ GoesTo("services") /\ bad' = TRUE
          /\ UNCHANGED config \/ (backup = "full" /\ PutBack)
    /\ UNCHANGED <<copy, runner, module>>

\* What is there must have the checksum of preflight.
Verify ==
    /\ At("verify")
    /\ GoesTo("services")
    /\ bad' = (bad \/ text # orig)
    /\ UNCHANGED <<copy, config, runner, module, faults>>

\* CA, Quadlet, systemd, socket and service.
Services ==
    /\ At("services")
    /\ GoesTo("drop")
    /\ \/ UNCHANGED <<bad, faults>>
       \/ Fault /\ bad' = TRUE
    /\ UNCHANGED <<copy, config, runner, module>>

\* A complete rollback removes the backup and is the last one; an incomplete one
\* keeps it.
Drop ==
    /\ At("drop")
    /\ \/ /\ ~bad
          /\ IF ready THEN Removed ELSE UNCHANGED copy
          /\ Ends("restored") /\ UNCHANGED <<bad, faults>>
       \/ /\ \/ bad /\ UNCHANGED <<copy, faults>>
             \/ ~bad /\ ready /\ Fault /\ RemovalFailed
          /\ \/ ~replay /\ Rescued
             \/ replay /\ Ends("incomplete") /\ UNCHANGED bad
    /\ UNCHANGED <<config, runner, module>>

\* The controller goes away between two tasks.
Lost ==
    /\ ~Running /\ step # "idle"
    /\ Fault
    /\ Ends("lost")
    /\ UNCHANGED <<bad, copy, config, runner, module>>

-----------------------------------------------------------------------------
Init ==
    /\ text \in [val : Values, token : {0}] /\ mtime \in 0..MaxClock
    /\ clock = 0 /\ issued = 0 /\ loaded = text.val /\ seen = mtime
    /\ step = "idle" /\ orig = NoText /\ replay = FALSE /\ bad = FALSE
    /\ outcome = "none"
    /\ backup = "none" /\ saved = NoText /\ ready = FALSE
    /\ pc = "idle" /\ before = NoText /\ report = "none" /\ touched = FALSE
    /\ temp = FALSE /\ killed = FALSE /\ reverted = FALSE /\ missed = FALSE
    /\ faults = 0

Module == Open \/ Read \/ Write \/ Publish \/ Compare

Play ==
    \/ Tempfile \/ CopyBackup \/ Discard \/ Later \/ Finish
    \/ Rollback \/ Restore \/ Verify \/ Services \/ Drop

Next ==
    \/ Tick \/ Rotate \/ Reload
    \/ Module \/ Error \/ Kill
    \/ PlayStart \/ Play \/ TaskFails \/ Lost

Spec == Init /\ [][Next]_vars

\* The Runner keeps looking at its file, plays and module runs go on to their
\* end, and the play is run again and again.
FairSpec == Spec /\ WF_vars(Reload) /\ WF_vars(Module \/ Play) /\ WF_vars(PlayStart)
-----------------------------------------------------------------------------
Texts == [val : Values, token : 0..MaxWrites]

\* Every variable has its type; a step under way has the text it works on.
TypeOK ==
    /\ text \in Texts /\ mtime \in 0..MaxClock
    /\ clock \in 0..MaxClock /\ issued \in 0..MaxWrites
    /\ loaded \in Values /\ seen \in 0..MaxClock
    /\ step \in {"idle", "preflight", "tempfile", "copy", "discard", "apply", "later", "finish",
                 "rollback", "restore", "verify", "services", "drop"}
    /\ orig \in Texts \cup {NoText} /\ before \in Texts \cup {NoText}
    /\ backup \in {"none", "empty", "full"} /\ saved \in Texts \cup {NoText}
    /\ outcome \in {"none", "refused", "ok", "restored", "incomplete", "lost"}
    /\ pc \in {"idle", "read", "write", "publish", "compare"}
    /\ report \in {"none", "failed", "killed", "changed", "ok", "needs-change"}
    /\ \A b \in {replay, bad, ready, touched, temp, killed, reverted, missed} : b \in BOOLEAN
    /\ faults \in 0..MaxFaults

(***************************************************************************)
(* Properties                                                              *)
(***************************************************************************)

\* The file holds the token GitLab accepts: publishing what was read before a
\* rotation never undoes it.  Only a rollback does, whose backup is older than
\* the rotation.
NoRotationLost == text.token = issued \/ reverted

\* A copy of the token stays behind only of a module run that was killed, or of
\* a play that lost its controller or says that its rollback was incomplete.
CopiesAccounted ==
    step = "idle" => /\ temp => killed
                     /\ backup # "none" => outcome \in {"lost", "incomplete"}

\* The token is safe: nothing but a rollback brings an old one back, and a copy
\* that is left behind was left by a kill or a failure that was reported.
TokenSafe == NoRotationLost /\ CopiesAccounted

\* What a run reports of the value is so when it reports it.
ReportTrue ==
    [][report' # report =>
          /\ report' \in {"changed", "ok"} => text'.val = Desired
          /\ report' = "needs-change" => text'.val # Desired /\ text' = text]_vars

\* Running the play again and again brings the file to the desired value for
\* good, through failures, kills, rollbacks and rotations, and the Runner too,
\* unless the clock stood behind the time of what it had read before.
Converges == <>[](text.val = Desired /\ (loaded = Desired \/ missed))
=============================================================================
