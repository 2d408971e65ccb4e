---------------------------- MODULE RunnerProofs ----------------------------
(* Proofs about RunnerConcurrency, for every value of its constants. *)
EXTENDS RunnerConcurrency, TLAPS

(***************************************************************************)
(* The inductive invariant.  RunFacts: what a module run knows of the file *)
(* it has read, as long as nobody touched that.  CopyFacts: which step may *)
(* find a copy of the token, and that what is not ready is cleaned up      *)
(* before anybody calls the rollback complete.                             *)
(***************************************************************************)
Steps == {"idle", "preflight", "tempfile", "copy", "discard", "apply", "later", "finish",
          "rollback", "restore", "verify", "services", "drop"}

HostTypes ==
    /\ text \in Texts /\ mtime \in 0..MaxClock
    /\ clock \in 0..MaxClock /\ issued \in 0..MaxWrites
    /\ loaded \in Values /\ seen \in 0..MaxClock
    /\ faults \in 0..MaxFaults

PlayTypes ==
    /\ step \in Steps /\ orig \in Texts \cup {NoText}
    /\ backup \in {"none", "empty", "full"} /\ saved \in Texts \cup {NoText}
    /\ outcome \in {"none", "refused", "ok", "restored", "incomplete", "lost"}

RunTypes ==
    /\ pc \in {"idle", "read", "write", "publish", "compare"}
    /\ before \in Texts \cup {NoText}
    /\ report \in {"none", "failed", "killed", "changed", "ok", "needs-change"}

Flags ==
    /\ replay \in BOOLEAN /\ bad \in BOOLEAN /\ ready \in BOOLEAN /\ touched \in BOOLEAN
    /\ temp \in BOOLEAN /\ killed \in BOOLEAN /\ reverted \in BOOLEAN /\ missed \in BOOLEAN

RunFacts ==
    pc # "idle" => /\ step \in {"preflight", "apply"} /\ before \in Texts
                   /\ touched \/ before = text

TempFacts == temp => killed \/ pc = "publish"

CopyFacts ==
    /\ step \in {"preflight", "tempfile", "copy", "discard"} => ~ready
    /\ step \in {"preflight", "tempfile"} => backup = "none"
    /\ step \in {"apply", "later", "finish"} => ready \/ backup = "none"
    /\ step = "verify" => ready
    /\ step \in {"restore", "services", "drop"} => ready \/ bad \/ backup = "none"
    /\ step = "idle" => backup = "none" \/ outcome \in {"lost", "incomplete"}
    /\ backup = "full" => saved \in Texts

IInv ==
    /\ HostTypes /\ PlayTypes /\ RunTypes /\ Flags
    /\ RunFacts /\ TempFacts /\ CopyFacts /\ NoRotationLost

-----------------------------------------------------------------------------
LEMMA InitIInv == Init => IInv
<1> SUFFICES ASSUME Init PROVE IInv
  OBVIOUS
<1>1. HostTypes
  BY RunnerAssumption DEF Init, HostTypes, Texts
<1>2. PlayTypes /\ RunTypes
  BY DEF Init, PlayTypes, RunTypes, Steps
<1>3. Flags /\ TempFacts
  BY DEF Init, Flags, TempFacts
<1>4. RunFacts /\ CopyFacts /\ NoRotationLost
  BY DEF Init, RunFacts, CopyFacts, NoRotationLost
<1> QED  BY <1>1, <1>2, <1>3, <1>4 DEF IInv

-----------------------------------------------------------------------------
(***************************************************************************)
(* The Runner.                                                             *)
(***************************************************************************)
LEMMA OutsideKeepsIInv == IInv /\ (Tick \/ Rotate \/ Reload) => IInv'
<1> SUFFICES ASSUME IInv, Tick \/ Rotate \/ Reload PROVE IInv'
  OBVIOUS
<1> USE RunnerAssumption DEF IInv
<1>1. UNCHANGED <<copy, play, module, faults>>
  BY DEF Tick, Rotate, Reload
<1>2. PlayTypes' /\ RunTypes' /\ CopyFacts'
  BY <1>1 DEF PlayTypes, RunTypes, CopyFacts, copy, play, module
<1>3. Flags' /\ TempFacts'
  BY <1>1 DEF Tick, Rotate, Reload, Flags, TempFacts, copy, play, module, config
<1>4. HostTypes' /\ RunFacts' /\ NoRotationLost'
  <2>1. CASE Tick \/ Reload
    BY <1>1, <2>1 DEF Tick, Reload, HostTypes, RunFacts, NoRotationLost, Texts,
                      config, play, module
  <2>2. CASE Rotate
    BY <1>1, <2>2 DEF Rotate, HostTypes, RunFacts, NoRotationLost, Texts, play, module
  <2> QED  BY <2>1, <2>2
<1> QED  BY <1>2, <1>3, <1>4

-----------------------------------------------------------------------------
(***************************************************************************)
(* The module run.                                                         *)
(***************************************************************************)

\* However the task ends, the play goes on from its result.
LEMMA ResultKeeps ==
  ASSUME IInv, Running, NEW r \in {"failed", "killed", "changed", "ok", "needs-change"},
         Result(r), UNCHANGED copy
  PROVE  PlayTypes' /\ RunTypes' /\ RunFacts' /\ CopyFacts' /\ UNCHANGED <<replay, bad, ready>>
<1> USE DEF IInv, Running, Result, Check, copy
<1>1. PlayTypes' /\ RunTypes'
  BY DEF PlayTypes, RunTypes, Steps
<1>2. RunFacts'
  BY DEF RunFacts
<1>3. CopyFacts'
  BY DEF RunFacts, CopyFacts
<1> QED  BY <1>1, <1>2, <1>3

LEMMA ExitKeeps ==
  ASSUME IInv, Running, NEW r \in {"failed", "changed", "ok", "needs-change"}, Exit(r),
         UNCHANGED config, faults' \in 0..MaxFaults
  PROVE  IInv'
<1> USE DEF IInv, Exit
<1>1. PlayTypes' /\ RunTypes' /\ RunFacts' /\ CopyFacts' /\ UNCHANGED <<replay, bad, ready>>
  BY ResultKeeps
<1>2. HostTypes' /\ NoRotationLost'
  BY DEF HostTypes, NoRotationLost, config, runner
<1>3. Flags' /\ TempFacts'
  BY <1>1 DEF Flags, TempFacts, config
<1> QED  BY <1>1, <1>2, <1>3

LEMMA FailsKeeps == IInv /\ Running /\ Fails => IInv'
  BY ExitKeeps DEF Fails, IInv, HostTypes

LEMMA ErrorKeepsIInv == IInv /\ (Error \/ Kill) => IInv'
<1> SUFFICES ASSUME IInv, Error \/ Kill PROVE IInv'
  OBVIOUS
<1>1. faults' \in 0..MaxFaults
  BY RunnerAssumption DEF Error, Kill, Fault, IInv, HostTypes
<1>2. CASE Error
  BY <1>1, <1>2, ExitKeeps DEF Error
<1>3. CASE Kill
  <2> USE DEF IInv, Kill
  <2>1. PlayTypes' /\ RunTypes' /\ RunFacts' /\ CopyFacts' /\ UNCHANGED <<replay, bad, ready>>
    BY <1>3, ResultKeeps
  <2>2. HostTypes' /\ NoRotationLost'
    BY <1>1, <1>3 DEF HostTypes, NoRotationLost, config, runner
  <2>3. Flags' /\ TempFacts'
    BY <1>3, <2>1 DEF Flags, TempFacts, config
  <2> QED  BY <2>1, <2>2, <2>3
<1> QED  BY <1>2, <1>3

\* A step inside the run.
LEMMA OpenKeepsIInv == IInv /\ (Open \/ Write) => IInv'
<1> SUFFICES ASSUME IInv, Open \/ Write PROVE IInv'
  OBVIOUS
<1> USE DEF IInv
<1>1. UNCHANGED <<text, mtime, missed, reverted, runner, copy, play, killed, faults>>
  BY DEF Open, Write, config
<1>2. HostTypes' /\ PlayTypes' /\ CopyFacts' /\ NoRotationLost'
  BY <1>1 DEF HostTypes, PlayTypes, CopyFacts, NoRotationLost, runner, copy, play
<1>3. RunTypes'
  BY DEF Open, Write, RunTypes, HostTypes
<1>4. RunFacts'
  BY <1>1 DEF Open, Write, RunFacts, HostTypes, Running, play, config
<1>5. /\ touched' \in {touched, FALSE} /\ temp' \in {temp, TRUE}
      /\ temp' = temp \/ pc' = "publish"
      /\ temp' = temp => pc # "publish"
      /\ UNCHANGED <<replay, bad, ready, killed, reverted, missed>>
  BY <1>1 DEF Open, Write, Running, play, copy, config
<1>6. Flags'
  BY <1>5 DEF Flags
<1>7. TempFacts'
  BY <1>5 DEF TempFacts
<1> QED  BY <1>2, <1>3, <1>4, <1>6, <1>7

LEMMA ReadKeepsIInv == IInv /\ (Read \/ Compare) => IInv'
<1> SUFFICES ASSUME IInv, Read \/ Compare PROVE IInv'
  OBVIOUS
<1>1. Running
  BY DEF Read, Compare, Running
<1>2. CASE Fails
  BY <1>1, <1>2, FailsKeeps
<1>3. CASE Read /\ ~Fails
  <2> USE DEF IInv
  <2>1. /\ pc' \in {"write", "compare"} /\ pc = "read"
        /\ UNCHANGED <<before, report, temp, killed, config, runner, copy, play, faults>>
    BY <1>3 DEF Read
  <2>2. HostTypes' /\ PlayTypes' /\ RunTypes' /\ RunFacts' /\ CopyFacts' /\ NoRotationLost'
    BY <2>1 DEF HostTypes, PlayTypes, RunTypes, RunFacts, CopyFacts, NoRotationLost,
                config, runner, copy, play
  <2>3. Flags' /\ TempFacts'
    BY <2>1 DEF Flags, TempFacts, config, copy, play
  <2> QED  BY <2>2, <2>3
<1>4. CASE Compare /\ ~Fails
  <2>1. Exit(IF before.val = Desired THEN "ok" ELSE "needs-change") /\ UNCHANGED <<config, faults>>
    BY <1>4 DEF Compare
  <2> QED  BY <1>1, <2>1, ExitKeeps DEF IInv, HostTypes
<1> QED  BY <1>2, <1>3, <1>4

LEMMA PublishKeepsIInv == IInv /\ Publish => IInv'
<1> SUFFICES ASSUME IInv, Publish PROVE IInv'
  OBVIOUS
<1>1. Running
  BY DEF Publish, Running
<1>2. CASE Fails
  BY <1>1, <1>2, FailsKeeps
<1>3. CASE ~Fails
  <2> USE RunnerAssumption DEF IInv
  <2>1. /\ ~touched /\ Replaced(Candidate) /\ Exit("changed") /\ UNCHANGED <<reverted, faults>>
    BY <1>3 DEF Publish
  <2>2. before = text
    BY <1>1, <2>1 DEF RunFacts, Running
  <2>3. text' \in Texts /\ text'.token = text.token
    BY <2>1, <2>2 DEF Replaced, Candidate, HostTypes, Texts
  <2>4. UNCHANGED <<killed, copy, runner>> /\ Result("changed")
    BY <2>1 DEF Exit
  <2>5. PlayTypes' /\ RunTypes' /\ RunFacts' /\ CopyFacts' /\ UNCHANGED <<replay, bad, ready>>
    BY <1>1, <2>4, ResultKeeps
  <2>6. HostTypes' /\ NoRotationLost'
    BY <2>1, <2>3, <2>4 DEF HostTypes, NoRotationLost, Replaced, runner
  <2>7. missed' \in BOOLEAN
    BY <2>1 DEF Replaced
  <2>8. touched' = TRUE /\ temp' = FALSE /\ UNCHANGED <<killed, reverted, replay, bad, ready>>
    BY <2>1, <2>4, <2>5 DEF Replaced, Exit
  <2>9. Flags' /\ TempFacts'
    BY <2>7, <2>8 DEF Flags, TempFacts
  <2> QED  BY <2>5, <2>6, <2>9
<1> QED  BY <1>2, <1>3

-----------------------------------------------------------------------------
(***************************************************************************)
(* The play.                                                               *)
(***************************************************************************)

\* A task that leaves config.toml and the module alone.
LEMMA TaskKeeps ==
  ASSUME IInv, ~Running, UNCHANGED <<config, runner, pc, before, report>>, faults' \in 0..MaxFaults
  PROVE  HostTypes' /\ RunTypes' /\ RunFacts' /\ NoRotationLost'
  BY DEF IInv, HostTypes, RunTypes, RunFacts, NoRotationLost, config, runner, Running

LEMMA PlayStartKeepsIInv == IInv /\ PlayStart => IInv'
<1> SUFFICES ASSUME IInv, PlayStart PROVE IInv'
  OBVIOUS
<1>1. HostTypes' /\ RunTypes' /\ RunFacts' /\ NoRotationLost'
  BY TaskKeeps DEF PlayStart, At, IInv, HostTypes
<1>2. PlayTypes'
  BY DEF PlayStart, PlayTypes, IInv, HostTypes, Steps
<1>3. CopyFacts'
  BY DEF PlayStart, CopyFacts
<1>4. Flags' /\ TempFacts'
  BY DEF PlayStart, IInv, Flags, TempFacts, config
<1> QED  BY <1>1, <1>2, <1>3, <1>4 DEF IInv

\* What every other task has in common.
IsTask == /\ ~Running /\ UNCHANGED <<runner, module>> /\ faults' \in 0..MaxFaults

LEMMA PlayIsTask ==
  ASSUME IInv, Play \/ TaskFails \/ Lost
  PROVE  IsTask /\ UNCHANGED orig
<1>1. ~Running /\ UNCHANGED <<runner, module>>
  BY DEF Play, TaskFails, Lost, Tempfile, CopyBackup, Discard, Later, Finish,
         Rollback, Restore, Verify, Services, Drop, At
<1>2. Fault \/ UNCHANGED faults
  BY DEF Play, TaskFails, Lost, Tempfile, CopyBackup, Discard, Later, Finish,
         Rollback, Restore, Verify, Services, Drop
<1>3. faults' \in 0..MaxFaults
  BY <1>2, RunnerAssumption DEF IInv, HostTypes, Fault
<1>4. UNCHANGED orig
  BY DEF Play, TaskFails, Lost, Tempfile, CopyBackup, Discard, Later, Finish,
         Rollback, Restore, Verify, Services, Drop, GoesTo, Ends, Rescued
<1> QED  BY <1>1, <1>3, <1>4 DEF IsTask

\* The backup is made, and removed again if that fails.
LEMMA BackupKeepsIInv ==
  ASSUME IInv, Tempfile \/ CopyBackup \/ Discard \/ TaskFails \/ Later \/ Finish \/ Lost
  PROVE  IInv'
<1> USE DEF IInv
<1>1. IsTask /\ UNCHANGED config /\ UNCHANGED orig
  BY PlayIsTask DEF Play, Tempfile, CopyBackup, Discard, TaskFails, Later, Finish, Lost
<1>2. HostTypes' /\ RunTypes' /\ RunFacts' /\ NoRotationLost'
  BY <1>1, TaskKeeps DEF IsTask, module
<1>3. PlayTypes'
  BY <1>1 DEF Tempfile, CopyBackup, Discard, TaskFails, Later, Finish, Lost, At, GoesTo, Ends,
              Rescued, Removed, RemovalFailed, PlayTypes, HostTypes, Steps, copy
<1>4. Flags' /\ TempFacts'
  BY <1>1 DEF Tempfile, CopyBackup, Discard, TaskFails, Later, Finish, Lost, GoesTo, Ends,
              Rescued, Removed, RemovalFailed, IsTask, Flags, TempFacts, copy, config, module
<1>5. CopyFacts'
  <2>1. CASE Tempfile
    BY <2>1 DEF Tempfile, At, GoesTo, CopyFacts
  <2>2. CASE CopyBackup
    BY <2>2 DEF CopyBackup, At, GoesTo, CopyFacts, HostTypes
  <2>3. CASE Discard
    BY <2>3 DEF Discard, At, Rescued, Removed, RemovalFailed, CopyFacts
  <2>4. CASE TaskFails
    BY <2>4 DEF TaskFails, At, Rescued, copy, CopyFacts
  <2>5. CASE Later
    BY <2>5 DEF Later, At, GoesTo, copy, CopyFacts
  <2>6. CASE Finish
    BY <2>6 DEF Finish, At, Ends, Rescued, Removed, RemovalFailed, copy, CopyFacts
  <2>7. CASE Lost
    BY <2>7 DEF Lost, Ends, copy, CopyFacts
  <2> QED  BY <2>1, <2>2, <2>3, <2>4, <2>5, <2>6, <2>7
<1> QED  BY <1>2, <1>3, <1>4, <1>5

\* The steps of the rollback that do not write the file.
LEMMA RollbackKeepsIInv ==
  ASSUME IInv, Rollback \/ Verify \/ Services \/ Drop
  PROVE  IInv'
<1> USE DEF IInv
<1>1. IsTask /\ UNCHANGED config /\ UNCHANGED orig
  BY PlayIsTask DEF Play, Rollback, Verify, Services, Drop
<1>2. HostTypes' /\ RunTypes' /\ RunFacts' /\ NoRotationLost'
  BY <1>1, TaskKeeps DEF IsTask, module
<1>3. PlayTypes'
  BY <1>1 DEF Rollback, Verify, Services, Drop, At, GoesTo, Ends, Rescued, Removed, RemovalFailed,
              PlayTypes, Steps, copy
<1>4. Flags' /\ TempFacts'
  BY <1>1 DEF Rollback, Verify, Services, Drop, GoesTo, Ends, Rescued, Removed, RemovalFailed,
              IsTask, Flags, TempFacts, copy, config, module
<1>5. CopyFacts'
  <2>1. CASE Rollback
    BY <2>1 DEF Rollback, At, GoesTo, Removed, RemovalFailed, copy, CopyFacts
  <2>2. CASE Verify
    BY <2>2 DEF Verify, At, GoesTo, copy, CopyFacts
  <2>3. CASE Services
    BY <2>3 DEF Services, At, GoesTo, copy, CopyFacts
  <2>4. CASE Drop
    BY <2>4 DEF Drop, At, Ends, Rescued, Removed, RemovalFailed, copy, CopyFacts
  <2> QED  BY <2>1, <2>2, <2>3, <2>4
<1> QED  BY <1>2, <1>3, <1>4, <1>5

\* The restore is the only step that may undo a rotation, and then it says so.
LEMMA RestoreKeepsIInv == IInv /\ Restore => IInv'
<1> SUFFICES ASSUME IInv, Restore PROVE IInv'
  OBVIOUS
<1> USE RunnerAssumption DEF IInv
<1>1. IsTask /\ UNCHANGED orig
  BY PlayIsTask DEF Play
<1>2. UNCHANGED config \/ (backup = "full" /\ PutBack)
  BY DEF Restore
<1>3. /\ text' \in Texts /\ mtime' \in 0..MaxClock
      /\ missed' \in BOOLEAN /\ touched' \in BOOLEAN /\ reverted' \in BOOLEAN
      /\ NoRotationLost'
  <2>1. CASE UNCHANGED config
    BY <1>1, <2>1 DEF IsTask, runner, config, HostTypes, Flags, NoRotationLost
  <2>2. CASE backup = "full" /\ PutBack /\ ~UNCHANGED config
    <3>1. /\ text' = saved /\ mtime' = clock /\ touched' = TRUE /\ missed' = (clock <= seen)
          /\ reverted' = (reverted \/ text.token # saved.token)
      BY <2>2 DEF PutBack, Replaced
    <3>2. saved \in Texts
      BY <2>2 DEF CopyFacts
    <3>3. NoRotationLost'
      BY <1>1, <3>1 DEF IsTask, runner, NoRotationLost
    <3> QED  BY <3>1, <3>2, <3>3 DEF HostTypes, Flags
  <2> QED  BY <1>2, <2>1, <2>2
<1>4. HostTypes' /\ RunTypes' /\ RunFacts'
  BY <1>1, <1>3 DEF IsTask, HostTypes, RunTypes, RunFacts, runner, module, Running
<1>5. PlayTypes'
  BY <1>1 DEF Restore, At, GoesTo, PlayTypes, Steps, copy
<1>6. UNCHANGED <<replay, ready, temp, killed, pc>> /\ bad' \in {bad, TRUE}
  BY <1>1 DEF Restore, GoesTo, IsTask, copy, module
<1>7. Flags' /\ TempFacts'
  <2>1. bad' \in BOOLEAN
    BY <1>6 DEF Flags
  <2>2. TempFacts'
    BY <1>6 DEF TempFacts
  <2> QED  BY <1>3, <1>6, <2>1, <2>2 DEF Flags
<1>8. CopyFacts'
  BY DEF Restore, At, GoesTo, copy, CopyFacts
<1> QED  BY <1>3, <1>4, <1>5, <1>7, <1>8

LEMMA NextIInv == IInv /\ [Next]_vars => IInv'
<1> SUFFICES ASSUME IInv, [Next]_vars PROVE IInv'
  OBVIOUS
<1>1. CASE UNCHANGED vars
  <2> USE <1>1 DEF IInv, vars, runner, config, copy, play, module
  <2>1. HostTypes' /\ PlayTypes' /\ RunTypes' /\ NoRotationLost'
    BY DEF HostTypes, PlayTypes, RunTypes, NoRotationLost
  <2>2. Flags' /\ TempFacts'
    BY DEF Flags, TempFacts
  <2>3. RunFacts' /\ CopyFacts'
    BY DEF RunFacts, CopyFacts
  <2> QED  BY <2>1, <2>2, <2>3
<1>2. CASE Next
  BY <1>2, OutsideKeepsIInv, ErrorKeepsIInv, OpenKeepsIInv, ReadKeepsIInv, PublishKeepsIInv,
     PlayStartKeepsIInv, BackupKeepsIInv, RollbackKeepsIInv, RestoreKeepsIInv
     DEF Next, Module, Play
<1> QED  BY <1>1, <1>2

LEMMA IInvHolds == Spec => []IInv
  BY InitIInv, NextIInv, PTL DEF Spec

-----------------------------------------------------------------------------
\* Every variable keeps its type for any clock, any number of rotations and
\* any number of failures.
THEOREM RunnerTypeCorrect == Spec => []TypeOK
<1>1. IInv => TypeOK
  <2> SUFFICES ASSUME IInv PROVE TypeOK
    OBVIOUS
  <2>1. \A b \in {replay, bad, ready, touched, temp, killed, reverted, missed} : b \in BOOLEAN
    BY DEF IInv, Flags
  <2> QED
    BY <2>1 DEF IInv, HostTypes, PlayTypes, RunTypes, Steps, TypeOK
<1> QED  BY <1>1, IInvHolds, PTL

\* Whatever the Runner writes between the read and the replacement of its
\* configuration, the module keeps the last token; a rollback with an older
\* backup is the only way back.  And however a play ends, it removes its copies,
\* unless it was killed or says that its rollback was incomplete.
THEOREM RunnerTokenSafe == Spec => []TokenSafe
<1>1. IInv => TokenSafe
  BY DEF IInv, TempFacts, RunFacts, CopyFacts, CopiesAccounted, TokenSafe
<1> QED  BY <1>1, IInvHolds, PTL

\* A run that reports the desired value, or that it would have to change it,
\* reports what the file holds at that moment.
THEOREM RunnerReportsTruly == Spec => ReportTrue
<1> DEFINE Truly ==
        report' # report =>
          /\ report' \in {"changed", "ok"} => text'.val = Desired
          /\ report' = "needs-change" => text'.val # Desired /\ text' = text
<1>1. IInv /\ [Next]_vars => [Truly]_vars
  <2> SUFFICES ASSUME IInv, Next PROVE Truly
    OBVIOUS
  <2>1. CASE Publish
    <3>1. CASE Fails
      BY <3>1 DEF Fails, Exit, Result
    <3>2. CASE ~Fails
      <4>1. /\ Exit("changed") /\ pc = "publish" /\ text' = Candidate
        BY <2>1, <3>2 DEF Publish, Replaced
      <4>2. before \in Texts
        BY <4>1 DEF IInv, RunFacts
      <4>3. text'.val = Desired
        BY <4>1, <4>2 DEF Candidate, Texts
      <4> QED  BY <4>1, <4>3 DEF Exit, Result
    <3> QED  BY <3>1, <3>2
  <2>2. CASE Compare
    BY <2>2 DEF Compare, Fails, Exit, Result, config, IInv, RunFacts
  <2>3. CASE Tick \/ Rotate \/ Reload \/ Write
    BY <2>3 DEF Tick, Rotate, Reload, Write, module
  <2>4. CASE Read
    BY <2>4 DEF Read, Fails, Exit, Result
  <2>5. CASE Error \/ Kill
    BY <2>5 DEF Error, Kill, Exit, Result
  <2>6. CASE Open
    BY <2>6 DEF Open
  <2>7. CASE PlayStart \/ Play \/ TaskFails \/ Lost
    BY <2>7, PlayIsTask DEF PlayStart, IsTask, module
  <2> QED
    BY <2>1, <2>2, <2>3, <2>4, <2>5, <2>6, <2>7 DEF Next, Module
<1> QED  BY <1>1, IInvHolds, PTL DEF Spec, ReportTrue
=============================================================================
