--------------------------- MODULE RequestProofs ---------------------------
(* Proofs about RequestPublication, for every value of its constants. *)
EXTENDS RequestPublication, TLAPS

(***************************************************************************)
(* The inductive invariant.  FileFacts: what the journal says about the    *)
(* pending root, whoever was killed.  StepFacts: what the process under    *)
(* the flock knows at each of its steps.                                   *)
(***************************************************************************)
FileTypes ==
    /\ journal \in [st : {"absent", "torn", "valid"}, rid : Sel]
    /\ stage \in [Requests -> (SUBSET AllFiles) \cup {NoDir}]
    /\ pending \in [Requests -> (SUBSET AllFiles) \cup {NoDir}]
    /\ hollow \in BOOLEAN
    /\ bound \in [Requests -> Sel] /\ fresh \subseteq Requests
    /\ active \in Sel /\ activating \in Sel
    /\ outcome \in [Requests -> {"open", "complete", "failed"}]

ProcTypes ==
    /\ crashes \in Nat
    /\ lock \in Procs \cup {None}
    /\ pc \in [Procs -> LockedSteps \cup {"idle"}]
    /\ check \in [Procs -> BOOLEAN]
    /\ rid \in [Procs -> Sel]
    /\ todo \in [Procs -> SUBSET AllFiles]
    /\ \A p \in Procs : pc[p] \in LockedSteps <=> lock = p

OpenRequest(r) == Exists(pending[r]) /\ outcome[r] = "open"

FileFacts ==
    /\ \A r \in Requests : Exists(stage[r]) => journal.st = "valid" /\ journal.rid = r
    /\ \A r \in Requests : Exists(pending[r]) => pending[r] = Files
    /\ \A r \in Requests : OpenRequest(r) => bound[r] = active
    /\ \A r, s \in Requests : OpenRequest(r) /\ OpenRequest(s) => r = s
    /\ journal.st = "valid" => journal.rid \in Requests
    /\ journal.st # "absent" => activating = None
    /\ activating # None => OpenRequest(activating)
    /\ lock # None => activating = None

Creating(p) ==
    /\ journal.st = "valid" /\ journal.rid = rid[p] /\ rid[p] \in Requests
    /\ ~Exists(pending[rid[p]])
    /\ \A r \in Requests : ~OpenRequest(r)

StepFacts ==
    \A p \in Procs :
        /\ pc[p] = "unstage" => /\ journal.st = "valid"
                                /\ Exists(stage[journal.rid])
                                /\ ~Exists(pending[journal.rid])
        /\ pc[p] = "unlink" => journal.st = "valid" /\ ~Exists(stage[journal.rid])
        /\ pc[p] = "inspect" => journal.st = "absent"
        /\ pc[p] = "journal" => /\ journal.st = "absent"
                                /\ rid[p] \in Requests /\ ~Exists(pending[rid[p]])
                                /\ \A r \in Requests : ~OpenRequest(r)
        /\ pc[p] = "mkdir" => Creating(p)
        /\ pc[p] = "fill" => Creating(p) /\ Exists(stage[rid[p]])
        /\ pc[p] \in {"strip", "publish"} =>
             /\ Creating(p) /\ Exists(stage[rid[p]])
             /\ bound[rid[p]] = active
        /\ pc[p] \in {"verify", "unlink-created"} =>
             /\ journal.st = "valid" /\ journal.rid = rid[p] /\ rid[p] \in Requests
             /\ ~Exists(stage[rid[p]])

IInv == FileTypes /\ ProcTypes /\ FileFacts /\ StepFacts

\* The sets of the specification, by their members.
LEMMA OpenMembers ==
    /\ \A r \in Requests : r \in Open <=> OpenRequest(r)
    /\ \A r \in Requests : r \in Published <=> Exists(pending[r])
    /\ \A r \in Requests : r \in Staged <=> Exists(stage[r])
    /\ Open \subseteq Requests /\ Published \subseteq Requests
BY DEF Open, Published, OpenRequest, Staged

\* A directory is not its own absence.
LEMMA DirsExist == Exists(Files) /\ \A d \in SUBSET AllFiles : Exists(d)
BY RequestAssumption DEF Exists, NoDir, AllFiles

LEMMA InitIInv == Init => IInv
<1> SUFFICES ASSUME Init PROVE IInv
  OBVIOUS
<1>1. FileTypes
  BY DEF Init, FileTypes, NoJournal, Sel
<1>2. ProcTypes
  BY RequestAssumption DEF Init, ProcTypes, LockedSteps, Sel
<1>3. FileFacts
  BY DEF Init, FileFacts, OpenRequest, Exists, NoJournal
<1>4. StepFacts
  BY DEF Init, StepFacts
<1> QED  BY <1>1, <1>2, <1>3, <1>4 DEF IInv

(***************************************************************************)
(* The moves of a process keep its types.                                  *)
(***************************************************************************)
LEMMA GotoTypes ==
    ASSUME ProcTypes, crashes' \in Nat, NEW p \in Procs, NEW step \in LockedSteps,
           pc[p] \in LockedSteps, Goto(p, step)
    PROVE  ProcTypes'
BY DEF ProcTypes, Goto

LEMMA ExitTypes ==
    ASSUME ProcTypes, crashes' \in Nat, NEW p \in Procs, Exit(p)
    PROVE  ProcTypes'
BY RequestAssumption DEF ProcTypes, Exit, LockedSteps, Sel

(***************************************************************************)
(* One lemma per action: the step keeps the types, the files and the facts *)
(* of every process.                                                       *)
(***************************************************************************)
LEMMA RequestStartIInv ==
    ASSUME IInv, NEW p \in Procs, NEW c \in BOOLEAN, RequestStart(p, c)
    PROVE  IInv'
<1>1. FileTypes'
  BY RequestAssumption, DirsExist, OpenMembers
     DEF IInv, FileTypes, FileFacts, ProcTypes, StepFacts, Creating, Sel, Exists,
         RequestStart, Goto, Exit, requestFiles, lifecycle, procs, LockedSteps
<1>2. ProcTypes'
  BY RequestAssumption, DirsExist, OpenMembers
     DEF IInv, FileTypes, ProcTypes, Sel, RequestStart, Goto, Exit, requestFiles,
         lifecycle, procs, LockedSteps
<1>3. FileFacts'
  BY RequestAssumption, DirsExist, OpenMembers
     DEF IInv, FileTypes, ProcTypes, FileFacts, StepFacts, OpenRequest, Creating,
         RequestStart, Goto, Exit, requestFiles, lifecycle, procs, LockedSteps
<1>4. StepFacts'
  BY RequestAssumption, DirsExist, OpenMembers
     DEF IInv, FileTypes, ProcTypes, FileFacts, StepFacts, OpenRequest, Creating,
         RequestStart, Goto, Exit, requestFiles, lifecycle, procs, LockedSteps
<1> QED  BY <1>1, <1>2, <1>3, <1>4 DEF IInv

LEMMA RecoverDecideIInv ==
    ASSUME IInv, NEW p \in Procs, RecoverDecide(p)
    PROVE  IInv'
<1>1. FileTypes'
  BY RequestAssumption, DirsExist, OpenMembers
     DEF IInv, FileTypes, FileFacts, ProcTypes, StepFacts, Creating, Sel, Exists,
         RecoverDecide, RecoverStep, Goto, Exit, requestFiles, lifecycle, procs,
         LockedSteps
<1>2. ProcTypes'
  <2>1. crashes' \in Nat /\ ProcTypes
    BY DEF IInv, ProcTypes, RecoverDecide
  <2>2. CASE Exit(p)
    BY <2>1, <2>2, ExitTypes
  <2>3. CASE ~Exit(p)
    <3>1. RecoverStep \in LockedSteps
      BY <2>3 DEF RecoverDecide, RecoverStep, LockedSteps
    <3>2. (IF RecoverStep = "unstage" THEN stage[journal.rid] ELSE {}) \in SUBSET AllFiles
      BY DEF IInv, FileTypes, FileFacts, RecoverStep, Exists
    <3> HIDE DEF RecoverStep
    <3>3. /\ pc' = [pc EXCEPT ![p] = RecoverStep]
          /\ todo' = [todo EXCEPT ![p] = IF RecoverStep = "unstage"
                                           THEN stage[journal.rid] ELSE {}]
          /\ UNCHANGED <<lock, check, rid>>
      BY <2>3 DEF RecoverDecide
    <3> QED  BY <2>1, <3>1, <3>2, <3>3 DEF ProcTypes, RecoverDecide, LockedSteps
  <2> QED  BY <2>2, <2>3
<1>3. FileFacts'
  BY RequestAssumption, DirsExist, OpenMembers
     DEF IInv, FileTypes, ProcTypes, FileFacts, StepFacts, OpenRequest, Creating,
         RecoverDecide, RecoverStep, Goto, Exit, requestFiles, lifecycle, procs,
         LockedSteps
<1>4. StepFacts'
  BY RequestAssumption, DirsExist, OpenMembers
     DEF IInv, FileTypes, ProcTypes, FileFacts, StepFacts, OpenRequest, Creating,
         RecoverDecide, RecoverStep, Goto, Exit, requestFiles, lifecycle, procs,
         LockedSteps
<1> QED  BY <1>1, <1>2, <1>3, <1>4 DEF IInv

LEMMA UnstageIInv ==
    ASSUME IInv, NEW p \in Procs, Unstage(p)
    PROVE  IInv'
<1>1. FileTypes'
  BY RequestAssumption, DirsExist, OpenMembers
     DEF IInv, FileTypes, FileFacts, ProcTypes, StepFacts, Creating, Sel, Exists,
         Unstage, Goto, Exit, requestFiles, lifecycle, procs, LockedSteps
<1>2. ProcTypes'
  BY RequestAssumption, DirsExist, OpenMembers
     DEF IInv, FileTypes, ProcTypes, Sel, Unstage, Goto, Exit, requestFiles, lifecycle,
         procs, LockedSteps
<1>3. FileFacts'
  BY RequestAssumption, DirsExist, OpenMembers
     DEF IInv, FileTypes, ProcTypes, FileFacts, StepFacts, OpenRequest, Creating,
         Unstage, Goto, Exit, requestFiles, lifecycle, procs, LockedSteps
<1>4. StepFacts'
  BY RequestAssumption, DirsExist, OpenMembers
     DEF IInv, FileTypes, ProcTypes, FileFacts, StepFacts, OpenRequest, Creating,
         Unstage, Goto, Exit, requestFiles, lifecycle, procs, LockedSteps
<1> QED  BY <1>1, <1>2, <1>3, <1>4 DEF IInv

LEMMA UnlinkRecoveredIInv ==
    ASSUME IInv, NEW p \in Procs, UnlinkRecovered(p)
    PROVE  IInv'
<1>1. FileTypes'
  BY RequestAssumption, DirsExist, OpenMembers
     DEF IInv, FileTypes, FileFacts, ProcTypes, StepFacts, Creating, Sel, Exists,
         UnlinkRecovered, NoJournal, Goto, Exit, requestFiles, lifecycle, procs,
         LockedSteps
<1>2. ProcTypes'
  BY RequestAssumption, DirsExist, OpenMembers
     DEF IInv, FileTypes, ProcTypes, Sel, UnlinkRecovered, NoJournal, Goto, Exit,
         requestFiles, lifecycle, procs, LockedSteps
<1>3. FileFacts'
  BY RequestAssumption, DirsExist, OpenMembers
     DEF IInv, FileTypes, ProcTypes, FileFacts, StepFacts, OpenRequest, Creating,
         UnlinkRecovered, NoJournal, Goto, Exit, requestFiles, lifecycle, procs,
         LockedSteps
<1>4. StepFacts'
  BY RequestAssumption, DirsExist, OpenMembers
     DEF IInv, FileTypes, ProcTypes, FileFacts, StepFacts, OpenRequest, Creating,
         UnlinkRecovered, NoJournal, Goto, Exit, requestFiles, lifecycle, procs,
         LockedSteps
<1> QED  BY <1>1, <1>2, <1>3, <1>4 DEF IInv

LEMMA InspectIInv ==
    ASSUME IInv, NEW p \in Procs, Inspect(p)
    PROVE  IInv'
<1>1. FileTypes'
  BY RequestAssumption, DirsExist, OpenMembers
     DEF IInv, FileTypes, FileFacts, ProcTypes, StepFacts, Creating, Sel, Exists,
         Inspect, Goto, Exit, requestFiles, lifecycle, procs, LockedSteps
<1>2. ProcTypes'
  <2>1. crashes' \in Nat /\ ProcTypes
    BY DEF IInv, ProcTypes, Inspect
  <2>2. CASE Exit(p)
    BY <2>1, <2>2, ExitTypes
  <2>3. CASE /\ \E r \in Requests : rid' = [rid EXCEPT ![p] = r]
             /\ pc' = [pc EXCEPT ![p] = "journal"]
             /\ UNCHANGED <<lock, check, todo>>
    BY <2>1, <2>3 DEF ProcTypes, Inspect, LockedSteps, Sel
  <2> QED  BY <2>2, <2>3 DEF Inspect
<1>3. FileFacts'
  BY RequestAssumption, DirsExist, OpenMembers
     DEF IInv, FileTypes, ProcTypes, FileFacts, StepFacts, OpenRequest, Creating,
         Inspect, Goto, Exit, requestFiles, lifecycle, procs, LockedSteps
<1>4. StepFacts'
  BY RequestAssumption, DirsExist, OpenMembers
     DEF IInv, FileTypes, ProcTypes, FileFacts, StepFacts, OpenRequest, Creating,
         Inspect, Goto, Exit, requestFiles, lifecycle, procs, LockedSteps
<1> QED  BY <1>1, <1>2, <1>3, <1>4 DEF IInv

LEMMA WriteJournalIInv ==
    ASSUME IInv, NEW p \in Procs, WriteJournal(p)
    PROVE  IInv'
<1>1. FileTypes'
  BY RequestAssumption, DirsExist, OpenMembers
     DEF IInv, FileTypes, FileFacts, ProcTypes, StepFacts, Creating, Sel, Exists,
         WriteJournal, Goto, Exit, requestFiles, lifecycle, procs, LockedSteps
<1>2. ProcTypes'
  BY RequestAssumption, DirsExist, OpenMembers
     DEF IInv, FileTypes, ProcTypes, Sel, WriteJournal, Goto, Exit, requestFiles,
         lifecycle, procs, LockedSteps
<1>3. FileFacts'
  BY RequestAssumption, DirsExist, OpenMembers
     DEF IInv, FileTypes, ProcTypes, FileFacts, StepFacts, OpenRequest, Creating,
         WriteJournal, Goto, Exit, requestFiles, lifecycle, procs, LockedSteps
<1>4. StepFacts'
  BY RequestAssumption, DirsExist, OpenMembers
     DEF IInv, FileTypes, ProcTypes, FileFacts, StepFacts, OpenRequest, Creating,
         WriteJournal, Goto, Exit, requestFiles, lifecycle, procs, LockedSteps
<1> QED  BY <1>1, <1>2, <1>3, <1>4 DEF IInv

LEMMA MkdirIInv ==
    ASSUME IInv, NEW p \in Procs, Mkdir(p)
    PROVE  IInv'
<1>1. FileTypes'
  BY RequestAssumption, DirsExist, OpenMembers
     DEF IInv, FileTypes, FileFacts, ProcTypes, StepFacts, Creating, Sel, Exists,
         Mkdir, Goto, Exit, requestFiles, lifecycle, procs, LockedSteps
<1>2. ProcTypes'
  BY RequestAssumption, DirsExist, OpenMembers
     DEF IInv, FileTypes, ProcTypes, Sel, Mkdir, Goto, Exit, requestFiles, lifecycle,
         procs, LockedSteps
<1>3. FileFacts'
  BY RequestAssumption, DirsExist, OpenMembers
     DEF IInv, FileTypes, ProcTypes, FileFacts, StepFacts, OpenRequest, Creating,
         Mkdir, Goto, Exit, requestFiles, lifecycle, procs, LockedSteps
<1>4. StepFacts'
  BY RequestAssumption, DirsExist, OpenMembers
     DEF IInv, FileTypes, ProcTypes, FileFacts, StepFacts, OpenRequest, Creating,
         Mkdir, Goto, Exit, requestFiles, lifecycle, procs, LockedSteps
<1> QED  BY <1>1, <1>2, <1>3, <1>4 DEF IInv

LEMMA FillIInv ==
    ASSUME IInv, NEW p \in Procs, Fill(p)
    PROVE  IInv'
<1>1. FileTypes'
  BY RequestAssumption, DirsExist, OpenMembers
     DEF IInv, FileTypes, FileFacts, ProcTypes, StepFacts, Creating, Sel, Exists, Fill,
         AllFiles, Goto, Exit, requestFiles, lifecycle, procs, LockedSteps
<1>2. ProcTypes'
  BY RequestAssumption, DirsExist, OpenMembers
     DEF IInv, FileTypes, ProcTypes, Sel, Fill, AllFiles, Goto, Exit, requestFiles,
         lifecycle, procs, LockedSteps
<1>3. FileFacts'
  BY RequestAssumption, DirsExist, OpenMembers
     DEF IInv, FileTypes, ProcTypes, FileFacts, StepFacts, OpenRequest, Creating, Fill,
         AllFiles, Goto, Exit, requestFiles, lifecycle, procs, LockedSteps
<1>4. StepFacts'
  BY RequestAssumption, DirsExist, OpenMembers
     DEF IInv, FileTypes, ProcTypes, FileFacts, StepFacts, OpenRequest, Creating, Fill,
         AllFiles, Goto, Exit, requestFiles, lifecycle, procs, LockedSteps
<1> QED  BY <1>1, <1>2, <1>3, <1>4 DEF IInv

LEMMA StripIInv ==
    ASSUME IInv, NEW p \in Procs, Strip(p)
    PROVE  IInv'
<1>1. FileTypes'
  BY RequestAssumption, DirsExist, OpenMembers
     DEF IInv, FileTypes, FileFacts, ProcTypes, StepFacts, Creating, Sel, Exists,
         Strip, AllFiles, Goto, Exit, requestFiles, lifecycle, procs, LockedSteps
<1>2. ProcTypes'
  BY RequestAssumption, DirsExist, OpenMembers
     DEF IInv, FileTypes, ProcTypes, Sel, Strip, AllFiles, Goto, Exit, requestFiles,
         lifecycle, procs, LockedSteps
<1>3. FileFacts'
  BY RequestAssumption, DirsExist, OpenMembers
     DEF IInv, FileTypes, ProcTypes, FileFacts, StepFacts, OpenRequest, Creating,
         Strip, AllFiles, Goto, Exit, requestFiles, lifecycle, procs, LockedSteps
<1>4. StepFacts'
  BY RequestAssumption, DirsExist, OpenMembers
     DEF IInv, FileTypes, ProcTypes, FileFacts, StepFacts, OpenRequest, Creating,
         Strip, AllFiles, Goto, Exit, requestFiles, lifecycle, procs, LockedSteps
<1> QED  BY <1>1, <1>2, <1>3, <1>4 DEF IInv

LEMMA PublishIInv ==
    ASSUME IInv, NEW p \in Procs, Publish(p)
    PROVE  IInv'
<1>1. FileTypes'
  BY RequestAssumption, DirsExist, OpenMembers
     DEF IInv, FileTypes, FileFacts, ProcTypes, StepFacts, Creating, Sel, Exists,
         Publish, ValidPending, Goto, Exit, requestFiles, lifecycle, procs, LockedSteps
<1>2. ProcTypes'
  <2>1. crashes' \in Nat /\ ProcTypes /\ pc[p] \in LockedSteps
    BY DEF IInv, ProcTypes, Publish, LockedSteps
  <2>2. CASE Exit(p)
    BY <2>1, <2>2, ExitTypes
  <2>3. CASE Goto(p, "verify")
    BY <2>1, <2>3, GotoTypes DEF LockedSteps
  <2> QED  BY <2>2, <2>3 DEF Publish
<1>3. FileFacts'
  BY RequestAssumption, DirsExist, OpenMembers
     DEF IInv, FileTypes, ProcTypes, FileFacts, StepFacts, OpenRequest, Creating,
         Publish, ValidPending, Goto, Exit, requestFiles, lifecycle, procs, LockedSteps
<1>4. StepFacts'
  BY RequestAssumption, DirsExist, OpenMembers
     DEF IInv, FileTypes, ProcTypes, FileFacts, StepFacts, OpenRequest, Creating,
         Publish, ValidPending, Goto, Exit, requestFiles, lifecycle, procs, LockedSteps
<1> QED  BY <1>1, <1>2, <1>3, <1>4 DEF IInv

LEMMA VerifyIInv ==
    ASSUME IInv, NEW p \in Procs, Verify(p)
    PROVE  IInv'
<1>1. FileTypes'
  BY RequestAssumption, DirsExist, OpenMembers
     DEF IInv, FileTypes, FileFacts, ProcTypes, StepFacts, Creating, Sel, Exists,
         Verify, ValidPending, Goto, Exit, requestFiles, lifecycle, procs, LockedSteps
<1>2. ProcTypes'
  <2>1. crashes' \in Nat /\ ProcTypes /\ pc[p] \in LockedSteps
    BY DEF IInv, ProcTypes, Verify, LockedSteps
  <2>2. CASE Exit(p)
    BY <2>1, <2>2, ExitTypes
  <2>3. CASE Goto(p, "unlink-created")
    BY <2>1, <2>3, GotoTypes DEF LockedSteps
  <2> QED  BY <2>2, <2>3 DEF Verify
<1>3. FileFacts'
  BY RequestAssumption, DirsExist, OpenMembers
     DEF IInv, FileTypes, ProcTypes, FileFacts, StepFacts, OpenRequest, Creating,
         Verify, ValidPending, Goto, Exit, requestFiles, lifecycle, procs, LockedSteps
<1>4. StepFacts'
  BY RequestAssumption, DirsExist, OpenMembers
     DEF IInv, FileTypes, ProcTypes, FileFacts, StepFacts, OpenRequest, Creating,
         Verify, ValidPending, Goto, Exit, requestFiles, lifecycle, procs, LockedSteps
<1> QED  BY <1>1, <1>2, <1>3, <1>4 DEF IInv

LEMMA UnlinkCreatedIInv ==
    ASSUME IInv, NEW p \in Procs, UnlinkCreated(p)
    PROVE  IInv'
<1>1. FileTypes'
  BY RequestAssumption, DirsExist, OpenMembers
     DEF IInv, FileTypes, FileFacts, ProcTypes, StepFacts, Creating, Sel, Exists,
         UnlinkCreated, NoJournal, Goto, Exit, requestFiles, lifecycle, procs,
         LockedSteps
<1>2. ProcTypes'
  BY RequestAssumption, DirsExist, OpenMembers
     DEF IInv, FileTypes, ProcTypes, Sel, UnlinkCreated, NoJournal, Goto, Exit,
         requestFiles, lifecycle, procs, LockedSteps
<1>3. FileFacts'
  BY RequestAssumption, DirsExist, OpenMembers
     DEF IInv, FileTypes, ProcTypes, FileFacts, StepFacts, OpenRequest, Creating,
         UnlinkCreated, NoJournal, Goto, Exit, requestFiles, lifecycle, procs,
         LockedSteps
<1>4. StepFacts'
  BY RequestAssumption, DirsExist, OpenMembers
     DEF IInv, FileTypes, ProcTypes, FileFacts, StepFacts, OpenRequest, Creating,
         UnlinkCreated, NoJournal, Goto, Exit, requestFiles, lifecycle, procs,
         LockedSteps
<1> QED  BY <1>1, <1>2, <1>3, <1>4 DEF IInv

LEMMA CrashIInv ==
    ASSUME IInv, NEW p \in Procs, Crash(p)
    PROVE  IInv'
<1>1. FileTypes'
  BY RequestAssumption, DirsExist, OpenMembers
     DEF IInv, FileTypes, FileFacts, ProcTypes, StepFacts, Creating, Sel, Exists,
         Crash, Goto, Exit, requestFiles, lifecycle, procs, LockedSteps
<1>2. ProcTypes'
  BY RequestAssumption, DirsExist, OpenMembers
     DEF IInv, FileTypes, ProcTypes, Sel, Crash, Goto, Exit, requestFiles, lifecycle,
         procs, LockedSteps
<1>3. FileFacts'
  BY RequestAssumption, DirsExist, OpenMembers
     DEF IInv, FileTypes, ProcTypes, FileFacts, StepFacts, OpenRequest, Creating,
         Crash, Goto, Exit, requestFiles, lifecycle, procs, LockedSteps
<1>4. StepFacts'
  BY RequestAssumption, DirsExist, OpenMembers
     DEF IInv, FileTypes, ProcTypes, FileFacts, StepFacts, OpenRequest, Creating,
         Crash, Goto, Exit, requestFiles, lifecycle, procs, LockedSteps
<1> QED  BY <1>1, <1>2, <1>3, <1>4 DEF IInv

LEMMA CrashWritingIInv ==
    ASSUME IInv, NEW p \in Procs, CrashWriting(p)
    PROVE  IInv'
<1>1. FileTypes'
  <2>1. CASE pc[p] = "journal"
    BY <2>1 DEF IInv, FileTypes, CrashWriting, lifecycle, Sel
  <2>2. CASE pc[p] = "fill"
    <3>1. rid[p] \in Requests /\ stage[rid[p]] \in SUBSET AllFiles
      BY <2>2 DEF IInv, FileTypes, StepFacts, Creating, Exists
    <3> QED  BY <2>2, <3>1 DEF IInv, FileTypes, CrashWriting, lifecycle
  <2> QED  BY <2>1, <2>2 DEF CrashWriting
<1>2. ProcTypes'
  BY RequestAssumption, DirsExist, OpenMembers
     DEF IInv, FileTypes, ProcTypes, Sel, CrashWriting, Goto, Exit, requestFiles,
         lifecycle, procs, LockedSteps
<1>3. FileFacts'
  BY RequestAssumption, DirsExist, OpenMembers
     DEF IInv, FileTypes, ProcTypes, FileFacts, StepFacts, OpenRequest, Creating,
         CrashWriting, Goto, Exit, requestFiles, lifecycle, procs, LockedSteps
<1>4. StepFacts'
  BY RequestAssumption, DirsExist, OpenMembers
     DEF IInv, FileTypes, ProcTypes, FileFacts, StepFacts, OpenRequest, Creating,
         CrashWriting, Goto, Exit, requestFiles, lifecycle, procs, LockedSteps
<1> QED  BY <1>1, <1>2, <1>3, <1>4 DEF IInv

LEMMA ExpireIInv ==
    ASSUME IInv, NEW r \in Requests, Expire(r)
    PROVE  IInv'
<1>1. FileTypes'
  BY RequestAssumption, DirsExist, OpenMembers
     DEF IInv, FileTypes, FileFacts, ProcTypes, StepFacts, Creating, Sel, Exists,
         Expire, Goto, Exit, requestFiles, lifecycle, procs, LockedSteps
<1>2. ProcTypes'
  BY RequestAssumption, DirsExist, OpenMembers
     DEF IInv, FileTypes, ProcTypes, Sel, Expire, Goto, Exit, requestFiles, lifecycle,
         procs, LockedSteps
<1>3. FileFacts'
  BY RequestAssumption, DirsExist, OpenMembers
     DEF IInv, FileTypes, ProcTypes, FileFacts, StepFacts, OpenRequest, Creating,
         Expire, Goto, Exit, requestFiles, lifecycle, procs, LockedSteps
<1>4. StepFacts'
  BY RequestAssumption, DirsExist, OpenMembers
     DEF IInv, FileTypes, ProcTypes, FileFacts, StepFacts, OpenRequest, Creating,
         Expire, Goto, Exit, requestFiles, lifecycle, procs, LockedSteps
<1> QED  BY <1>1, <1>2, <1>3, <1>4 DEF IInv

LEMMA ActivationBeginIInv ==
    ASSUME IInv, NEW r \in Requests, ActivationBegin(r)
    PROVE  IInv'
<1>1. FileTypes'
  BY RequestAssumption, DirsExist, OpenMembers
     DEF IInv, FileTypes, FileFacts, ProcTypes, StepFacts, Creating, Sel, Exists,
         ActivationBegin, Goto, Exit, requestFiles, lifecycle, procs, LockedSteps
<1>2. ProcTypes'
  BY RequestAssumption, DirsExist, OpenMembers
     DEF IInv, FileTypes, ProcTypes, Sel, ActivationBegin, Goto, Exit, requestFiles,
         lifecycle, procs, LockedSteps
<1>3. FileFacts'
  BY RequestAssumption, DirsExist, OpenMembers
     DEF IInv, FileTypes, ProcTypes, FileFacts, StepFacts, OpenRequest, Creating,
         ActivationBegin, Goto, Exit, requestFiles, lifecycle, procs, LockedSteps
<1>4. StepFacts'
  BY RequestAssumption, DirsExist, OpenMembers
     DEF IInv, FileTypes, ProcTypes, FileFacts, StepFacts, OpenRequest, Creating,
         ActivationBegin, Goto, Exit, requestFiles, lifecycle, procs, LockedSteps
<1> QED  BY <1>1, <1>2, <1>3, <1>4 DEF IInv

LEMMA ActivationEndIInv ==
    ASSUME IInv, ActivationEnd
    PROVE  IInv'
<1>1. FileTypes'
  BY RequestAssumption, DirsExist, OpenMembers
     DEF IInv, FileTypes, FileFacts, ProcTypes, StepFacts, Creating, Sel, Exists,
         ActivationEnd, Goto, Exit, requestFiles, lifecycle, procs, LockedSteps
<1>2. ProcTypes'
  BY RequestAssumption, DirsExist, OpenMembers
     DEF IInv, FileTypes, ProcTypes, Sel, ActivationEnd, Goto, Exit, requestFiles,
         lifecycle, procs, LockedSteps
<1>3. FileFacts'
  <2>1. /\ activating \in Requests /\ OpenRequest(activating)
        /\ \A r \in Requests : OpenRequest(r) => r = activating
    BY DEF IInv, FileTypes, FileFacts, ActivationEnd, Sel
  <2>2. /\ UNCHANGED <<requestFiles, lock>> /\ lock = None /\ activating' = None
        /\ outcome'[activating] \in {"complete", "failed"}
        /\ \A r \in Requests : r # activating => outcome'[r] = outcome[r]
    BY <2>1 DEF IInv, FileTypes, ActivationEnd, procs
  <2>3. \A r \in Requests : ~OpenRequest(r)'
    BY <2>1, <2>2 DEF OpenRequest, requestFiles
  <2> QED
    BY <2>2, <2>3 DEF IInv, FileFacts, requestFiles
<1>4. StepFacts'
  BY RequestAssumption, DirsExist, OpenMembers
     DEF IInv, FileTypes, ProcTypes, FileFacts, StepFacts, OpenRequest, Creating,
         ActivationEnd, Goto, Exit, requestFiles, lifecycle, procs, LockedSteps
<1> QED  BY <1>1, <1>2, <1>3, <1>4 DEF IInv

LEMMA StutterIInv == IInv /\ UNCHANGED vars => IInv'
BY DEF IInv, FileTypes, ProcTypes, FileFacts, StepFacts, OpenRequest, Creating,
       vars, requestFiles, lifecycle, procs

LEMMA NextIInv == IInv /\ [Next]_vars => IInv'
<1> SUFFICES ASSUME IInv, [Next]_vars PROVE IInv'
  OBVIOUS
<1>1. CASE UNCHANGED vars
  BY <1>1, StutterIInv
<1>2. ASSUME NEW p \in Procs, Request(p) PROVE IInv'
  BY <1>2, RecoverDecideIInv, UnstageIInv, UnlinkRecoveredIInv, InspectIInv,
     WriteJournalIInv, MkdirIInv, FillIInv, StripIInv, PublishIInv, VerifyIInv,
     UnlinkCreatedIInv DEF Request
<1>3. ASSUME NEW p \in Procs,
             \/ RequestStart(p, TRUE) \/ RequestStart(p, FALSE)
             \/ Crash(p) \/ CrashWriting(p)
      PROVE  IInv'
  BY <1>3, RequestStartIInv, CrashIInv, CrashWritingIInv
<1>4. ASSUME NEW r \in Requests, Expire(r) \/ ActivationBegin(r) PROVE IInv'
  BY <1>4, ExpireIInv, ActivationBeginIInv
<1>5. CASE ActivationEnd
  BY <1>5, ActivationEndIInv
<1> QED  BY <1>1, <1>2, <1>3, <1>4, <1>5 DEF Next

\* For any number of commands, requests and kills every variable keeps its
\* type and the flock is held exactly during the steps of a command.
THEOREM RequestTypeCorrect == Spec => []TypeOK
<1>1. IInv => TypeOK
  BY DEF IInv, FileTypes, ProcTypes, TypeOK
<1> QED  BY <1>1, InitIInv, NextIInv, PTL DEF Spec

\* A staging directory always belongs to the journal.
THEOREM RequestStageOwned == Spec => []StageOwned
<1>1. IInv => StageOwned
  BY OpenMembers DEF IInv, FileTypes, FileFacts, StageOwned, Staged
<1> QED  BY <1>1, InitIInv, NextIInv, PTL DEF Spec

\* A published request is complete, and while it is open it binds the
\* active version.
THEOREM RequestOpenIsCurrent == Spec => []OpenIsCurrent
<1>1. IInv => OpenIsCurrent
  BY OpenMembers DEF IInv, FileFacts, OpenIsCurrent, Published
<1> QED  BY <1>1, InitIInv, NextIInv, PTL DEF Spec

\* At most one request is open.
THEOREM RequestOneOpen == Spec => []OneOpen
<1>1. IInv => OneOpen
  BY DEF IInv, FileFacts, OneOpen, Published, OpenRequest
<1> QED  BY <1>1, InitIInv, NextIInv, PTL DEF Spec

\* A request and an activation are never in flight together.
THEOREM RequestOneJournal == Spec => []OneJournal
<1>1. IInv => OneJournal
  BY DEF IInv, FileFacts, OneJournal
<1> QED  BY <1>1, InitIInv, NextIInv, PTL DEF Spec

\* One open request, one journal, and the stage of that journal only.
THEOREM RequestOneAtATime == Spec => []OneAtATime
BY RequestStageOwned, RequestOneOpen, RequestOneJournal, PTL DEF OneAtATime

-----------------------------------------------------------------------------
(***************************************************************************)
(* The helper implements CertSwitch.                                       *)
(***************************************************************************)
\* A step that changes no published request and no decision is a stutter.
LEMMA SwitchStutters ==
    ASSUME UNCHANGED <<pending, active, outcome>>,
           \A r \in Requests : Exists(pending[r]) => bound'[r] = bound[r]
    PROVE  UNCHANGED Switching!vars
BY DEF Switching!vars, Published

LEMMA SwitchPublish ==
    ASSUME IInv, NEW p \in Procs, Publish(p)
    PROVE  [Switching!Next]_Switching!vars
<1>0. PICK q \in Requests : q = rid[p]
  BY DEF IInv, StepFacts, Creating, Publish
<1>1. CASE UNCHANGED <<pending, stage>>
  BY <1>1, SwitchStutters DEF Publish, lifecycle
<1>2. CASE /\ pending' = [pending EXCEPT ![q] = stage[q]]
           /\ ValidPending(q, stage[q]) /\ ~Exists(pending[q])
  <2>1. q \in Requests /\ bound[q] = active /\ Exists(pending'[q])
    BY <1>0, <1>2, DirsExist
       DEF IInv, FileTypes, StepFacts, Creating, Publish, ValidPending
  <2>2. Published' = Published \cup {q} /\ q \notin Published
    BY <1>2, <2>1 DEF IInv, FileTypes, Published
  <2>3. UNCHANGED <<bound, active, outcome>>
    BY DEF Publish, lifecycle
  <2>4. Switching!Request(q)
    BY <2>1, <2>2, <2>3 DEF Switching!Request, Switching!Unrequested
  <2>5. Switching!Next
    BY <2>1, <2>4 DEF Switching!Next
  <2> QED  BY <2>5
<1> QED  BY <1>0, <1>1, <1>2 DEF Publish

LEMMA SwitchDecide ==
    ASSUME IInv, ActivationEnd
    PROVE  [Switching!Next]_Switching!vars
<1> DEFINE r == activating
<1>1. r \in Requests /\ Exists(pending[r]) /\ outcome[r] = "open" /\ bound[r] = active
  BY DEF IInv, FileTypes, FileFacts, OpenRequest, ActivationEnd, Sel
<1>2. UNCHANGED <<pending, bound>> /\ Published' = Published /\ r \in Published
  BY <1>1 DEF ActivationEnd, requestFiles, Published
<1>3. outcome \in [Requests -> {"open", "complete", "failed"}]
  BY DEF IInv, FileTypes
<1>4. CASE active' = r /\ outcome' = [outcome EXCEPT ![r] = "complete"]
  <2>1. Switching!Switch(r)
    BY <1>1, <1>2, <1>3, <1>4 DEF Switching!Switch
  <2> QED  BY <1>1, <2>1 DEF Switching!Next
<1>5. CASE active' = active /\ outcome' = [outcome EXCEPT ![r] = "failed"]
  <2>1. Switching!Abort(r)
    BY <1>1, <1>2, <1>3, <1>5 DEF Switching!Abort
  <2> QED  BY <1>1, <2>1 DEF Switching!Next
<1> QED  BY <1>4, <1>5 DEF ActivationEnd

\* Every step of the helper is a step of the abstract switch or changes
\* nothing it sees.
THEOREM RequestImplementsSwitch == Spec => AtomicPublication
<1>1. Init => Switching!Init
  BY DEF Init, Switching!Init, Switching!Unrequested, Published, Exists
<1>2. IInv /\ [Next]_vars => [Switching!Next]_Switching!vars
  <2> SUFFICES ASSUME IInv, [Next]_vars PROVE [Switching!Next]_Switching!vars
    OBVIOUS
  <2>1. CASE UNCHANGED vars
    BY <2>1, SwitchStutters DEF vars, requestFiles, lifecycle
  <2>2. ASSUME NEW p \in Procs, Fill(p) PROVE UNCHANGED Switching!vars
    <3>1. /\ rid[p] \in Requests /\ ~Exists(pending[rid[p]])
          /\ bound \in [Requests -> Sel]
      BY <2>2 DEF IInv, FileTypes, StepFacts, Creating, Fill
    <3>2. /\ UNCHANGED <<pending, active, outcome>>
          /\ bound' = [bound EXCEPT ![rid[p]] = active]
      BY <2>2 DEF Fill, lifecycle
    <3> QED  BY <3>1, <3>2, SwitchStutters
  <2>3. ASSUME NEW p \in Procs,
               \/ RecoverDecide(p) \/ Unstage(p) \/ UnlinkRecovered(p)
               \/ Inspect(p) \/ WriteJournal(p) \/ Mkdir(p) \/ Strip(p)
               \/ Verify(p) \/ UnlinkCreated(p)
        PROVE  UNCHANGED Switching!vars
    BY <2>3, SwitchStutters
       DEF RecoverDecide, Unstage, UnlinkRecovered, Inspect, WriteJournal, Mkdir,
           Strip, Verify, UnlinkCreated, requestFiles, lifecycle
  <2>4. ASSUME NEW p \in Procs,
               \/ RequestStart(p, TRUE) \/ RequestStart(p, FALSE)
               \/ Crash(p) \/ CrashWriting(p)
        PROVE  UNCHANGED Switching!vars
    BY <2>4, SwitchStutters
       DEF RequestStart, Crash, CrashWriting, requestFiles, lifecycle
  <2>5. ASSUME NEW r \in Requests, Expire(r) \/ ActivationBegin(r)
        PROVE  UNCHANGED Switching!vars
    BY <2>5, SwitchStutters DEF Expire, ActivationBegin, requestFiles, lifecycle
  <2> QED
    BY <2>1, <2>2, <2>3, <2>4, <2>5, SwitchPublish, SwitchDecide DEF Next, Request
<1> QED
  BY <1>1, <1>2, InitIInv, NextIInv, PTL DEF Spec, AtomicPublication, Switching!Spec
=============================================================================
