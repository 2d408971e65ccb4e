---------------------------- MODULE TrustProofs ----------------------------
(* Proofs about TrustInstall, for every value of its constants. *)
EXTENDS TrustInstall, TLAPS

(***************************************************************************)
(* The inductive invariant.  DirFacts: what the journal says about the     *)
(* three directories, whoever was killed.  StepFacts: what the process     *)
(* under the flock knows at each of its steps.                             *)
(***************************************************************************)
DirFacts ==
    /\ journal = "absent" /\ Exists(stage) =>
         stage = {} /\ ingress = Names /\ ~Exists(target)
    /\ journal = "torn" => stage = {} /\ ingress = Names /\ ~Exists(target)
    /\ journal = "valid" /\ ~Exists(target) => ingress = Names
    /\ Exists(target) => target = Names /\ ~Exists(stage)

StepFacts ==
    \A p \in Procs :
        /\ pc[p] = "transfer" => todo[p] \in SUBSET Names
        /\ pc[p] = "stage" =>
             journal = "absent" /\ ~Exists(stage) /\ ~Exists(target) /\ ingress = Names
        /\ pc[p] = "journal" =>
             journal = "absent" /\ stage = {} /\ ~Exists(target) /\ ingress = Names
        /\ pc[p] = "fill" =>
             journal = "valid" /\ stage \in SUBSET Names /\ ~Exists(target)
        /\ pc[p] = "publish" =>
             journal = "valid" /\ stage = Names /\ ~Exists(target)
        /\ pc[p] = "clean" =>
             journal = "valid" /\ Exists(target) /\ Exists(ingress)
        /\ pc[p] = "unlink" => journal = "valid" /\ Exists(target)
        /\ pc[p] = "unstage" =>
             journal = "valid" /\ Exists(stage) /\ ~Exists(target)
        /\ pc[p] = "unlink-stage" =>
             journal = "valid" /\ ~Exists(stage) /\ ~Exists(target)

\* The two halves of TypeOK.
DirTypes ==
    /\ journal \in {"absent", "torn", "valid"}
    /\ stage \in (SUBSET (Names \cup {Partial})) \cup {NoDir}
    /\ ingress \in (SUBSET Names) \cup {NoDir}
    /\ target \in (SUBSET Names) \cup {NoDir}

Steps == LockedSteps \cup {"idle", "prepare", "transfer", "enter"}

ProcTypes ==
    /\ crashes \in Nat
    /\ lock \in Procs \cup {None}
    /\ pc \in [Procs -> Steps]
    /\ check \in [Procs -> BOOLEAN]
    /\ todo \in [Procs -> SUBSET (Names \cup {Partial})]
    /\ \A p \in Procs : pc[p] \in LockedSteps <=> lock = p

IInv == DirTypes /\ ProcTypes /\ DirFacts /\ StepFacts

LEMMA Types == TypeOK <=> DirTypes /\ ProcTypes
BY DEF TypeOK, DirTypes, ProcTypes, Steps

\* A directory is not its own absence.
LEMMA DirsExist ==
    /\ Exists({}) /\ Exists(Names)
    /\ \A d \in SUBSET (Names \cup {Partial}) : Exists(d)
BY TrustAssumption DEF Exists, NoDir

LEMMA InitIInv == Init => IInv
<1> SUFFICES ASSUME Init PROVE IInv
  OBVIOUS
<1>1. DirTypes
  BY DEF Init, DirTypes
<1>4. DirFacts
  BY DEF Init, DirFacts, Exists
<1>2. ProcTypes
  BY TrustAssumption DEF Init, ProcTypes, Steps, LockedSteps
<1>3. StepFacts
  BY DEF Init, StepFacts
<1> QED  BY <1>1, <1>2, <1>3, <1>4 DEF IInv

\* A directory that exists is a set of its entries.
LEMMA StageDir ==
    ASSUME IInv, Exists(stage) PROVE stage \in SUBSET (Names \cup {Partial})
BY DEF IInv, DirTypes, Exists

LEMMA IngressDir ==
    ASSUME IInv, Exists(ingress)
    PROVE  ingress \in SUBSET Names /\ ingress \in SUBSET (Names \cup {Partial})
BY DEF IInv, DirTypes, Exists

(***************************************************************************)
(* The four moves of a process keep its types.                             *)
(***************************************************************************)
LEMMA GotoTypes ==
    ASSUME ProcTypes, crashes' \in Nat, NEW p \in Procs, NEW step \in Steps,
           step \in LockedSteps <=> pc[p] \in LockedSteps,
           Goto(p, step)
    PROVE  ProcTypes'
BY DEF ProcTypes, Goto

LEMMA GotoWithTypes ==
    ASSUME ProcTypes, crashes' \in Nat, NEW p \in Procs, NEW step \in Steps,
           NEW names \in SUBSET (Names \cup {Partial}),
           step \in LockedSteps <=> pc[p] \in LockedSteps,
           GotoWith(p, step, names)
    PROVE  ProcTypes'
BY DEF ProcTypes, GotoWith

LEMMA EnterTypes ==
    ASSUME ProcTypes, crashes' \in Nat, NEW p \in Procs, NEW c \in BOOLEAN,
           lock = None, Enter(p, c)
    PROVE  ProcTypes'
BY TrustAssumption DEF ProcTypes, Enter, Steps, LockedSteps

LEMMA ExitTypes ==
    ASSUME ProcTypes, crashes' \in Nat, NEW p \in Procs, Exit(p)
    PROVE  ProcTypes'
BY TrustAssumption DEF ProcTypes, Exit, Steps, LockedSteps

\* A transfer keeps a complete ingress complete and never removes it.
LEMMA TransferKeeps ==
    ASSUME IInv, NEW p \in Procs, Transfer(p)
    PROVE  /\ journal' = journal /\ stage' = stage /\ target' = target
           /\ ingress = Names => ingress' = Names
           /\ Exists(ingress) => Exists(ingress')
<1>1. pc[p] = "transfer" /\ todo[p] \in SUBSET Names
  BY DEF IInv, StepFacts, Transfer
<1>2. CASE UNCHANGED ingress
  BY <1>2 DEF Transfer
<1>3. CASE Exists(ingress) /\ \E n \in todo[p] : ingress' = ingress \cup {n}
  <2>1. ingress' \in SUBSET Names
    BY <1>1, <1>3, IngressDir
  <2>2. Exists(ingress')
    BY <2>1, DirsExist
  <2> QED  BY <1>1, <1>3, <2>2 DEF Transfer
<1> QED  BY <1>2, <1>3 DEF Transfer

(***************************************************************************)
(* One lemma per action: the step keeps the types, the directories and the *)
(* facts of every process.                                                 *)
(***************************************************************************)
LEMMA RouteStartIInv ==
    ASSUME IInv, NEW p \in Procs, RouteStart(p)
    PROVE  IInv'
<1>1. DirTypes'
  BY TrustAssumption, DirsExist
     DEF IInv, DirTypes, ProcTypes, DirFacts, StepFacts, RouteStart, Exists, Goto,
         GotoWith, Enter, Exit, dirs, procs, LockedSteps
<1>2. ProcTypes'
  BY TrustAssumption, DirsExist
     DEF IInv, DirTypes, ProcTypes, Steps, RouteStart, Exists, Goto, GotoWith, Enter,
         Exit, dirs, procs, LockedSteps
<1>3. DirFacts'
  BY TrustAssumption, DirsExist
     DEF IInv, DirTypes, ProcTypes, DirFacts, StepFacts, RouteStart, Exists, Goto,
         GotoWith, Enter, Exit, dirs, procs, LockedSteps
<1>4. StepFacts'
  BY TrustAssumption, DirsExist
     DEF IInv, DirTypes, ProcTypes, DirFacts, StepFacts, RouteStart, Exists, Goto,
         GotoWith, Enter, Exit, dirs, procs, LockedSteps
<1> QED  BY <1>1, <1>2, <1>3, <1>4 DEF IInv

LEMMA PrepareIInv ==
    ASSUME IInv, NEW p \in Procs, Prepare(p)
    PROVE  IInv'
<1>1. DirTypes'
  BY TrustAssumption, DirsExist
     DEF IInv, DirTypes, ProcTypes, DirFacts, StepFacts, Prepare, OrphanRemovable,
         Exists, Goto, GotoWith, Enter, Exit, dirs, procs, LockedSteps
<1>2. ProcTypes'
  <2>1. crashes' \in Nat /\ ProcTypes
    BY DEF IInv, ProcTypes, Prepare
  <2>2. CASE GotoWith(p, "transfer", Names)
    BY <2>1, <2>2, GotoWithTypes DEF Prepare, Steps, LockedSteps
  <2>3. CASE Exit(p)
    BY <2>1, <2>3, ExitTypes DEF Prepare
  <2> QED  BY <2>1, <2>2, <2>3 DEF Prepare
<1>3. DirFacts'
  BY TrustAssumption, DirsExist
     DEF IInv, DirTypes, ProcTypes, DirFacts, StepFacts, Prepare, OrphanRemovable,
         Exists, Goto, GotoWith, Enter, Exit, dirs, procs, LockedSteps
<1>4. StepFacts'
  BY TrustAssumption, DirsExist
     DEF IInv, DirTypes, ProcTypes, DirFacts, StepFacts, Prepare, OrphanRemovable,
         Exists, Goto, GotoWith, Enter, Exit, dirs, procs, LockedSteps
<1> QED  BY <1>1, <1>2, <1>3, <1>4 DEF IInv

LEMMA TransferIInv ==
    ASSUME IInv, NEW p \in Procs, Transfer(p)
    PROVE  IInv'
<1>1. DirTypes'
  BY TrustAssumption, DirsExist
     DEF IInv, DirTypes, ProcTypes, DirFacts, StepFacts, Transfer, Exists, Goto,
         GotoWith, Enter, Exit, dirs, procs, LockedSteps
<1>2. ProcTypes'
  <2>1. crashes' \in Nat /\ ProcTypes
    BY DEF IInv, ProcTypes, Transfer
  <2>2. CASE Exit(p)
    BY <2>1, <2>2, ExitTypes DEF Transfer
  <2>3. CASE Goto(p, "enter")
    BY <2>1, <2>3, GotoTypes DEF Transfer, Steps, LockedSteps
  <2>4. CASE \E n \in todo[p] : GotoWith(p, "transfer", todo[p] \ {n})
    BY <2>1, <2>4, GotoWithTypes DEF Transfer, ProcTypes, Steps, LockedSteps
  <2> QED  BY <2>1, <2>2, <2>3, <2>4 DEF Transfer
<1>3. DirFacts'
  BY TransferKeeps, DirsExist DEF IInv, DirFacts
<1>4. StepFacts'
  <2>1. /\ journal' = journal /\ stage' = stage /\ target' = target
        /\ ingress = Names => ingress' = Names
        /\ Exists(ingress) => Exists(ingress')
    BY TransferKeeps
  <2>2. ASSUME NEW q \in Procs, q # p
        PROVE  pc'[q] = pc[q] /\ todo'[q] = todo[q]
    BY <2>2 DEF IInv, ProcTypes, Transfer, Goto, GotoWith, Exit
  <2> QED
    BY <2>1, <2>2, DirsExist
       DEF IInv, ProcTypes, StepFacts, Transfer, Goto, GotoWith, Exit, LockedSteps
<1> QED  BY <1>1, <1>2, <1>3, <1>4 DEF IInv

LEMMA RouteInstallIInv ==
    ASSUME IInv, NEW p \in Procs, RouteInstall(p)
    PROVE  IInv'
<1>1. DirTypes'
  BY TrustAssumption, DirsExist
     DEF IInv, DirTypes, ProcTypes, DirFacts, StepFacts, RouteInstall, Exists, Goto,
         GotoWith, Enter, Exit, dirs, procs, LockedSteps
<1>2. ProcTypes'
  BY TrustAssumption, DirsExist
     DEF IInv, DirTypes, ProcTypes, Steps, RouteInstall, Exists, Goto, GotoWith, Enter,
         Exit, dirs, procs, LockedSteps
<1>3. DirFacts'
  BY TrustAssumption, DirsExist
     DEF IInv, DirTypes, ProcTypes, DirFacts, StepFacts, RouteInstall, Exists, Goto,
         GotoWith, Enter, Exit, dirs, procs, LockedSteps
<1>4. StepFacts'
  BY TrustAssumption, DirsExist
     DEF IInv, DirTypes, ProcTypes, DirFacts, StepFacts, RouteInstall, Exists, Goto,
         GotoWith, Enter, Exit, dirs, procs, LockedSteps
<1> QED  BY <1>1, <1>2, <1>3, <1>4 DEF IInv

LEMMA LockBusyIInv ==
    ASSUME IInv, NEW p \in Procs, LockBusy(p)
    PROVE  IInv'
<1>1. DirTypes'
  BY TrustAssumption, DirsExist
     DEF IInv, DirTypes, ProcTypes, DirFacts, StepFacts, LockBusy, Exists, Goto,
         GotoWith, Enter, Exit, dirs, procs, LockedSteps
<1>2. ProcTypes'
  BY TrustAssumption, DirsExist
     DEF IInv, DirTypes, ProcTypes, Steps, LockBusy, Exists, Goto, GotoWith, Enter,
         Exit, dirs, procs, LockedSteps
<1>3. DirFacts'
  BY TrustAssumption, DirsExist
     DEF IInv, DirTypes, ProcTypes, DirFacts, StepFacts, LockBusy, Exists, Goto,
         GotoWith, Enter, Exit, dirs, procs, LockedSteps
<1>4. StepFacts'
  BY TrustAssumption, DirsExist
     DEF IInv, DirTypes, ProcTypes, DirFacts, StepFacts, LockBusy, Exists, Goto,
         GotoWith, Enter, Exit, dirs, procs, LockedSteps
<1> QED  BY <1>1, <1>2, <1>3, <1>4 DEF IInv

LEMMA RemoveOrphanIInv ==
    ASSUME IInv, NEW p \in Procs, RemoveOrphan(p)
    PROVE  IInv'
<1>1. DirTypes'
  BY TrustAssumption, DirsExist
     DEF IInv, DirTypes, ProcTypes, DirFacts, StepFacts, RemoveOrphan, OrphanRemovable,
         Exists, Goto, GotoWith, Enter, Exit, dirs, procs, LockedSteps
<1>2. ProcTypes'
  <2>1. crashes' \in Nat /\ ProcTypes
    BY DEF IInv, ProcTypes, RemoveOrphan
  <2>2. CASE UNCHANGED procs
    BY <2>1, <2>2, TrustAssumption DEF ProcTypes, procs
  <2>3. CASE Exit(p)
    BY <2>1, <2>3, ExitTypes DEF RemoveOrphan
  <2> QED  BY <2>1, <2>2, <2>3 DEF RemoveOrphan
<1>3. DirFacts'
  BY TrustAssumption, DirsExist
     DEF IInv, DirTypes, ProcTypes, DirFacts, StepFacts, RemoveOrphan, OrphanRemovable,
         Exists, Goto, GotoWith, Enter, Exit, dirs, procs, LockedSteps
<1>4. StepFacts'
  BY TrustAssumption, DirsExist
     DEF IInv, DirTypes, ProcTypes, DirFacts, StepFacts, RemoveOrphan, OrphanRemovable,
         Exists, Goto, GotoWith, Enter, Exit, dirs, procs, LockedSteps
<1> QED  BY <1>1, <1>2, <1>3, <1>4 DEF IInv

LEMMA RecoverDecideIInv ==
    ASSUME IInv, NEW p \in Procs, RecoverDecide(p)
    PROVE  IInv'
<1>1. DirTypes'
  BY TrustAssumption, DirsExist
     DEF IInv, DirTypes, ProcTypes, DirFacts, StepFacts, RecoverDecide, RecoverStep,
         Complete, Exists, Goto, GotoWith, Enter, Exit, dirs, procs, LockedSteps
<1>2. ProcTypes'
  <2>1. crashes' \in Nat /\ ProcTypes
    BY DEF IInv, ProcTypes, RecoverDecide
  <2>2. CASE Exit(p)
    BY <2>1, <2>2, ExitTypes DEF RecoverDecide
  <2>3. CASE Goto(p, "unlink")
    BY <2>1, <2>3, GotoTypes DEF RecoverDecide, Steps, LockedSteps
  <2>4. CASE RecoverStep = "unstage" /\ GotoWith(p, "unstage", stage)
    BY <2>1, <2>4, StageDir, GotoWithTypes
       DEF RecoverDecide, RecoverStep, Steps, LockedSteps
  <2>5. CASE Exists(ingress) /\ GotoWith(p, "clean", ingress)
    BY <2>1, <2>5, IngressDir, GotoWithTypes DEF RecoverDecide, Steps, LockedSteps
  <2> QED  BY <2>1, <2>2, <2>3, <2>4, <2>5 DEF RecoverDecide
<1>3. DirFacts'
  BY TrustAssumption, DirsExist
     DEF IInv, DirTypes, ProcTypes, DirFacts, StepFacts, RecoverDecide, RecoverStep,
         Complete, Exists, Goto, GotoWith, Enter, Exit, dirs, procs, LockedSteps
<1>4. StepFacts'
  BY TrustAssumption, DirsExist
     DEF IInv, DirTypes, ProcTypes, DirFacts, StepFacts, RecoverDecide, RecoverStep,
         Complete, Exists, Goto, GotoWith, Enter, Exit, dirs, procs, LockedSteps
<1> QED  BY <1>1, <1>2, <1>3, <1>4 DEF IInv

LEMMA InstallDecideIInv ==
    ASSUME IInv, NEW p \in Procs, InstallDecide(p)
    PROVE  IInv'
<1>1. DirTypes'
  BY TrustAssumption, DirsExist
     DEF IInv, DirTypes, ProcTypes, DirFacts, StepFacts, InstallDecide, Complete,
         Exists, Goto, GotoWith, Enter, Exit, dirs, procs, LockedSteps
<1>2. ProcTypes'
  <2>1. crashes' \in Nat /\ ProcTypes
    BY DEF IInv, ProcTypes, InstallDecide
  <2>2. CASE Exit(p)
    BY <2>1, <2>2, ExitTypes DEF InstallDecide
  <2>3. CASE Goto(p, "stage")
    BY <2>1, <2>3, GotoTypes DEF InstallDecide, Steps, LockedSteps
  <2> QED  BY <2>1, <2>2, <2>3 DEF InstallDecide
<1>3. DirFacts'
  BY TrustAssumption, DirsExist
     DEF IInv, DirTypes, ProcTypes, DirFacts, StepFacts, InstallDecide, Complete,
         Exists, Goto, GotoWith, Enter, Exit, dirs, procs, LockedSteps
<1>4. StepFacts'
  BY TrustAssumption, DirsExist
     DEF IInv, DirTypes, ProcTypes, DirFacts, StepFacts, InstallDecide, Complete,
         Exists, Goto, GotoWith, Enter, Exit, dirs, procs, LockedSteps
<1> QED  BY <1>1, <1>2, <1>3, <1>4 DEF IInv

LEMMA StageIInv ==
    ASSUME IInv, NEW p \in Procs, Stage(p)
    PROVE  IInv'
<1>1. DirTypes'
  BY TrustAssumption, DirsExist
     DEF IInv, DirTypes, ProcTypes, DirFacts, StepFacts, Stage, Exists, Goto, GotoWith,
         Enter, Exit, dirs, procs, LockedSteps
<1>2. ProcTypes'
  BY TrustAssumption, DirsExist
     DEF IInv, DirTypes, ProcTypes, Steps, Stage, Exists, Goto, GotoWith, Enter, Exit,
         dirs, procs, LockedSteps
<1>3. DirFacts'
  BY TrustAssumption, DirsExist
     DEF IInv, DirTypes, ProcTypes, DirFacts, StepFacts, Stage, Exists, Goto, GotoWith,
         Enter, Exit, dirs, procs, LockedSteps
<1>4. StepFacts'
  BY TrustAssumption, DirsExist
     DEF IInv, DirTypes, ProcTypes, DirFacts, StepFacts, Stage, Exists, Goto, GotoWith,
         Enter, Exit, dirs, procs, LockedSteps
<1> QED  BY <1>1, <1>2, <1>3, <1>4 DEF IInv

LEMMA WriteJournalIInv ==
    ASSUME IInv, NEW p \in Procs, WriteJournal(p)
    PROVE  IInv'
<1>1. DirTypes'
  BY TrustAssumption, DirsExist
     DEF IInv, DirTypes, ProcTypes, DirFacts, StepFacts, WriteJournal, Exists, Goto,
         GotoWith, Enter, Exit, dirs, procs, LockedSteps
<1>2. ProcTypes'
  BY TrustAssumption, DirsExist
     DEF IInv, DirTypes, ProcTypes, Steps, WriteJournal, Exists, Goto, GotoWith, Enter,
         Exit, dirs, procs, LockedSteps
<1>3. DirFacts'
  BY TrustAssumption, DirsExist
     DEF IInv, DirTypes, ProcTypes, DirFacts, StepFacts, WriteJournal, Exists, Goto,
         GotoWith, Enter, Exit, dirs, procs, LockedSteps
<1>4. StepFacts'
  BY TrustAssumption, DirsExist
     DEF IInv, DirTypes, ProcTypes, DirFacts, StepFacts, WriteJournal, Exists, Goto,
         GotoWith, Enter, Exit, dirs, procs, LockedSteps
<1> QED  BY <1>1, <1>2, <1>3, <1>4 DEF IInv

LEMMA FillIInv ==
    ASSUME IInv, NEW p \in Procs, Fill(p)
    PROVE  IInv'
<1>1. DirTypes'
  BY TrustAssumption, DirsExist
     DEF IInv, DirTypes, ProcTypes, DirFacts, StepFacts, Fill, Exists, Goto, GotoWith,
         Enter, Exit, dirs, procs, LockedSteps
<1>2. ProcTypes'
  BY TrustAssumption, DirsExist
     DEF IInv, DirTypes, ProcTypes, Steps, Fill, Exists, Goto, GotoWith, Enter, Exit,
         dirs, procs, LockedSteps
<1>3. DirFacts'
  BY TrustAssumption, DirsExist
     DEF IInv, DirTypes, ProcTypes, DirFacts, StepFacts, Fill, Exists, Goto, GotoWith,
         Enter, Exit, dirs, procs, LockedSteps
<1>4. StepFacts'
  BY TrustAssumption, DirsExist
     DEF IInv, DirTypes, ProcTypes, DirFacts, StepFacts, Fill, Exists, Goto, GotoWith,
         Enter, Exit, dirs, procs, LockedSteps
<1> QED  BY <1>1, <1>2, <1>3, <1>4 DEF IInv

LEMMA PublishIInv ==
    ASSUME IInv, NEW p \in Procs, Publish(p)
    PROVE  IInv'
<1>1. DirTypes'
  BY TrustAssumption, DirsExist
     DEF IInv, DirTypes, ProcTypes, DirFacts, StepFacts, Publish, Complete, Exists,
         Goto, GotoWith, Enter, Exit, dirs, procs, LockedSteps
<1>2. ProcTypes'
  <2>1. crashes' \in Nat /\ ProcTypes
    BY DEF IInv, ProcTypes, Publish
  <2>2. CASE Exit(p)
    BY <2>1, <2>2, ExitTypes DEF Publish
  <2>3. CASE GotoWith(p, "clean", Names)
    BY <2>1, <2>3, GotoWithTypes DEF Publish, Steps, LockedSteps
  <2> QED  BY <2>1, <2>2, <2>3 DEF Publish
<1>3. DirFacts'
  BY TrustAssumption, DirsExist
     DEF IInv, DirTypes, ProcTypes, DirFacts, StepFacts, Publish, Complete, Exists,
         Goto, GotoWith, Enter, Exit, dirs, procs, LockedSteps
<1>4. StepFacts'
  BY TrustAssumption, DirsExist
     DEF IInv, DirTypes, ProcTypes, DirFacts, StepFacts, Publish, Complete, Exists,
         Goto, GotoWith, Enter, Exit, dirs, procs, LockedSteps
<1> QED  BY <1>1, <1>2, <1>3, <1>4 DEF IInv

LEMMA CleanIngressIInv ==
    ASSUME IInv, NEW p \in Procs, CleanIngress(p)
    PROVE  IInv'
<1>1. DirTypes'
  <2>1. Exists(ingress)
    BY DEF IInv, StepFacts, CleanIngress
  <2>2. ingress' \in (SUBSET Names) \cup {NoDir}
    BY <2>1, IngressDir DEF CleanIngress
  <2> QED  BY <2>2 DEF IInv, DirTypes, CleanIngress
<1>2. ProcTypes'
  <2>1. crashes' \in Nat /\ ProcTypes
    BY DEF IInv, ProcTypes, CleanIngress
  <2>2. CASE Exit(p)
    BY <2>1, <2>2, ExitTypes DEF CleanIngress
  <2>3. CASE Goto(p, "unlink")
    BY <2>1, <2>3, GotoTypes DEF CleanIngress, Steps, LockedSteps
  <2>4. CASE \E n \in todo[p] : GotoWith(p, "clean", todo[p] \ {n})
    BY <2>1, <2>4, GotoWithTypes DEF CleanIngress, ProcTypes, Steps, LockedSteps
  <2> QED  BY <2>1, <2>2, <2>3, <2>4 DEF CleanIngress
<1>3. DirFacts'
  BY TrustAssumption, DirsExist
     DEF IInv, DirTypes, ProcTypes, DirFacts, StepFacts, CleanIngress, Exists, Goto,
         GotoWith, Enter, Exit, dirs, procs, LockedSteps
<1>4. StepFacts'
  <2>1. /\ journal' = journal /\ stage' = stage /\ target' = target
        /\ journal = "valid" /\ Exists(target) /\ Exists(ingress)
    BY DEF IInv, StepFacts, CleanIngress
  <2>2. ingress' = NoDir => pc'[p] = "unlink"
    <3>1. ingress \in SUBSET Names
      BY <2>1, IngressDir
    <3>2. ASSUME ingress' = NoDir PROVE Goto(p, "unlink")
      <4>1. \A n \in todo[p] : Exists(ingress \ {n})
        BY <3>1, DirsExist
      <4>2. ~\E n \in todo[p] : ingress' = ingress \ {n}
        BY <3>2, <4>1 DEF Exists
      <4>3. ingress' # ingress
        BY <3>2, <2>1 DEF Exists
      <4> QED  BY <4>2, <4>3 DEF CleanIngress
    <3> QED  BY <3>2 DEF IInv, ProcTypes, Goto
  <2>3. \A q \in Procs : pc[q] \in LockedSteps => q = p
    BY DEF IInv, ProcTypes, CleanIngress, LockedSteps
  <2>4. ASSUME NEW q \in Procs, q # p
        PROVE  pc'[q] = pc[q] /\ todo'[q] = todo[q]
    BY <2>4 DEF IInv, ProcTypes, CleanIngress, Goto, GotoWith, Exit
  <2> QED
    BY <2>1, <2>2, <2>3, <2>4, DirsExist
       DEF IInv, ProcTypes, StepFacts, CleanIngress, Goto, GotoWith, Exit, LockedSteps, Exists
<1> QED  BY <1>1, <1>2, <1>3, <1>4 DEF IInv

LEMMA UnlinkJournalIInv ==
    ASSUME IInv, NEW p \in Procs, UnlinkJournal(p)
    PROVE  IInv'
<1>1. DirTypes'
  BY TrustAssumption, DirsExist
     DEF IInv, DirTypes, ProcTypes, DirFacts, StepFacts, UnlinkJournal, Exists, Goto,
         GotoWith, Enter, Exit, dirs, procs, LockedSteps
<1>2. ProcTypes'
  BY TrustAssumption, DirsExist
     DEF IInv, DirTypes, ProcTypes, Steps, UnlinkJournal, Exists, Goto, GotoWith,
         Enter, Exit, dirs, procs, LockedSteps
<1>3. DirFacts'
  BY TrustAssumption, DirsExist
     DEF IInv, DirTypes, ProcTypes, DirFacts, StepFacts, UnlinkJournal, Exists, Goto,
         GotoWith, Enter, Exit, dirs, procs, LockedSteps
<1>4. StepFacts'
  BY TrustAssumption, DirsExist
     DEF IInv, DirTypes, ProcTypes, DirFacts, StepFacts, UnlinkJournal, Exists, Goto,
         GotoWith, Enter, Exit, dirs, procs, LockedSteps
<1> QED  BY <1>1, <1>2, <1>3, <1>4 DEF IInv

LEMMA UnstageIInv ==
    ASSUME IInv, NEW p \in Procs, Unstage(p)
    PROVE  IInv'
<1>1. DirTypes'
  BY TrustAssumption, DirsExist
     DEF IInv, DirTypes, ProcTypes, DirFacts, StepFacts, Unstage, Exists, Goto,
         GotoWith, Enter, Exit, dirs, procs, LockedSteps
<1>2. ProcTypes'
  BY TrustAssumption, DirsExist
     DEF IInv, DirTypes, ProcTypes, Steps, Unstage, Exists, Goto, GotoWith, Enter,
         Exit, dirs, procs, LockedSteps
<1>3. DirFacts'
  BY TrustAssumption, DirsExist
     DEF IInv, DirTypes, ProcTypes, DirFacts, StepFacts, Unstage, Exists, Goto,
         GotoWith, Enter, Exit, dirs, procs, LockedSteps
<1>4. StepFacts'
  <2>1. /\ journal' = journal /\ ingress' = ingress /\ target' = target
        /\ journal = "valid" /\ Exists(stage) /\ ~Exists(target)
    BY DEF IInv, StepFacts, Unstage
  <2>2. stage' = NoDir => pc'[p] = "unlink-stage"
    <3>1. stage \in SUBSET (Names \cup {Partial})
      BY <2>1, StageDir
    <3>2. ASSUME stage' = NoDir PROVE Goto(p, "unlink-stage")
      <4>1. \A n \in todo[p] : Exists(stage \ {n})
        BY <3>1, DirsExist
      <4>2. ~\E n \in todo[p] : stage' = stage \ {n}
        BY <3>2, <4>1 DEF Exists
      <4> QED  BY <4>2 DEF Unstage
    <3> QED  BY <3>2 DEF IInv, ProcTypes, Goto
  <2>3. \A q \in Procs : pc[q] \in LockedSteps => q = p
    BY DEF IInv, ProcTypes, Unstage, LockedSteps
  <2>4. ASSUME NEW q \in Procs, q # p
        PROVE  pc'[q] = pc[q] /\ todo'[q] = todo[q]
    BY <2>4 DEF IInv, ProcTypes, Unstage, Goto, GotoWith, Exit
  <2> QED
    BY <2>1, <2>2, <2>3, <2>4, DirsExist
       DEF IInv, ProcTypes, StepFacts, Unstage, Goto, GotoWith, Exit, LockedSteps, Exists
<1> QED  BY <1>1, <1>2, <1>3, <1>4 DEF IInv

LEMMA UnlinkStageJournalIInv ==
    ASSUME IInv, NEW p \in Procs, UnlinkStageJournal(p)
    PROVE  IInv'
<1>1. DirTypes'
  BY TrustAssumption, DirsExist
     DEF IInv, DirTypes, ProcTypes, DirFacts, StepFacts, UnlinkStageJournal, Exists,
         Goto, GotoWith, Enter, Exit, dirs, procs, LockedSteps
<1>2. ProcTypes'
  BY TrustAssumption, DirsExist
     DEF IInv, DirTypes, ProcTypes, Steps, UnlinkStageJournal, Exists, Goto, GotoWith,
         Enter, Exit, dirs, procs, LockedSteps
<1>3. DirFacts'
  BY TrustAssumption, DirsExist
     DEF IInv, DirTypes, ProcTypes, DirFacts, StepFacts, UnlinkStageJournal, Exists,
         Goto, GotoWith, Enter, Exit, dirs, procs, LockedSteps
<1>4. StepFacts'
  BY TrustAssumption, DirsExist
     DEF IInv, DirTypes, ProcTypes, DirFacts, StepFacts, UnlinkStageJournal, Exists,
         Goto, GotoWith, Enter, Exit, dirs, procs, LockedSteps
<1> QED  BY <1>1, <1>2, <1>3, <1>4 DEF IInv

LEMMA CrashIInv ==
    ASSUME IInv, NEW p \in Procs, Crash(p)
    PROVE  IInv'
<1>1. DirTypes'
  BY TrustAssumption, DirsExist
     DEF IInv, DirTypes, ProcTypes, DirFacts, StepFacts, Crash, Exists, Goto, GotoWith,
         Enter, Exit, dirs, procs, LockedSteps
<1>2. ProcTypes'
  BY TrustAssumption, DirsExist
     DEF IInv, DirTypes, ProcTypes, Steps, Crash, Exists, Goto, GotoWith, Enter, Exit,
         dirs, procs, LockedSteps
<1>3. DirFacts'
  BY TrustAssumption, DirsExist
     DEF IInv, DirTypes, ProcTypes, DirFacts, StepFacts, Crash, Exists, Goto, GotoWith,
         Enter, Exit, dirs, procs, LockedSteps
<1>4. StepFacts'
  BY TrustAssumption, DirsExist
     DEF IInv, DirTypes, ProcTypes, DirFacts, StepFacts, Crash, Exists, Goto, GotoWith,
         Enter, Exit, dirs, procs, LockedSteps
<1> QED  BY <1>1, <1>2, <1>3, <1>4 DEF IInv

LEMMA CrashWritingIInv ==
    ASSUME IInv, NEW p \in Procs, CrashWriting(p)
    PROVE  IInv'
<1>1. DirTypes'
  BY TrustAssumption, DirsExist
     DEF IInv, DirTypes, ProcTypes, DirFacts, StepFacts, CrashWriting, Exists, Goto,
         GotoWith, Enter, Exit, dirs, procs, LockedSteps
<1>2. ProcTypes'
  BY TrustAssumption, DirsExist
     DEF IInv, DirTypes, ProcTypes, Steps, CrashWriting, Exists, Goto, GotoWith, Enter,
         Exit, dirs, procs, LockedSteps
<1>3. DirFacts'
  BY TrustAssumption, DirsExist
     DEF IInv, DirTypes, ProcTypes, DirFacts, StepFacts, CrashWriting, Exists, Goto,
         GotoWith, Enter, Exit, dirs, procs, LockedSteps
<1>4. StepFacts'
  BY TrustAssumption, DirsExist
     DEF IInv, DirTypes, ProcTypes, DirFacts, StepFacts, CrashWriting, Exists, Goto,
         GotoWith, Enter, Exit, dirs, procs, LockedSteps
<1> QED  BY <1>1, <1>2, <1>3, <1>4 DEF IInv

LEMMA DirectInstallIInv ==
    ASSUME IInv, NEW p \in Procs, NEW c \in BOOLEAN, DirectInstall(p, c)
    PROVE  IInv'
<1>1. DirTypes'
  BY TrustAssumption, DirsExist
     DEF IInv, DirTypes, ProcTypes, DirFacts, StepFacts, DirectInstall, Exists, Goto,
         GotoWith, Enter, Exit, dirs, procs, LockedSteps
<1>2. ProcTypes'
  BY TrustAssumption, DirsExist
     DEF IInv, DirTypes, ProcTypes, Steps, DirectInstall, Exists, Goto, GotoWith,
         Enter, Exit, dirs, procs, LockedSteps
<1>3. DirFacts'
  BY TrustAssumption, DirsExist
     DEF IInv, DirTypes, ProcTypes, DirFacts, StepFacts, DirectInstall, Exists, Goto,
         GotoWith, Enter, Exit, dirs, procs, LockedSteps
<1>4. StepFacts'
  BY TrustAssumption, DirsExist
     DEF IInv, DirTypes, ProcTypes, DirFacts, StepFacts, DirectInstall, Exists, Goto,
         GotoWith, Enter, Exit, dirs, procs, LockedSteps
<1> QED  BY <1>1, <1>2, <1>3, <1>4 DEF IInv

LEMMA StutterIInv == IInv /\ UNCHANGED vars => IInv'
BY DEF IInv, DirTypes, ProcTypes, DirFacts, StepFacts, vars, dirs, procs

LEMMA NextIInv == IInv /\ [Next]_vars => IInv'
<1> SUFFICES ASSUME IInv, [Next]_vars PROVE IInv'
  OBVIOUS
<1>1. CASE UNCHANGED vars
  BY <1>1, StutterIInv
<1>2. CASE Next
  <2>1. PICK p \in Procs :
           \/ RouteStart(p) \/ Route(p) \/ Install(p)
           \/ DirectInstall(p, TRUE) \/ DirectInstall(p, FALSE)
           \/ Crash(p) \/ CrashWriting(p)
    BY <1>2 DEF Next
  <2>2. CASE RouteStart(p)  BY <2>2, RouteStartIInv
  <2>3. CASE Route(p)
    BY <2>3, PrepareIInv, TransferIInv, RouteInstallIInv, LockBusyIInv DEF Route
  <2>4. CASE Install(p)
    BY <2>4, RemoveOrphanIInv, RecoverDecideIInv, InstallDecideIInv, StageIInv,
       WriteJournalIInv, FillIInv, PublishIInv, CleanIngressIInv,
       UnlinkJournalIInv, UnstageIInv, UnlinkStageJournalIInv DEF Install
  <2>5. CASE DirectInstall(p, TRUE) \/ DirectInstall(p, FALSE)
    BY <2>5, DirectInstallIInv
  <2>6. CASE Crash(p) \/ CrashWriting(p)
    BY <2>6, CrashIInv, CrashWritingIInv
  <2> QED  BY <2>1, <2>2, <2>3, <2>4, <2>5, <2>6
<1> QED  BY <1>1, <1>2

\* For any number of route runs, files and kills every variable keeps its
\* type and the flock is held exactly during the steps of install.
THEOREM TrustTypeCorrect == Spec => []TypeOK
<1>1. IInv => TypeOK
  BY Types DEF IInv
<1> QED  BY <1>1, InitIInv, NextIInv, PTL DEF Spec

\* What is published under the trust id is always the complete reviewed tree.
THEOREM TrustPublishedWhole == Spec => []PublishedWhole
<1>1. IInv => PublishedWhole
  BY DEF IInv, DirFacts, PublishedWhole, Exists
<1> QED  BY <1>1, InitIInv, NextIInv, PTL DEF Spec

\* The ingress of a journaled, unpublished transaction stays complete.
THEOREM TrustSourceKept == Spec => []SourceKept
<1>1. IInv => SourceKept
  BY DEF IInv, DirFacts, SourceKept
<1> QED  BY <1>1, InitIInv, NextIInv, PTL DEF Spec

\* A stage that no valid journal owns can always be removed.
THEOREM TrustStageOwned == Spec => []StageOwned
<1>1. IInv => StageOwned
  BY DirsExist DEF IInv, DirTypes, DirFacts, StageOwned, OrphanRemovable
<1> QED  BY <1>1, InitIInv, NextIInv, PTL DEF Spec

\* An interrupted installation keeps its source and leaves no stage that
\* nothing owns.
THEOREM TrustResumable == Spec => []Resumable
BY TrustSourceKept, TrustStageOwned, PTL DEF Resumable

\* No step of any process changes an installed trust: only Publish assigns
\* it, and it runs only while there is none.
THEOREM TrustNeverReplaced == Spec => TrustImmutable
<1>1. IInv /\ [Next]_vars => [Exists(target) => target' = target]_vars
  <2> SUFFICES ASSUME IInv, [Next]_vars, Exists(target) PROVE target' = target
    OBVIOUS
  <2> QED
    BY DEF IInv, DirTypes, ProcTypes, StepFacts, Next, Route, Install, RouteStart, Prepare,
           Transfer, RouteInstall, LockBusy, DirectInstall, RemoveOrphan,
           RecoverDecide, InstallDecide, Stage, WriteJournal, Fill, Publish,
           CleanIngress, UnlinkJournal, Unstage, UnlinkStageJournal, Crash,
           CrashWriting, vars, dirs
<1> QED  BY <1>1, InitIInv, NextIInv, PTL DEF Spec, TrustImmutable
=============================================================================
