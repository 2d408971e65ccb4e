---------------------------- MODULE AlloyProofs ----------------------------
(* Proofs about AlloyInitial, for every value of its constants. *)
EXTENDS AlloyInitial, TLAPS

(***************************************************************************)
(* The inductive invariant.  RouteFacts: a route that calls the helper has *)
(* seen every file with the bytes of its build, and a file that is there   *)
(* stays.  RecordFacts: what the records say about the unit, whoever was   *)
(* killed.  StepFacts: what the helper knows at each of its steps.         *)
(***************************************************************************)
Actions == Routes \ {"prepare"}
Reports == Statuses \cup {"none", "error"}

InputTypes ==
    /\ sources \in Builds /\ view \in Views /\ age \in {"fresh", "short", "expired"}
    /\ faults \in 0..MaxFaults /\ edits \in 0..MaxEdits

TargetTypes ==
    /\ installed \in [Files -> Builds \cup {None}]
    /\ journal \in Views \cup {None} /\ terminal \in {"none", "complete", "failed"}

Flags ==
    tmp \in BOOLEAN /\ activeState \in ActiveStates /\ unitFileState \in UnitFileStates

RouteTypes ==
    /\ opc \in [Operators -> {"idle", "inspect", "retained", "publish", "verify", "call", "wait"}]
    /\ route \in [Operators -> Routes \cup {"none"}]
    /\ build \in [Operators -> Builds \cup {None}]
    /\ todo \in [Operators -> SUBSET Files]
    /\ report \in Reports

HelperTypes ==
    /\ hpc \in {"idle", "begin", "decide", "observe", "observed", "renewal", "inputs", "records",
                "answer", "prestart", "write", "rename", "start", "ready", "stop", "stopped"}
    /\ hact \in Actions \cup {"none"} /\ hop \in Operators \cup {None}
    /\ hev \in Views \cup {None} /\ hrec \in {"none", "intent", "complete", "failed"}

USE DEF Stopped

Whole == \E b \in Builds : \A f \in Files : installed[f] = b

RouteFacts ==
    /\ \A o \in Operators :
          /\ opc[o] # "idle" => route[o] \in Routes /\ build[o] \in Builds
          /\ opc[o] \in {"call", "wait"} => \A f \in Files : installed[f] = build[o]
    /\ hop # None => /\ hpc # "idle" /\ opc[hop] = "wait"
                     /\ route[hop] = "prepare" => hact = "check"

RecordFacts ==
    /\ journal = None => starts = 0 /\ terminal = "none" /\ Stopped
    /\ starts \in {0, 1}
    /\ ~Stopped => Whole
    /\ terminal = "failed" => Stopped

StepFacts ==
    /\ hpc # "idle" => hact \in Actions /\ Whole
    /\ hpc \notin {"idle", "begin"} => hev \in Views
    /\ hpc \in {"observe", "observed", "answer"} => terminal = "complete"
    /\ hpc \in {"renewal", "inputs", "records", "answer"} => hact = "renewal"
    /\ hpc = "answer" => hev = journal
    /\ hpc = "prestart" => journal = None
    /\ hpc \in {"write", "rename"} =>
          /\ hrec # "none" /\ terminal = "none"
          /\ hrec = "intent"   => hact = "activate" /\ journal = None
          /\ hrec = "complete" => hact = "activate" /\ journal = hev
          /\ hrec = "failed"   => journal = hev /\ Stopped
    /\ hpc \in {"start", "ready"} => hact = "activate" /\ journal = hev /\ terminal = "none"
    /\ hpc = "start" => starts = 0
    /\ hpc \in {"stop", "stopped"} => journal = hev

Types == InputTypes /\ TargetTypes /\ RouteTypes /\ HelperTypes

IInv == Types /\ Flags /\ RouteFacts /\ RecordFacts /\ StepFacts

-----------------------------------------------------------------------------
LEMMA InitIInv == Init => IInv
<1> SUFFICES ASSUME Init PROVE IInv
  OBVIOUS
<1>1. InputTypes
  BY AlloyAssumption DEF Init, InputTypes
<1>2. TargetTypes /\ RouteTypes /\ HelperTypes
  BY DEF Init, TargetTypes, RouteTypes, HelperTypes, Reports
<1>3. Flags
  BY DEF Init, Flags, ActiveStates, UnitFileStates
<1>4. RouteFacts /\ RecordFacts /\ StepFacts
  BY DEF Init, RouteFacts, RecordFacts, StepFacts
<1> QED  BY <1>1, <1>2, <1>3, <1>4 DEF IInv, Types

-----------------------------------------------------------------------------
(***************************************************************************)
(* The routes.                                                             *)
(***************************************************************************)

\* A file that is there is never changed.
LEMMA FilesKept ==
  ASSUME IInv, \A f \in Files : installed[f] # None => installed'[f] = installed[f]
  PROVE  /\ Whole => Whole'
         /\ \A o \in Operators :
               opc[o] \in {"call", "wait"} => \A f \in Files : installed'[f] = build[o]
<1> USE AlloyAssumption
<1>1. Whole => Whole'
  BY DEF Whole
<1>2. ASSUME NEW o \in Operators, opc[o] \in {"call", "wait"}, NEW f \in Files
      PROVE  installed'[f] = build[o]
  BY <1>2 DEF IInv, RouteFacts
<1> QED  BY <1>1, <1>2

\* A route that fails or ends, while the helper is not working for it.
LEMMA EndsKeeps ==
  ASSUME IInv, NEW o \in Operators, NEW r \in Reports, Ends(o, r),
         UNCHANGED <<hpc, hact, installed>>, hop' = IF hop = o THEN None ELSE hop
  PROVE  RouteTypes' /\ RouteFacts'
<1> USE DEF IInv, Types, RouteTypes, RouteFacts, Ends, At
<1>1. RouteTypes'
  OBVIOUS
<1>2. RouteFacts'
  BY DEF HelperTypes
<1> QED  BY <1>1, <1>2

LEMMA BeginKeepsIInv ==
  ASSUME IInv, NEW o \in Operators, NEW r \in Routes, Begin(o, r)
  PROVE  IInv'
<1> USE DEF IInv, Begin, At
<1>1. /\ UNCHANGED <<input, target, unit, helper, faults>>
  OBVIOUS
<1>2. Flags'
  BY <1>1 DEF Flags, target, unit
<1>3. InputTypes' /\ TargetTypes' /\ HelperTypes'
  BY <1>1 DEF Types, InputTypes, TargetTypes, HelperTypes, input, target, unit, helper
<1>4. RouteTypes'
  BY DEF Types, RouteTypes, Reports, InputTypes
<1>5. RouteFacts'
  BY <1>1 DEF Types, RouteTypes, RouteFacts, InputTypes, HelperTypes, helper, target
<1>6. RecordFacts' /\ StepFacts'
  BY <1>1 DEF RecordFacts, StepFacts, Whole, target, unit, helper
<1> QED  BY <1>2, <1>3, <1>4, <1>5, <1>6 DEF Types

\* A step of a route that leaves the host alone.
LEMMA WorkKeepsIInv ==
  ASSUME IInv, NEW o \in Operators,
         Inspect(o) \/ Retained(o) \/ Published(o) \/ Verify(o)
  PROVE  IInv'
<1> USE DEF IInv
<1>1. UNCHANGED <<input, target, unit, helper, faults>>
  BY DEF Inspect, Retained, Published, Verify
<1>2. Flags'
  BY <1>1 DEF Flags, target, unit
<1>3. InputTypes' /\ TargetTypes' /\ HelperTypes'
  BY <1>1 DEF Types, InputTypes, TargetTypes, HelperTypes, input, target, unit, helper
<1>4. RecordFacts' /\ StepFacts'
  BY <1>1 DEF RecordFacts, StepFacts, Whole, target, unit, helper
<1>5. RouteTypes' /\ RouteFacts'
  <2>0. opc[o] \notin {"idle", "wait"}
    BY DEF Inspect, Retained, Published, Verify
  <2>1. CASE Fails(o)
    <3>1. hop # o
      BY <2>0, AlloyAssumption DEF RouteFacts
    <3>2. UNCHANGED <<hpc, hact, hop, installed>>
      BY <1>1 DEF helper, target
    <3> QED  BY <2>1, <3>1, <3>2, EndsKeeps DEF Fails, Reports
  <2>2. CASE ~Fails(o)
    <3>1. PICK step \in {"retained", "publish", "verify", "call"} :
            /\ opc' = [opc EXCEPT ![o] = step]
            /\ step = "call" => Matches(o, FALSE)
            /\ UNCHANGED <<route, build, report>>
            /\ todo' \in [Operators -> SUBSET Files]
      BY <2>2 DEF Inspect, Retained, Published, Verify, Proceeds, At, Types, RouteTypes
    <3> QED
      BY <1>1, <2>0, <3>1
         DEF Types, RouteTypes, RouteFacts, HelperTypes, Matches, helper, target
  <2> QED  BY <2>1, <2>2
<1> QED  BY <1>2, <1>3, <1>4, <1>5 DEF Types

LEMMA PublishKeepsIInv ==
  ASSUME IInv, NEW o \in Operators, NEW f \in Files, Publish(o, f)
  PROVE  IInv'
<1> USE DEF IInv, Publish
<1>1. \A g \in Files : installed[g] # None => installed'[g] = installed[g]
  BY DEF Types, TargetTypes
<1>2. Flags'
  BY DEF Flags, unit
<1>3. build[o] \in Builds
  BY DEF RouteFacts
<1>4. InputTypes' /\ TargetTypes' /\ RouteTypes' /\ HelperTypes'
  BY <1>3 DEF Types, InputTypes, TargetTypes, RouteTypes, HelperTypes, input, unit, helper
<1>5. RouteFacts'
  BY <1>1, FilesKept DEF RouteFacts, helper
<1>6. RecordFacts' /\ StepFacts'
  <2>1. Whole => Whole'
    BY <1>1, FilesKept
  <2> HIDE DEF Whole
  <2> QED  BY <2>1 DEF RecordFacts, StepFacts, unit, helper
<1> QED  BY <1>2, <1>4, <1>5, <1>6 DEF Types

LEMMA CallKeepsIInv ==
  ASSUME IInv, NEW o \in Operators, Call(o)
  PROVE  IInv'
<1> USE DEF IInv, Call
<1>1. UNCHANGED <<input, target, unit, faults>> /\ opc[o] = "call"
  OBVIOUS
<1>2. Flags'
  BY <1>1 DEF Flags, target, unit
<1>3. InputTypes' /\ TargetTypes' /\ RecordFacts'
  BY <1>1 DEF Types, InputTypes, TargetTypes, RecordFacts, Whole, input, target, unit
<1>4. CASE Fails(o)
  <2>1. hop # o
    BY <1>1, AlloyAssumption DEF RouteFacts
  <2>2. UNCHANGED helper
    BY <1>4 DEF Fails, Ends, Proceeds, At, Types, RouteTypes
  <2>3. RouteTypes' /\ RouteFacts'
    BY <1>1, <1>4, <2>1, <2>2, EndsKeeps DEF Fails, Reports, helper, target
  <2>4. HelperTypes' /\ StepFacts'
    BY <1>1, <2>2 DEF Types, HelperTypes, StepFacts, Whole, helper, target, unit
  <2> QED  BY <1>2, <1>3, <2>3, <2>4 DEF Types
<1>5. CASE ~Fails(o)
  <2>1. /\ hpc = "idle" /\ hpc' = "begin" /\ hop' = o /\ UNCHANGED <<hev, hrec>>
        /\ hact' = (IF route[o] = "prepare" THEN "check" ELSE route[o])
        /\ opc' = [opc EXCEPT ![o] = "wait"] /\ UNCHANGED <<route, build, todo, report>>
    BY <1>5 DEF Proceeds, At
  <2>2. /\ route[o] \in Routes /\ build[o] \in Builds
        /\ \A f \in Files : installed[f] = build[o]
    BY <1>1 DEF RouteFacts
  <2>3. hact' \in Actions
    BY <2>1, <2>2 DEF Actions, Routes
  <2>4. RouteTypes' /\ RouteFacts'
    BY <1>1, <2>1, <2>2 DEF Types, RouteTypes, RouteFacts, HelperTypes, target
  <2>5. HelperTypes' /\ StepFacts'
    BY <1>1, <2>1, <2>2, <2>3 DEF Types, HelperTypes, StepFacts, Whole, target, unit
  <2> QED  BY <1>2, <1>3, <2>4, <2>5 DEF Types
<1> QED  BY <1>4, <1>5

LEMMA AbandonKeepsIInv ==
  ASSUME IInv, NEW o \in Operators, Abandon(o)
  PROVE  IInv'
<1> USE DEF IInv, Abandon
<1>1. /\ UNCHANGED <<input, target, unit, hpc, hact, hev, hrec>>
      /\ hop' = (IF hop = o THEN None ELSE hop)
      /\ faults' \in 0..MaxFaults
  BY AlloyAssumption DEF Fault, Types, InputTypes
<1>2. Flags'
  BY <1>1 DEF Flags, target, unit
<1>3. InputTypes' /\ TargetTypes' /\ HelperTypes'
  BY <1>1 DEF Types, InputTypes, TargetTypes, HelperTypes, input, target
<1>4. RouteTypes' /\ RouteFacts'
  BY <1>1, EndsKeeps DEF Fails, Reports, target
<1>5. RecordFacts' /\ StepFacts'
  BY <1>1 DEF RecordFacts, StepFacts, Whole, target, unit
<1> QED  BY <1>2, <1>3, <1>4, <1>5 DEF Types

-----------------------------------------------------------------------------
(***************************************************************************)
(* The helper.  A step goes on, perhaps with a record to write, or answers.*)
(***************************************************************************)

\* The answer ends the helper and, if it still waits, its route.
LEMMA AnswerKeeps ==
  ASSUME IInv, NEW r \in Reports, Answer(r), UNCHANGED installed
  PROVE  RouteTypes' /\ RouteFacts' /\ HelperTypes' /\ StepFacts'
<1> USE DEF IInv, Answer
<1>1. HelperTypes' /\ StepFacts'
  BY DEF HelperTypes, StepFacts
<1>2. CASE hop = None
  BY <1>1, <1>2 DEF operator, Types, RouteTypes, RouteFacts
<1>3. CASE hop # None
  <2>1. hop \in Operators /\ Ends(hop, r)
    BY <1>3 DEF Types, HelperTypes
  <2> QED
    BY <1>1, <2>1 DEF Ends, At, Types, RouteTypes, RouteFacts
<1> QED  BY <1>1, <1>2, <1>3

\* The helper goes on.
Onward == /\ hpc # "idle" /\ hpc' # "idle"
          /\ UNCHANGED <<hact, hop, operator>>

LEMMA OnwardKeeps ==
  ASSUME IInv, Onward, UNCHANGED installed
  PROVE  RouteTypes' /\ RouteFacts'
  BY DEF IInv, Onward, operator, Types, RouteTypes, RouteFacts

\* What a step leaves alone.
LEMMA HostKept ==
  ASSUME IInv, UNCHANGED <<input, target, unit, faults>>
  PROVE  InputTypes' /\ TargetTypes' /\ Flags' /\ RecordFacts' /\ UNCHANGED installed
<1> USE DEF IInv
<1>1. Flags'
  BY DEF Flags, target, unit
<1>2. InputTypes' /\ TargetTypes' /\ RecordFacts'
  BY DEF Types, InputTypes, TargetTypes, RecordFacts, Whole, input, target, unit
<1> QED  BY <1>1, <1>2 DEF target

LEMMA RepliesAccepted ==
  ASSUME IInv, NEW s \in Statuses, NEW c \in BOOLEAN, Accepts(hact, s, c), Reply(s, c)
  PROVE  \E r \in {s, "error"} : Answer(r)
  BY DEF Reply

\* An answer that changed nothing on the host.
LEMMA QuietAnswer ==
  ASSUME IInv, NEW r \in Reports, Answer(r), UNCHANGED <<input, target, unit, faults>>
  PROVE  IInv'
  BY HostKept, AnswerKeeps DEF IInv, Types

LEMMA RejectedKeepsIInv ==
  ASSUME IInv, Rejected, UNCHANGED <<input, target, unit, faults>>
  PROVE  IInv'
  BY QuietAnswer DEF Rejected, Reports

LEMMA AuthenticateKeepsIInv == IInv /\ Authenticate => IInv'
<1> SUFFICES ASSUME IInv, Authenticate PROVE IInv'
  OBVIOUS
<1>1. UNCHANGED <<input, target, unit, faults>> /\ hpc = "begin"
  BY DEF Authenticate
<1>2. CASE Rejected
  BY <1>1, <1>2, RejectedKeepsIInv
<1>3. CASE ~Rejected
  <2>1. hpc' = "decide" /\ hev' = view /\ UNCHANGED <<hact, hop, hrec, operator>>
    BY <1>3 DEF Authenticate
  <2>2. RouteTypes' /\ RouteFacts'
    BY <1>1, <2>1, OnwardKeeps, HostKept DEF Onward
  <2>3. HelperTypes' /\ StepFacts'
    BY <1>1, <2>1 DEF IInv, Types, InputTypes, HelperTypes, StepFacts, Whole, target
  <2> QED  BY <1>1, <2>2, <2>3, HostKept DEF IInv, Types
<1> QED  BY <1>2, <1>3

LEMMA DecideKeepsIInv == IInv /\ Decide => IInv'
<1> SUFFICES ASSUME IInv, Decide PROVE IInv'
  OBVIOUS
<1>1. UNCHANGED <<input, target, unit, faults>> /\ hpc = "decide"
  BY DEF Decide
<1>0. hact \in Actions /\ hev \in Views
  BY <1>1 DEF IInv, StepFacts
<1>2. CASE Rejected
  BY <1>1, <1>2, RejectedKeepsIInv
<1>3. CASE Reply("failed", FALSE) /\ hact \notin {"activate", "renewal"}
  <2>1. Accepts(hact, "failed", FALSE) /\ "failed" \in Statuses /\ FALSE \in BOOLEAN
    BY <1>0, <1>3 DEF Accepts, Actions, Routes, Statuses
  <2> QED  BY <1>1, <1>3, <2>1, RepliesAccepted, QuietAnswer DEF Reports
<1>4. CASE Reply("recovery-required", FALSE) /\ hact = "status"
  <2>1. Accepts(hact, "recovery-required", FALSE)
        /\ "recovery-required" \in Statuses /\ FALSE \in BOOLEAN
    BY <1>4 DEF Accepts, Statuses
  <2> QED  BY <1>1, <1>4, <2>1, RepliesAccepted, QuietAnswer DEF Reports
<1>5. ASSUME NEW step \in {"observe", "stop", "prestart"}, Goto(step),
             step = "observe" => terminal = "complete",
             step = "stop" => IntentOnly,
             step = "prestart" => journal = None
      PROVE  IInv'
  <2>1. hpc' = step /\ UNCHANGED <<hact, hop, hev, hrec, operator>>
    BY <1>5 DEF Goto
  <2>2. RouteTypes' /\ RouteFacts'
    BY <1>1, <2>1, OnwardKeeps, HostKept DEF Onward
  <2>3. HelperTypes' /\ StepFacts'
    BY <1>1, <1>5, <2>1
       DEF IInv, Types, InputTypes, HelperTypes, StepFacts, Whole, target, IntentOnly,
           RecordsKnown
  <2> QED  BY <1>1, <2>2, <2>3, HostKept DEF IInv, Types
<1> QED  BY <1>2, <1>3, <1>4, <1>5 DEF Decide

\* A helper that looks goes on to its next look.
LEMMA NextLook ==
  ASSUME IInv, UNCHANGED <<input, target, unit, faults>>, hpc # "idle",
         hpc' \in {"observed", "renewal", "inputs", "records", "answer"},
         hev \in Views, UNCHANGED <<hact, hop, hev, hrec, operator>>,
         hpc' \in {"observed", "answer"} => terminal = "complete",
         hpc' # "observed" => hact = "renewal",
         hpc' = "answer" => hev = journal
  PROVE  IInv'
<1>1. RouteTypes' /\ RouteFacts'
  BY OnwardKeeps, HostKept DEF Onward
<1>2. HelperTypes' /\ StepFacts'
  BY DEF IInv, Types, HelperTypes, StepFacts, Whole, target
<1> QED  BY <1>1, <1>2, HostKept DEF IInv, Types

LEMMA ObserveKeepsIInv == IInv /\ (Observe \/ Observed) => IInv'
<1> SUFFICES ASSUME IInv, Observe \/ Observed PROVE IInv'
  OBVIOUS
<1>1. /\ UNCHANGED <<input, target, unit, faults>> /\ hpc \in {"observe", "observed"}
      /\ hact \in Actions /\ hev \in Views /\ terminal = "complete"
  BY DEF Observe, Observed, IInv, StepFacts
<1>2. CASE Rejected
  BY <1>1, <1>2, RejectedKeepsIInv
<1>3. CASE Reply("complete", FALSE) /\ hact # "renewal"
  <2>1. Accepts(hact, "complete", FALSE) /\ "complete" \in Statuses /\ FALSE \in BOOLEAN
    BY <1>1, <1>3 DEF Accepts, Actions, Routes, Statuses
  <2> QED  BY <1>1, <1>3, <2>1, RepliesAccepted, QuietAnswer DEF Reports
<1>4. CASE /\ hpc' = "observed" \/ (hpc' = "renewal" /\ hact = "renewal")
           /\ UNCHANGED <<hact, hop, hev, hrec, operator>>
  BY <1>1, <1>4, NextLook
<1> QED  BY <1>2, <1>3, <1>4 DEF Observe, Observed, Goto

Renew == RenewalUnit \/ RenewalInputs \/ RenewalRecords \/ RenewalAnswer

LEMMA RenewKeepsIInv == IInv /\ Renew => IInv'
<1> SUFFICES ASSUME IInv, Renew PROVE IInv'
  OBVIOUS
<1>1. /\ UNCHANGED <<input, target, unit, faults>>
      /\ hpc \in {"renewal", "inputs", "records", "answer"}
      /\ hact = "renewal" /\ hev \in Views
  BY DEF Renew, RenewalUnit, RenewalInputs, RenewalRecords, RenewalAnswer, IInv, StepFacts
<1>2. CASE Rejected
  BY <1>1, <1>2, RejectedKeepsIInv
<1>3. CASE Reply("verified", FALSE)
  <2>1. Accepts(hact, "verified", FALSE) /\ "verified" \in Statuses /\ FALSE \in BOOLEAN
    BY <1>1 DEF Accepts, Statuses
  <2> QED  BY <1>1, <1>3, <2>1, RepliesAccepted, QuietAnswer DEF Reports
<1>4. CASE hpc' \in {"inputs", "records"} /\ UNCHANGED <<hact, hop, hev, hrec, operator>>
  BY <1>1, <1>4, NextLook
<1>5. CASE RenewalRecords /\ Goto("answer")
  <2>1. /\ hpc' = "answer" /\ UNCHANGED <<hact, hop, hev, hrec, operator>>
    BY <1>5 DEF Goto
  <2>2. CASE Rejected
    BY <1>1, <2>2, RejectedKeepsIInv
  <2>3. CASE ~Rejected
    <3>1. RecordsKnown /\ terminal = "complete"
      BY <1>5, <2>3 DEF RenewalRecords
    <3>2. hev = journal
      BY <3>1 DEF RecordsKnown, IInv, RecordFacts
    <3> QED  BY <1>1, <2>1, <3>1, <3>2, NextLook
  <2> QED  BY <2>2, <2>3
<1> QED
  BY <1>2, <1>3, <1>4, <1>5
     DEF Renew, RenewalUnit, GotoInputs, RenewalInputs, RenewalRecords, RenewalAnswer, Goto

\* A record is to be written next.
LEMMA WriteNext ==
  ASSUME IInv, hpc # "idle", hev \in Views, UNCHANGED <<input, target, unit, faults>>,
         NEW k \in {"intent", "complete", "failed"},
         hpc' = "write", hrec' = k, UNCHANGED <<hact, hop, hev, operator>>,
         terminal = "none",
         k = "intent"   => hact = "activate" /\ journal = None,
         k = "complete" => hact = "activate" /\ journal = hev,
         k = "failed"   => journal = hev /\ Stopped
  PROVE  IInv'
<1>1. RouteTypes' /\ RouteFacts'
  BY OnwardKeeps, HostKept DEF Onward
<1>2. HelperTypes'
  BY DEF IInv, Types, HelperTypes
<1>3. StepFacts'
  BY DEF IInv, StepFacts, Whole, target, unit
<1> QED  BY <1>1, <1>2, <1>3, HostKept DEF IInv, Types

LEMMA PrestartKeepsIInv == IInv /\ Prestart => IInv'
<1> SUFFICES ASSUME IInv, Prestart PROVE IInv'
  OBVIOUS
<1>1. UNCHANGED <<input, target, unit, faults>> /\ hpc = "prestart"
  BY DEF Prestart
<1>0. journal = None /\ terminal = "none" /\ hev \in Views
  BY <1>1 DEF IInv, StepFacts, RecordFacts
<1>2. CASE Rejected
  BY <1>1, <1>2, RejectedKeepsIInv
<1>3. CASE Reply("prepared", FALSE) /\ hact \in {"status", "recover", "check"}
  <2>1. Accepts(hact, "prepared", FALSE) /\ "prepared" \in Statuses /\ FALSE \in BOOLEAN
    BY <1>3 DEF Accepts, Statuses
  <2> QED  BY <1>1, <1>3, <2>1, RepliesAccepted, QuietAnswer DEF Reports
<1>4. CASE /\ hact = "activate" /\ hpc' = "write" /\ hrec' = "intent"
           /\ UNCHANGED <<hact, hop, hev, operator>>
  BY <1>0, <1>1, <1>4, WriteNext
<1> QED  BY <1>2, <1>3, <1>4 DEF Prestart, Writes

LEMMA ReadyKeepsIInv == IInv /\ Ready => IInv'
<1> SUFFICES ASSUME IInv, Ready PROVE IInv'
  OBVIOUS
<1>1. UNCHANGED <<input, target, unit, faults>> /\ hpc = "ready"
  BY DEF Ready
<1>0. hact = "activate" /\ journal = hev /\ terminal = "none" /\ hev \in Views
  BY <1>1 DEF IInv, StepFacts
<1>2. CASE /\ hpc' = "write" /\ hrec' = "complete"
           /\ UNCHANGED <<hact, hop, hev, operator>>
  BY <1>0, <1>1, <1>2, WriteNext
<1>3. CASE Goto("stop")
  <2>1. hpc' = "stop" /\ UNCHANGED <<hact, hop, hev, hrec, operator>>
    BY <1>3 DEF Goto
  <2>2. RouteTypes' /\ RouteFacts'
    BY <1>1, <2>1, OnwardKeeps, HostKept DEF Onward
  <2>3. HelperTypes' /\ StepFacts'
    BY <1>0, <1>1, <2>1 DEF IInv, Types, HelperTypes, StepFacts, Whole, target
  <2> QED  BY <1>1, <2>2, <2>3, HostKept DEF IInv, Types
<1> QED  BY <1>2, <1>3 DEF Ready, Writes

LEMMA StopVerifiedKeepsIInv == IInv /\ StopVerified => IInv'
<1> SUFFICES ASSUME IInv, StopVerified PROVE IInv'
  OBVIOUS
<1>1. UNCHANGED <<input, target, unit, faults>> /\ hpc = "stopped"
  BY DEF StopVerified
<1>0. journal = hev /\ hev \in Views
  BY <1>1 DEF IInv, StepFacts
<1>2. CASE Rejected
  BY <1>1, <1>2, RejectedKeepsIInv
<1>3. CASE ~Rejected
  <2>1. /\ Stopped /\ IntentOnly
        /\ hpc' = "write" /\ hrec' = "failed" /\ UNCHANGED <<hact, hop, hev, operator>>
    BY <1>3 DEF StopVerified, Writes
  <2>2. terminal = "none"
    BY <2>1 DEF IntentOnly
  <2> QED  BY <1>0, <1>1, <2>1, <2>2, WriteNext
<1> QED  BY <1>2, <1>3

LEMMA WriteTmpKeepsIInv == IInv /\ WriteTmp => IInv'
<1> SUFFICES ASSUME IInv, WriteTmp PROVE IInv'
  OBVIOUS
<1> USE DEF IInv
<1>1. /\ hpc = "write" /\ UNCHANGED <<input, installed, journal, terminal, unit>>
      /\ faults' \in 0..MaxFaults
  BY AlloyAssumption DEF WriteTmp, Fault, Types, InputTypes
<1>0. tmp' \in BOOLEAN
  BY DEF WriteTmp, Flags
<1>2. Flags'
  BY <1>0, <1>1 DEF Flags, unit
<1>3. InputTypes' /\ TargetTypes' /\ RecordFacts'
  BY <1>1 DEF Types, InputTypes, TargetTypes, RecordFacts, Whole, input, unit
<1>4. CASE Rejected
  BY <1>1, <1>2, <1>3, <1>4, AnswerKeeps DEF Rejected, Reports, Types
<1>5. CASE \/ Goto("rename")
           \/ Goto("stop") /\ hrec = "complete"
  <2>1. /\ hpc' = "rename" \/ (hpc' = "stop" /\ hrec = "complete")
        /\ UNCHANGED <<hact, hop, hev, hrec, operator>>
    BY <1>5 DEF Goto
  <2>2. RouteTypes' /\ RouteFacts'
    BY <1>1, <2>1, OnwardKeeps DEF Onward
  <2>3. HelperTypes' /\ StepFacts'
    BY <1>1, <2>1 DEF Types, HelperTypes, StepFacts, Whole, unit
  <2> QED  BY <1>2, <1>3, <2>2, <2>3 DEF Types
<1> QED  BY <1>4, <1>5 DEF WriteTmp, Caught

\* Either the record got its name, or nothing was written.
LEMMA RenameKeepsIInv == IInv /\ Rename => IInv'
<1> SUFFICES ASSUME IInv, Rename PROVE IInv'
  OBVIOUS
<1> USE DEF IInv
<1>1. /\ hpc = "rename" /\ UNCHANGED <<input, installed, unit>>
      /\ faults' \in 0..MaxFaults
  <2>1. hpc = "rename" /\ UNCHANGED <<input, installed, unit>> /\ (Fault \/ UNCHANGED faults)
    BY DEF Rename
  <2> QED  BY <2>1, AlloyAssumption DEF Fault, Types, InputTypes
<1>0. tmp' \in BOOLEAN
  BY DEF Rename, Named
<1>2. /\ hev \in Views /\ hrec # "none" /\ terminal = "none" /\ Whole
      /\ hact \in Actions
      /\ hrec = "intent"   => hact = "activate" /\ journal = None
      /\ hrec = "complete" => hact = "activate" /\ journal = hev
      /\ hrec = "failed"   => journal = hev /\ Stopped
  BY <1>1 DEF StepFacts
<1>3. \/ Named
      \/ UNCHANGED <<journal, terminal>> /\ Caught
  BY DEF Rename
<1>4. Flags'
  BY <1>0, <1>1 DEF Flags, unit
<1>5. Whole'
  BY <1>1, <1>2 DEF Whole
<1>6. InputTypes' /\ TargetTypes'
  BY <1>1, <1>2, <1>3 DEF Types, InputTypes, TargetTypes, HelperTypes, Named, input
<1>7. RecordFacts'
  <2>1. UNCHANGED starts /\ Stopped' = Stopped
    BY <1>1 DEF unit, Stopped
  <2>2. journal' # None \/ (journal = None /\ terminal' = "none")
    BY <1>2, <1>3, AlloyAssumption DEF Named, Types, HelperTypes
  <2>3. terminal' = "failed" => Stopped
    BY <1>2, <1>3 DEF Named
  <2> HIDE DEF Whole
  <2> QED  BY <1>5, <2>1, <2>2, <2>3 DEF RecordFacts
<1>8. ASSUME NEW r \in Reports, Answer(r) PROVE IInv'
  BY <1>1, <1>4, <1>6, <1>7, <1>8, AnswerKeeps DEF Types
<1>9. CASE Goto("start") /\ Named /\ hrec = "intent"
  <2>1. hpc' = "start" /\ UNCHANGED <<hact, hop, hev, hrec, operator>>
    BY <1>9 DEF Goto
  <2>2. RouteTypes' /\ RouteFacts'
    BY <1>1, <2>1, OnwardKeeps DEF Onward
  <2>3. HelperTypes' /\ StepFacts'
    BY <1>1, <1>2, <1>5, <1>9, <2>1
       DEF Types, HelperTypes, StepFacts, RecordFacts, Named, unit
  <2> QED  BY <1>4, <1>6, <1>7, <2>2, <2>3 DEF Types
<1>10. CASE Goto("stop") /\ hrec = "complete"
  <2>1. hpc' = "stop" /\ UNCHANGED <<hact, hop, hev, hrec, operator>>
    BY <1>10 DEF Goto
  <2>2. RouteTypes' /\ RouteFacts'
    BY <1>1, <2>1, OnwardKeeps DEF Onward
  <2>3. HelperTypes' /\ StepFacts'
    BY <1>1, <1>2, <1>3, <1>5, <1>10, <2>1 DEF Types, HelperTypes, StepFacts, Named
  <2> QED  BY <1>4, <1>6, <1>7, <2>2, <2>3 DEF Types
<1>11. CASE Reply("complete", TRUE) /\ hrec = "complete"
  <2>1. Accepts(hact, "complete", TRUE) /\ "complete" \in Statuses /\ TRUE \in BOOLEAN
    BY <1>2, <1>11 DEF Accepts, Statuses
  <2> QED  BY <1>8, <1>11, <2>1, RepliesAccepted DEF Reports
<1>12. CASE Reply("failed", TRUE) /\ hact = "recover"
  <2>1. Accepts(hact, "failed", TRUE) /\ "failed" \in Statuses /\ TRUE \in BOOLEAN
    BY <1>12 DEF Accepts, Statuses
  <2> QED  BY <1>8, <1>12, <2>1, RepliesAccepted DEF Reports
<1>13. CASE Rejected
  BY <1>8, <1>13 DEF Rejected, Reports
<1> QED  BY <1>9, <1>10, <1>11, <1>12, <1>13 DEF Rename, Caught

LEMMA StartKeepsIInv == IInv /\ Start => IInv'
<1> SUFFICES ASSUME IInv, Start PROVE IInv'
  OBVIOUS
<1> USE DEF IInv
<1>1. /\ hpc = "start" /\ UNCHANGED <<input, target>> /\ faults' \in 0..MaxFaults
      /\ starts' \in {starts, starts + 1}
  BY AlloyAssumption DEF Start, Fault, Types, InputTypes, unit
<1>2. /\ hact = "activate" /\ journal = hev /\ hev \in Views /\ terminal = "none"
      /\ starts = 0 /\ Whole
  BY <1>1 DEF StepFacts
<1>3. Whole'
  BY <1>1, <1>2 DEF Whole, target
<1>4. Flags'
  BY <1>1 DEF Start, Flags, ActiveStates, UnitFileStates, unit, target
<1>5. InputTypes' /\ TargetTypes'
  BY <1>1 DEF Types, InputTypes, TargetTypes, input, target
<1>6. RecordFacts'
  BY <1>1, <1>2, <1>3, AlloyAssumption DEF RecordFacts, target
<1>7. PICK step \in {"stop", "ready"} : Goto(step)
  BY DEF Start
<1>8. hpc' = step /\ UNCHANGED <<hact, hop, hev, hrec, operator>>
  BY <1>7 DEF Goto
<1>9. RouteTypes' /\ RouteFacts'
  BY <1>1, <1>8, OnwardKeeps DEF Onward, target
<1>10. HelperTypes' /\ StepFacts'
  BY <1>1, <1>2, <1>3, <1>8 DEF Types, HelperTypes, StepFacts, target
<1> QED  BY <1>4, <1>5, <1>6, <1>9, <1>10 DEF Types

LEMMA StopKeepsIInv == IInv /\ Stop => IInv'
<1> SUFFICES ASSUME IInv, Stop PROVE IInv'
  OBVIOUS
<1> USE DEF IInv
<1>1. /\ hpc = "stop" /\ UNCHANGED <<input, target, starts>> /\ faults' \in 0..MaxFaults
  <2>1. /\ hpc = "stop" /\ UNCHANGED <<input, target, starts>>
        /\ Fault \/ UNCHANGED faults
    BY DEF Stop, unit
  <2> QED  BY <2>1, AlloyAssumption DEF Fault, Types, InputTypes
<1>0. Stopped => Stopped'
  BY DEF Stop, Disabled, Stopped, unit
<1>2. Flags'
  BY <1>1 DEF Stop, Disabled, Flags, ActiveStates, UnitFileStates, target, unit
<1>3. InputTypes' /\ TargetTypes'
  BY <1>1 DEF Types, InputTypes, TargetTypes, input, target
<1>4. RecordFacts'
  <2>1. UNCHANGED <<journal, terminal, starts>> /\ (Whole => Whole')
    BY <1>1 DEF Whole, target
  <2> HIDE DEF Whole
  <2> QED  BY <1>0, <2>1 DEF RecordFacts
<1>5. CASE Rejected
  BY <1>1, <1>2, <1>3, <1>4, <1>5, AnswerKeeps DEF Rejected, Reports, Types, target
<1>6. CASE Goto("stopped")
  <2>1. hpc' = "stopped" /\ UNCHANGED <<hact, hop, hev, hrec, operator>>
    BY <1>6 DEF Goto
  <2>2. RouteTypes' /\ RouteFacts'
    BY <1>1, <2>1, OnwardKeeps DEF Onward, target
  <2>3. HelperTypes' /\ StepFacts'
    BY <1>1, <2>1 DEF Types, HelperTypes, StepFacts, Whole, target
  <2> QED  BY <1>2, <1>3, <1>4, <2>2, <2>3 DEF Types
<1> QED  BY <1>5, <1>6 DEF Stop

LEMMA ExecuteKeepsIInv == IInv /\ Execute => IInv'
  BY AuthenticateKeepsIInv, DecideKeepsIInv, ObserveKeepsIInv, RenewKeepsIInv, PrestartKeepsIInv,
     WriteTmpKeepsIInv, RenameKeepsIInv, StartKeepsIInv, ReadyKeepsIInv, StopKeepsIInv,
     StopVerifiedKeepsIInv DEF Execute, Renew

-----------------------------------------------------------------------------
(***************************************************************************)
(* The surroundings.                                                       *)
(***************************************************************************)
LEMMA KilledKeepsIInv == IInv /\ (KillHelper \/ Reboot) => IInv'
<1> SUFFICES ASSUME IInv, KillHelper \/ Reboot PROVE IInv'
  OBVIOUS
<1> USE DEF IInv
<1>1. /\ UNCHANGED <<input, target, starts>> /\ faults' \in 0..MaxFaults
      /\ Rejected \/ (hpc = "idle" /\ UNCHANGED <<operator, helper>>)
  BY AlloyAssumption DEF KillHelper, Reboot, Fault, Types, InputTypes, unit
<1>0. Stopped => Stopped'
  BY DEF KillHelper, Reboot, unit
<1>2. Flags'
  BY <1>1 DEF KillHelper, Reboot, Flags, ActiveStates, target, unit
<1>3. InputTypes' /\ TargetTypes'
  BY <1>1 DEF Types, InputTypes, TargetTypes, input, target
<1>4. RecordFacts'
  <2>1. UNCHANGED <<journal, terminal, starts>> /\ (Whole => Whole')
    BY <1>1 DEF Whole, target
  <2> HIDE DEF Whole, Stopped
  <2> QED  BY <1>0, <2>1 DEF RecordFacts
<1>5. CASE Rejected
  BY <1>1, <1>2, <1>3, <1>4, <1>5, AnswerKeeps DEF Rejected, Reports, Types, target
<1>6. CASE hpc = "idle" /\ UNCHANGED <<operator, helper>>
  <2>1. RouteTypes' /\ RouteFacts' /\ HelperTypes' /\ StepFacts'
    BY <1>1, <1>6
       DEF Types, RouteTypes, RouteFacts, HelperTypes, StepFacts, operator, helper, target
  <2> QED  BY <1>2, <1>3, <1>4, <2>1 DEF Types
<1> QED  BY <1>1, <1>5, <1>6

Outside == AlloyDies \/ AutoRestart \/ Revise \/ Drift \/ Age

LEMMA OutsideKeepsIInv == IInv /\ Outside => IInv'
<1> SUFFICES ASSUME IInv, Outside PROVE IInv'
  OBVIOUS
<1> USE DEF IInv
<1>1. UNCHANGED <<target, unitFileState, starts, operator, hpc, hact, hop, hev, hrec>>
  BY DEF Outside, AlloyDies, AutoRestart, Revise, Drift, Age, unit, helper
<1>9. Stopped => Stopped'
  BY DEF Outside, AlloyDies, AutoRestart, Revise, Drift, Age, unit
<1>2. InputTypes'
  BY AlloyAssumption
     DEF Outside, AlloyDies, AutoRestart, Revise, Drift, Age, Edit, Fault, Types, InputTypes,
         input
<1>3. Flags'
  BY <1>1 DEF Outside, AlloyDies, AutoRestart, Revise, Drift, Age, Flags, ActiveStates,
              target, unit
<1>0. UNCHANGED <<installed, journal, terminal>> /\ (Whole => Whole')
  BY <1>1 DEF Whole, target
<1>4. TargetTypes' /\ RecordFacts'
  <2>1. TargetTypes'
    BY <1>0 DEF Types, TargetTypes
  <2> HIDE DEF Whole, Stopped
  <2> QED  BY <1>0, <1>1, <1>9, <2>1 DEF RecordFacts
<1>5. RouteTypes' /\ RouteFacts' /\ HelperTypes' /\ StepFacts'
  <2>1. RouteTypes' /\ RouteFacts' /\ HelperTypes'
    BY <1>1 DEF Types, RouteTypes, RouteFacts, HelperTypes, operator, target
  <2>2. StepFacts'
    <3> HIDE DEF Whole, Stopped
    <3> QED  BY <1>0, <1>1, <1>9 DEF StepFacts
  <2> QED  BY <2>1, <2>2
<1> QED  BY <1>2, <1>3, <1>4, <1>5 DEF Types

LEMMA NextIInv == IInv /\ [Next]_vars => IInv'
<1> SUFFICES ASSUME IInv, [Next]_vars PROVE IInv'
  OBVIOUS
<1>1. CASE UNCHANGED vars
  <2>1. UNCHANGED <<input, target, unit, faults, operator, helper>>
    BY <1>1 DEF vars
  <2>2. RouteTypes' /\ RouteFacts' /\ HelperTypes' /\ StepFacts'
    BY <2>1 DEF IInv, Types, RouteTypes, RouteFacts, HelperTypes, StepFacts, Whole,
                operator, helper, target, unit
  <2> QED  BY <2>1, <2>2, HostKept DEF IInv, Types
<1>2. ASSUME NEW o \in Operators, Work(o) \/ Abandon(o) \/ \E r \in Routes : Begin(o, r)
      PROVE  IInv'
  BY <1>2, WorkKeepsIInv, PublishKeepsIInv, CallKeepsIInv, AbandonKeepsIInv,
     BeginKeepsIInv DEF Work
<1>3. CASE Execute \/ KillHelper \/ Reboot \/ Outside
  BY <1>3, ExecuteKeepsIInv, KilledKeepsIInv, OutsideKeepsIInv
<1> QED  BY <1>1, <1>2, <1>3 DEF Next, Outside

LEMMA IInvHolds == Spec => []IInv
  BY InitIInv, NextIInv, PTL DEF Spec

-----------------------------------------------------------------------------
(***************************************************************************)
(* What a renewal has seen when it goes on.                                *)
(***************************************************************************)
SinceFacts ==
    /\ since \subseteq {"up", "same"}
    /\ hpc \in {"inputs", "records", "answer"} => "up" \in since
    /\ hpc \in {"records", "answer"} => "same" \in since

\* Every step but those of a renewal begins anew, leaves since alone outside of a
\* renewal, or adds to it.
LEMMA NextSince == IInv /\ SinceFacts /\ [Next]_vars => SinceFacts'
<1> SUFFICES ASSUME IInv, SinceFacts, [Next]_vars PROVE SinceFacts'
  OBVIOUS
<1> DEFINE Later == {"inputs", "records", "answer"}
           Grows == since \subseteq since' /\ since' \subseteq {"up", "same"}
<1>1. CASE since' = {} /\ hpc' = "idle"
  BY <1>1 DEF SinceFacts
<1>2. CASE Grows /\ (hpc' \notin Later \/ UNCHANGED hpc)
  BY <1>2 DEF SinceFacts
<1>3. CASE Rejected \/ \E s \in Statuses, c \in BOOLEAN : Reply(s, c)
  BY <1>1, <1>3 DEF Rejected, Reply, Answer
<1>4. CASE UNCHANGED since /\ (hpc' \notin Later \/ UNCHANGED hpc)
  BY <1>2, <1>4 DEF SinceFacts
<1>5. CASE UNCHANGED vars
  BY <1>4, <1>5 DEF vars, helper
<1>6. ASSUME NEW o \in Operators, Work(o) \/ Abandon(o) \/ \E r \in Routes : Begin(o, r)
      PROVE  SinceFacts'
  BY <1>4, <1>6 DEF Work, Inspect, Retained, Publish, Published, Verify, Call, Abandon, Begin,
              helper
<1>7. CASE Renew \/ Observed
  <2>1. Holding \subseteq {"up", "same"} /\ (Up => "up" \in Holding)
        /\ (Same => "same" \in Holding)
    BY DEF Holding
  <2>2. CASE Observed
    BY <1>3, <2>1, <2>2 DEF Observed, SinceFacts, Statuses
  <2>3. CASE RenewalUnit
    BY <1>3, <2>1, <2>3 DEF RenewalUnit, GotoInputs, SinceFacts
  <2>4. CASE RenewalInputs
    BY <1>3, <2>1, <2>4 DEF RenewalInputs, SinceFacts
  <2>5. CASE RenewalRecords
    BY <1>3, <2>5 DEF RenewalRecords, Goto, SinceFacts
  <2>6. CASE RenewalAnswer
    BY <1>3, <2>6 DEF RenewalAnswer, Statuses
  <2> QED  BY <1>7, <2>2, <2>3, <2>4, <2>5, <2>6 DEF Renew
<1>8. CASE Execute /\ ~Renew /\ ~Observed
  BY <1>3, <1>4, <1>8
     DEF Execute, Renew, Authenticate, Decide, Observe, Prestart, WriteTmp, Rename, Start,
         Ready, Stop, StopVerified, Goto, Writes, Caught, Statuses
<1>9. CASE KillHelper \/ Reboot
  BY <1>3, <1>4, <1>9 DEF KillHelper, Reboot, helper
<1>10. CASE Outside
  <2>1. UNCHANGED <<hpc, since>> \/ (UNCHANGED hpc /\ Noted)
    BY <1>10 DEF Outside, AlloyDies, AutoRestart, Revise, Drift, Age, helper
  <2>2. Noted => Grows
    BY DEF Noted, Holding, SinceFacts
  <2> QED  BY <1>2, <1>4, <2>1, <2>2
<1> QED
  BY <1>5, <1>6, <1>7, <1>8, <1>9, <1>10 DEF Next, Outside

LEMMA SinceHolds == Spec => []SinceFacts
<1>1. Init => SinceFacts
  BY DEF Init, SinceFacts
<1> QED  BY <1>1, NextSince, IInvHolds, PTL DEF Spec

-----------------------------------------------------------------------------
\* Every variable keeps its type, for any number of operators, files, builds,
\* kills and edits.
THEOREM AlloyTypeCorrect == Spec => []TypeOK
<1>1. IInv /\ SinceFacts => TypeOK
  <2> SUFFICES ASSUME IInv, SinceFacts PROVE TypeOK
    OBVIOUS
  <2> USE DEF IInv, SinceFacts, Types
  <2>1. starts \in Nat
    BY DEF RecordFacts
  <2>2. report \in Statuses \cup {"none", "error", "rejected"}
    BY DEF RouteTypes, Reports
  <2>3. hact \in (Routes \ {"prepare"}) \cup {"none"}
    BY DEF HelperTypes, Actions
  <2> QED
    BY <2>1, <2>2, <2>3
       DEF TypeOK, InputTypes, TargetTypes, Flags, RouteTypes, HelperTypes
<1> QED  BY <1>1, IInvHolds, SinceHolds, PTL

\* write_record before enable --now, and the digests that a route verifies
\* before it calls the helper: Alloy never runs without a durable intent, nor
\* from files of two builds, however the publications of two operators meet.
THEOREM AlloyStartedReviewed == Spec => []StartedReviewed
<1>1. IInv => StartedReviewed
  BY DEF IInv, RecordFacts, Whole, StartedReviewed
<1> QED  BY <1>1, IInvHolds, PTL

\* The intent is written once and outlives every kill: the helper executes
\* enable --now at most once in the life of the host.
THEOREM AlloyStartedOnce == Spec => []StartedOnce
<1>1. IInv => StartedOnce
  BY DEF IInv, RecordFacts, StartedOnce
<1> QED  BY <1>1, IInvHolds, PTL

\* stop and its verification come before failed.json, and nothing after it
\* enables the unit: a reboot does not bring Alloy up again.
THEOREM AlloyFailedStopped == Spec => []FailedStopped
<1>1. IInv => FailedStopped
  BY DEF IInv, RecordFacts, FailedStopped
<1> QED  BY <1>1, IInvHolds, PTL

\* outcome and renewal_outcome of the filter agree with execute of the helper:
\* no answer that it can give is turned down.
THEOREM AlloyAnswersAccepted == Spec => []AnswersAccepted
<1>1. IInv => AnswersAccepted
  BY DEF IInv, Types, RouteTypes, Reports, Statuses, AnswersAccepted
<1> QED  BY <1>1, IInvHolds, PTL

\* What a report may say in the state where it is made.
Sound ==
    report' # report =>
        /\ report' \in {"complete", "verified"} => terminal' = "complete"
        /\ report' = "verified" => since = {"up", "same"} /\ hev = journal
        /\ report' = "failed" => terminal' = "failed" /\ Stopped'
        /\ report' = "prepared" => /\ journal' = None /\ Stopped
                                  /\ \A f \in Files : installed[f] = build[hop]

\* A report is that of the answer, to a caller that still waits for it.
LEMMA AnswerReports ==
  ASSUME IInv, NEW r, Answer(r)
  PROVE  report' # report => report' = r /\ hop \in Operators /\ opc[hop] = "wait"
  BY DEF IInv, Types, HelperTypes, RouteFacts, Answer, Ends, operator

LEMMA ReplyReports ==
  ASSUME IInv, NEW s, NEW c, Reply(s, c)
  PROVE  report' # report => /\ report' \in {s, "error", "rejected"}
                             /\ hop \in Operators /\ opc[hop] = "wait"
  BY AnswerReports DEF Reply

LEMMA ReplySound ==
  ASSUME IInv, NEW s, NEW c, Reply(s, c),
         s \in {"complete", "verified"} => terminal' = "complete",
         s = "verified" => since = {"up", "same"} /\ hev = journal,
         s = "failed" => terminal' = "failed" /\ Stopped',
         s = "prepared" => journal' = None /\ Stopped
  PROVE  Sound
<1> SUFFICES ASSUME report' # report
             PROVE  /\ report' \in {"complete", "verified"} => terminal' = "complete"
                    /\ report' = "verified" => since = {"up", "same"} /\ hev = journal
                    /\ report' = "failed" => terminal' = "failed" /\ Stopped'
                    /\ report' = "prepared" =>
                          /\ journal' = None /\ Stopped
                          /\ \A f \in Files : installed[f] = build[hop]
  BY DEF Sound
<1>1. report' \in {s, "error", "rejected"} /\ hop \in Operators /\ opc[hop] = "wait"
  BY ReplyReports
<1>2. \A f \in Files : installed[f] = build[hop]
  BY <1>1 DEF IInv, RouteFacts
<1>3. report' = s \/ report' \in {"error", "rejected"}
  BY <1>1
<1> QED  BY <1>2, <1>3

LEMMA RejectedSound == IInv /\ Rejected => Sound
  BY AnswerReports DEF Rejected, Sound

LEMMA ExecuteSound == IInv /\ SinceFacts /\ Execute => Sound
<1> SUFFICES ASSUME IInv, SinceFacts, Execute PROVE Sound
  OBVIOUS
<1>0. CASE Rejected
  BY <1>0, RejectedSound
<1>1. CASE UNCHANGED operator
  BY <1>1 DEF operator, Sound
<1>2. CASE Authenticate \/ WriteTmp \/ Start \/ Ready \/ Stop \/ StopVerified
  BY <1>0, <1>1, <1>2
     DEF Authenticate, WriteTmp, Caught, Start, Ready, Stop, StopVerified, Goto, Writes
<1>3. CASE Decide
  <2>1. CASE Reply("failed", FALSE) /\ terminal = "failed"
    <3>1. Stopped' /\ terminal' = "failed"
      BY <1>3, <2>1 DEF Decide, IInv, RecordFacts, target, unit
    <3> QED  BY <2>1, <3>1, ReplySound
  <2>2. CASE Reply("recovery-required", FALSE)
    BY <2>2, ReplySound
  <2> QED  BY <1>0, <1>1, <1>3, <2>1, <2>2 DEF Decide, Goto
<1>4. CASE Observe \/ Observed
  <2>1. CASE Reply("complete", FALSE)
    <3>1. terminal' = "complete"
      BY <1>4 DEF Observe, Observed, IInv, StepFacts, target
    <3> QED  BY <2>1, <3>1, ReplySound
  <2> QED  BY <1>0, <1>1, <1>4, <2>1 DEF Observe, Observed, Goto
<1>5. CASE Renew
  <2>1. CASE RenewalAnswer
    <3>1. terminal' = "complete" /\ hev = journal
      BY <2>1 DEF RenewalAnswer, IInv, StepFacts, target
    <3>2. since = {"up", "same"}
      BY <2>1 DEF RenewalAnswer, SinceFacts
    <3> QED  BY <2>1, <3>1, <3>2, ReplySound DEF RenewalAnswer
  <2> QED
    BY <1>0, <1>1, <1>5, <2>1
       DEF Renew, RenewalUnit, GotoInputs, RenewalInputs, RenewalRecords, Goto
<1>6. CASE Prestart
  <2>1. CASE Reply("prepared", FALSE) /\ Stopped
    <3>1. journal' = None /\ Stopped
      BY <1>6, <2>1 DEF Prestart, IInv, StepFacts, target, Stopped
    <3> QED  BY <2>1, <3>1, ReplySound
  <2> QED  BY <1>0, <1>1, <1>6, <2>1 DEF Prestart, Writes
<1>7. CASE Rename
  <2>1. CASE Reply("complete", TRUE) /\ Named /\ hrec = "complete"
    BY <2>1, ReplySound DEF Named
  <2>2. CASE Reply("failed", TRUE) /\ Named /\ hrec = "failed"
    <3>1. UNCHANGED unit /\ Stopped
      BY <1>7, <2>2 DEF Rename, IInv, StepFacts
    <3>2. Stopped' /\ terminal' = "failed"
      BY <2>2, <3>1 DEF unit, Named
    <3> QED  BY <2>2, <3>2, ReplySound
  <2> QED  BY <1>0, <1>1, <1>7, <2>1, <2>2 DEF Rename, Caught, Goto
<1> QED  BY <1>2, <1>3, <1>4, <1>5, <1>6, <1>7 DEF Execute, Renew

\* What a route reports is so, whatever another operator or a kill did between
\* the observations and the answer: a completed takeover, a service stopped for good
\* or a host that was only prepared at the moment of the answer, and for a renewal a
\* unit and inputs that were as they should be when each was looked at again.
THEOREM AlloyOutcomeTrue == Spec => OutcomeTrue
<1>1. IInv /\ SinceFacts /\ [Next]_vars => [Sound]_vars
  <2> SUFFICES ASSUME IInv, SinceFacts, Next PROVE Sound
    OBVIOUS
  <2>1. CASE Execute
    BY <2>1, ExecuteSound
  <2>2. ASSUME NEW o \in Operators, Work(o) \/ Abandon(o) \/ \E r \in Routes : Begin(o, r)
        PROVE  report' \in {report, "none", "error"}
    BY <2>2 DEF Work, Inspect, Retained, Publish, Published, Verify, Call, Abandon, Begin,
                Proceeds, Fails, Ends
  <2>3. CASE KillHelper \/ Reboot
    BY <2>3, RejectedSound DEF KillHelper, Reboot, Sound, operator
  <2>4. CASE Outside
    BY <2>4 DEF Outside, AlloyDies, AutoRestart, Revise, Drift, Age, Sound, operator
  <2> QED  BY <2>1, <2>2, <2>3, <2>4 DEF Next, Outside, Sound
<1> QED  BY <1>1, IInvHolds, SinceHolds, PTL DEF Spec, OutcomeTrue, Sound
=============================================================================
