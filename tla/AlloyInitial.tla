---------------------------- MODULE AlloyInitial ----------------------------
(***************************************************************************)
(* The initial takeover of Grafana Alloy on one host: the routes           *)
(* roles/grafana_alloy/tasks/initial_*.yml with their controller filter    *)
(* (filter_plugins/initial_activation.py), and the helper they call        *)
(* (files/platform-alloy-initial-activate), which starts the service once  *)
(* and records intent, complete or failed.                                 *)
(*                                                                         *)
(* A build stands for the bytes that one set of reviewed controller inputs *)
(* gives every published file; a view for everything else the evidence of  *)
(* a record names (configuration, certificates, unit, package).            *)
(***************************************************************************)
EXTENDS Naturals, FiniteSets

CONSTANTS
    Operators,   \* controllers that run the routes
    Files,       \* the published files
    Pinned,      \* those whose digest the installed context names
    Builds, Views,
    None,
    MaxFaults,   \* bound: kills, reboots, failed commands and writes
    MaxEdits     \* bound: revised inputs, drift, ageing

ASSUME AlloyAssumption ==
    /\ Pinned \subseteq Files /\ Pinned # {} /\ Builds # {} /\ Views # {}
    /\ None \notin Builds \cup Views \cup Operators
    /\ MaxFaults \in Nat /\ MaxEdits \in Nat

VARIABLES
    sources,     \* the build the controller's inputs give
    installed,   \* per file, the build it is from, or None
    view, age,   \* the target's other inputs; the certificates' remaining life
    journal,     \* the view in journal.json, or None
    terminal,    \* complete.json or failed.json
    tmp,         \* a .lifecycle-* temporary is in the state directory
    activeState, unitFileState,      \* of alloy.service, as systemctl shows them
    starts,                          \* history: enable --now commands
    opc, route, build, todo,         \* per operator, the last two of a running route
    report,                          \* how the last route that ended did
    hpc, hact, hop, hev, hrec,       \* the helper, which holds the lock
    since,       \* history of a renewal: the unit was up since its readiness,
                 \* the inputs were the same since the unit was looked at
    faults, edits

target   == <<installed, journal, terminal, tmp>>
unit     == <<activeState, unitFileState, starts>>
operator == <<opc, route, build, todo, report>>
helper   == <<hpc, hact, hop, hev, hrec, since>>
input    == <<sources, view, age, edits>>
vars     == <<input, target, unit, operator, helper, faults>>

Routes   == {"prepare", "check", "activate", "recover", "status", "renewal"}
Statuses == {"prepared", "complete", "failed", "recovery-required", "verified"}

\* Restart=always passes through activating; at the start limit it is failed.
ActiveStates   == {"inactive", "active", "activating", "failed"}
UnitFileStates == {"enabled", "disabled"}
Stopped == activeState = "inactive" /\ unitFileState = "disabled"
Up      == activeState = "active" /\ unitFileState = "enabled"

Fault == faults < MaxFaults /\ faults' = faults + 1

-----------------------------------------------------------------------------
(***************************************************************************)
(* The routes                                                              *)
(***************************************************************************)
At(o, step) == opc' = [opc EXCEPT ![o] = step]

\* A route ends.
Ends(o, r) ==
    /\ At(o, "idle") /\ report' = r
    /\ route' = [route EXCEPT ![o] = "none"] /\ build' = [build EXCEPT ![o] = None]
    /\ todo' = [todo EXCEPT ![o] = {}]

\* A task fails, and the route with it.
Fails(o) == Ends(o, "error")

Proceeds(o, step) == At(o, step) /\ UNCHANGED <<route, build, todo, report>>

\* initial_build: the reviewed sources are read and the file set computed.
Begin(o, r) ==
    /\ opc[o] = "idle"
    /\ At(o, IF r = "prepare" THEN "inspect" ELSE "verify")
    /\ route' = [route EXCEPT ![o] = r]
    /\ build' = [build EXCEPT ![o] = sources]
    /\ report' = "none"
    /\ UNCHANGED <<todo, input, target, unit, helper, faults>>

\* initial_verify: what is there has the digest of this build.
Matches(o, absent) ==
    \A f \in Files : installed[f] = build[o] \/ (absent /\ installed[f] = None)

\* Preparation wants a stopped unit and no file of another build.
Inspect(o) ==
    /\ opc[o] = "inspect"
    /\ LET ok == Stopped /\ Matches(o, TRUE) IN
       \/ /\ ok /\ At(o, "retained")
          /\ todo' = [todo EXCEPT ![o] = {f \in Files : installed[f] = None}]
          /\ UNCHANGED <<route, build, report>>
       \/ ~ok /\ Fails(o)
    /\ UNCHANGED <<input, target, unit, helper, faults>>

\* ... and no record or unknown entry in the state directory.
Retained(o) ==
    /\ opc[o] = "retained"
    /\ LET ok == journal = None /\ terminal = "none" /\ ~tmp IN
       \/ ok /\ Proceeds(o, "publish")
       \/ ~ok /\ Fails(o)
    /\ UNCHANGED <<input, target, unit, helper, faults>>

\* One file that was absent is copied, unless it is there by now (force: false).
Publish(o, f) ==
    /\ opc[o] = "publish" /\ f \in todo[o]
    /\ installed' = [installed EXCEPT ![f] = IF @ = None THEN build[o] ELSE @]
    /\ todo' = [todo EXCEPT ![o] = @ \ {f}]
    /\ UNCHANGED <<input, journal, terminal, tmp, unit, opc, route, build, report,
                   helper, faults>>

Published(o) ==
    /\ opc[o] = "publish" /\ todo[o] = {}
    /\ Proceeds(o, "verify")
    /\ UNCHANGED <<input, target, unit, helper, faults>>

\* initial_installed, and the recheck that ends preparation.
Verify(o) ==
    /\ opc[o] = "verify"
    /\ \/ Matches(o, FALSE) /\ Proceeds(o, "call")
       \/ ~Matches(o, FALSE) /\ Fails(o)
    /\ UNCHANGED <<input, target, unit, helper, faults>>

\* The helper is started; preparation runs its check.  A held lock is refused.
Call(o) ==
    /\ opc[o] = "call"
    /\ \/ /\ hpc = "idle"
          /\ Proceeds(o, "wait")
          /\ hpc' = "begin" /\ hop' = o
          /\ hact' = (IF route[o] = "prepare" THEN "check" ELSE route[o])
          /\ UNCHANGED <<hev, hrec, since>>
       \/ hpc # "idle" /\ Fails(o) /\ UNCHANGED helper
    /\ UNCHANGED <<input, target, unit, faults>>

\* The controller goes away; the helper, once started, does not.
Abandon(o) ==
    /\ opc[o] # "idle"
    /\ Fault
    /\ Fails(o)
    /\ hop' = (IF hop = o THEN None ELSE hop)
    /\ UNCHANGED <<input, target, unit, hpc, hact, hev, hrec, since>>

\* Slip: recovery must have something to recover.
AcceptsRecovered(action, status, changed) ==
    /\ status \in (CASE action = "check"    -> {"prepared", "complete", "failed"}
                     [] action = "status"   -> Statuses \ {"verified"}
                     [] action = "activate" -> {"complete"}
                     [] action = "recover"  -> {"complete", "failed"}
                     [] action = "renewal"  -> {"verified"})
    /\ changed => \/ action = "activate" /\ status = "complete"
                  \/ action = "recover" /\ status = "failed"

\* outcome and renewal_outcome: what the controller takes from each action.
Accepts(action, status, changed) ==
    /\ status \in (CASE action = "check"    -> {"prepared", "complete", "failed"}
                     [] action = "status"   -> Statuses \ {"verified"}
                     [] action = "activate" -> {"complete"}
                     [] action = "recover"  -> {"prepared", "complete", "failed"}
                     [] action = "renewal"  -> {"verified"})
    /\ changed => \/ action = "activate" /\ status = "complete"
                  \/ action = "recover" /\ status = "failed"

-----------------------------------------------------------------------------
(***************************************************************************)
(* The helper: execute                                                     *)
(***************************************************************************)
Goto(step) == hpc' = step /\ UNCHANGED <<hact, hop, hev, hrec, since, operator>>

\* A record is to be written.
Writes(rec) ==
    hpc' = "write" /\ hrec' = rec /\ UNCHANGED <<hact, hop, hev, since, operator>>

\* The process ends and its caller, if it still waits, takes the answer.
Answer(r) ==
    /\ hpc' = "idle" /\ hact' = "none" /\ hop' = None /\ hev' = None /\ hrec' = "none"
    /\ since' = {}
    /\ IF hop = None THEN UNCHANGED operator ELSE Ends(hop, r)

\* Preparation goes on only with status prepared.
Reply(status, changed) ==
    Answer(IF ~Accepts(hact, status, changed) THEN "rejected"
           ELSE IF hop # None /\ route[hop] = "prepare" /\ status # "prepared" THEN "error"
           ELSE status)

Rejected == Answer("error")

\* authenticate: the pinned files agree and the certificates are valid.
Authentic == age # "expired" /\ \E b \in Builds : \A f \in Pinned : installed[f] = b

Same == Authentic /\ view = hev

\* records: a known set of entries, every one of them with this evidence.
RecordsKnown == ~tmp /\ (journal = None \/ journal = hev)

IntentOnly == RecordsKnown /\ journal # None /\ terminal = "none"

Margin  == age = "fresh"   \* require_start_margin

\* The locks are taken and the evidence is gathered.
Authenticate ==
    /\ hpc = "begin"
    /\ \/ Authentic /\ hpc' = "decide" /\ hev' = view
             /\ UNCHANGED <<hact, hop, hrec, since, operator>>
       \/ ~Authentic /\ Rejected
    /\ UNCHANGED <<input, target, unit, faults>>

\* Slip: a failed activation may be tried again.
DecideRetry ==
    /\ hpc = "decide"
    /\ \/ ~RecordsKnown /\ Rejected
       \/ RecordsKnown /\ terminal = "complete" /\ Goto("observe")
       \/ RecordsKnown /\ terminal = "failed"
             /\ Goto(IF hact = "activate" THEN "prestart" ELSE "observe")
       \/ IntentOnly
             /\ \/ hact = "recover" /\ Goto("stop")
                \/ hact # "recover" /\ Rejected
       \/ RecordsKnown /\ journal = None /\ Goto("prestart")
    /\ UNCHANGED <<input, target, unit, faults>>

\* What the records say decides what the action may do.
Decide ==
    /\ hpc = "decide"
    /\ \/ ~RecordsKnown /\ Rejected
       \/ RecordsKnown /\ terminal = "complete" /\ Goto("observe")
       \/ RecordsKnown /\ terminal = "failed"
             /\ \/ Stopped /\ hact \notin {"activate", "renewal"} /\ Reply("failed", FALSE)
                \/ ~(Stopped /\ hact \notin {"activate", "renewal"}) /\ Rejected
       \/ IntentOnly
             /\ \/ hact = "recover" /\ Goto("stop")
                \/ hact = "status" /\ Reply("recovery-required", FALSE)
                \/ hact \notin {"recover", "status"} /\ Rejected
       \/ RecordsKnown /\ journal = None
             /\ \/ hact # "renewal" /\ Goto("prestart")
                \/ hact = "renewal" /\ Rejected
    /\ UNCHANGED <<input, target, unit, faults>>

\* A completed takeover: the unit is up, then valid and ready ...
Observe ==
    /\ hpc = "observe"
    /\ \/ Up /\ Goto("observed")
       \/ Rejected
    /\ UNCHANGED <<input, target, unit, faults>>

\* What a renewal asks for, where it holds now.
Holding == {fact \in {"up", "same"} : (fact = "up" /\ Up) \/ (fact = "same" /\ Same)}

\* ... and its inputs are the same.
Observed ==
    /\ hpc = "observed"
    /\ \/ Same /\ hact = "renewal" /\ hpc' = "renewal" /\ since' = Holding
             /\ UNCHANGED <<hact, hop, hev, hrec, operator>>
       \/ Same /\ hact # "renewal" /\ Reply("complete", FALSE)
       \/ ~Same /\ Rejected
    /\ UNCHANGED <<input, target, unit, faults>>

\* The unit is done with: from now on the inputs must hold.
GotoInputs ==
    /\ hpc' = "inputs" /\ since' = (since \ {"same"}) \cup Holding
    /\ UNCHANGED <<hact, hop, hev, hrec, operator>>

\* Slip: the unit was just ready and is not looked at again.
RenewalUnitTrusting ==
    /\ hpc = "renewal" /\ GotoInputs
    /\ UNCHANGED <<input, target, unit, faults>>

\* renewal_observation looks at everything once more, one thing at a time: the
\* unit, ...
RenewalUnit ==
    /\ hpc = "renewal"
    /\ \/ Up /\ GotoInputs
       \/ ~Up /\ Rejected
    /\ UNCHANGED <<input, target, unit, faults>>

\* ... the inputs, ...
RenewalInputs ==
    /\ hpc = "inputs"
    /\ \/ Same /\ hpc' = "records" /\ since' = since \cup Holding
             /\ UNCHANGED <<hact, hop, hev, hrec, operator>>
       \/ ~Same /\ Rejected
    /\ UNCHANGED <<input, target, unit, faults>>

\* ... the records and the certificates' remaining life ...
RenewalRecords ==
    /\ hpc = "records"
    /\ LET ok == RecordsKnown /\ terminal = "complete" /\ age # "expired" IN
       \/ ok /\ Goto("answer")
       \/ ~ok /\ Rejected
    /\ UNCHANGED <<input, target, unit, faults>>

\* ... and answers.
RenewalAnswer ==
    /\ hpc = "answer"
    /\ Reply("verified", FALSE)
    /\ UNCHANGED <<input, target, unit, faults>>

\* Slip: the service is started and the intent written when it is up.
PrestartUnrecorded ==
    /\ hpc = "prestart"
    /\ \/ ~(Stopped /\ Same /\ Margin) /\ Rejected
       \/ Stopped /\ Same /\ Margin /\ hact # "activate" /\ Reply("prepared", FALSE)
       \/ Stopped /\ Same /\ Margin /\ hact = "activate" /\ Goto("start")
    /\ UNCHANGED <<input, target, unit, faults>>

\* Nothing was started yet.  check and activate want the start margin.
Prestart ==
    /\ hpc = "prestart"
    /\ \/ ~(Stopped /\ Same) /\ Rejected
       \/ Stopped /\ Same /\ hact \in {"status", "recover"} /\ Reply("prepared", FALSE)
       \/ Stopped /\ Same /\ hact = "check" /\ Margin /\ Reply("prepared", FALSE)
       \/ Stopped /\ Same /\ hact = "activate" /\ Margin /\ RecordsKnown
             /\ Writes("intent")
       \/ hact \in {"check", "activate"} /\ ~Margin /\ Rejected
    /\ UNCHANGED <<input, target, unit, faults>>

\* An exception where the record hrec is written.
Caught ==
    \/ hrec = "complete" /\ Goto("stop")
    \/ hrec # "complete" /\ Rejected

\* write_record: the temporary ...
WriteTmp ==
    /\ hpc = "write"
    /\ \/ tmp' = TRUE /\ Goto("rename") /\ UNCHANGED faults
       \/ Fault /\ Caught /\ UNCHANGED tmp
    /\ UNCHANGED <<input, installed, journal, terminal, unit>>

\* The record gets its name.
Named ==
    /\ tmp' = FALSE
    /\ journal' = (IF hrec = "intent" THEN hev ELSE journal)
    /\ terminal' = (IF hrec = "intent" THEN terminal ELSE hrec)

\* ... and the rename, which may fail, or be followed by a failing fsync; the
\* temporary that is left may not be removed.
Rename ==
    /\ hpc = "rename"
    /\ \/ /\ Named /\ UNCHANGED faults
          /\ \/ hrec = "intent" /\ Goto("start")
             \/ hrec = "complete" /\ Reply("complete", TRUE)
             \/ hrec = "failed" /\ hact = "recover" /\ Reply("failed", TRUE)
             \/ hrec = "failed" /\ hact # "recover" /\ Rejected
       \/ /\ Fault /\ Caught
          /\ \/ tmp' \in BOOLEAN /\ UNCHANGED <<journal, terminal>>
             \/ Named
    /\ UNCHANGED <<input, installed, unit>>

\* systemctl enable --now, which fails half done or is given up on.
Start ==
    /\ hpc = "start"
    /\ \/ ~(Same /\ Stopped /\ Margin) /\ Goto("stop") /\ UNCHANGED <<unit, faults>>
       \/ /\ Same /\ Stopped /\ Margin
          /\ starts' = starts + 1
          /\ \/ /\ activeState' = "active" /\ unitFileState' = "enabled"
                /\ Goto("ready") /\ UNCHANGED faults
             \/ /\ Fault /\ Goto("stop")
                /\ unitFileState' \in UnitFileStates
                /\ activeState' \in (IF unitFileState' = "enabled" THEN ActiveStates
                                     ELSE {"inactive"})
    /\ UNCHANGED <<input, target>>

\* The unit is up and ready and nothing drifted: complete may be written.
Ready ==
    /\ hpc = "ready"
    /\ \/ Up /\ Same /\ RecordsKnown
             /\ Writes("complete")
       \/ Goto("stop")
    /\ UNCHANGED <<input, target, unit, faults>>

\* What disable --now makes of the unit: it does not reset a failed one.
Disabled ==
    /\ unitFileState' = "disabled"
    /\ activeState' = (IF activeState = "failed" THEN "failed" ELSE "inactive")

\* Slip: there must be something to stop.
StopRunning ==
    /\ hpc = "stop"
    /\ \/ ~(Same /\ IntentOnly /\ Up) /\ Rejected /\ UNCHANGED <<unit, faults>>
       \/ /\ Same /\ IntentOnly /\ Up
          /\ Disabled /\ UNCHANGED <<starts, faults>>
          /\ Goto("stopped")
    /\ UNCHANGED <<input, target>>

\* stop: only for an exact intent.  The disable may be left half done, whether it
\* says so or not, and Alloy may not end well.
Stop ==
    /\ hpc = "stop"
    /\ \/ ~(Same /\ IntentOnly) /\ Rejected /\ UNCHANGED <<unit, faults>>
       \/ /\ Same /\ IntentOnly
          /\ \/ Disabled /\ Goto("stopped") /\ UNCHANGED faults
             \/ /\ Fault /\ (Rejected \/ Goto("stopped"))
                /\ unitFileState' \in {unitFileState, "disabled"}
                /\ activeState' \in {activeState} \cup
                       (IF unitFileState' = "enabled" \/ activeState = "inactive" THEN {}
                        ELSE {"inactive", "failed"})
          /\ UNCHANGED starts
    /\ UNCHANGED <<input, target>>

\* Slip: failed is written without a look at the unit.
StopVerifiedTrusting ==
    /\ hpc = "stopped"
    /\ Writes("failed")
    /\ UNCHANGED <<input, target, unit, faults>>

\* Exactly inactive and disabled, with the same inputs: failed may be written.
StopVerified ==
    /\ hpc = "stopped"
    /\ LET ok == Stopped /\ Same /\ IntentOnly IN
       \/ ok /\ Writes("failed")
       \/ ~ok /\ Rejected
    /\ UNCHANGED <<input, target, unit, faults>>

-----------------------------------------------------------------------------
(***************************************************************************)
(* The surroundings                                                        *)
(***************************************************************************)

\* The helper is killed where it stands.
KillHelper ==
    /\ hpc # "idle" /\ Fault
    /\ Rejected
    /\ UNCHANGED <<input, target, unit>>

\* The host reboots: an enabled unit comes up, and failed is forgotten.
Reboot ==
    /\ Fault
    /\ activeState' = (IF unitFileState = "enabled" THEN "active" ELSE "inactive")
    /\ UNCHANGED <<unitFileState, starts>>
    /\ IF hpc = "idle" THEN UNCHANGED <<operator, helper>> ELSE Rejected
    /\ UNCHANGED <<input, target>>

\* What comes to hold under a renewal is noted.
Noted == since' = (IF hpc \in {"renewal", "inputs", "records", "answer"}
                   THEN since \cup Holding' ELSE since)

\* Alloy ends by itself, or is stopped by hand.
AlloyDies ==
    /\ activeState = "active" /\ Fault
    /\ activeState' \in {"activating", "inactive"} /\ UNCHANGED <<unitFileState, starts>>
    /\ UNCHANGED <<input, target, operator, helper>>

\* systemd restarts it, or gives up at the start limit.
AutoRestart ==
    /\ activeState = "activating"
    /\ activeState' \in {"active", "failed"} /\ UNCHANGED <<unitFileState, starts>>
    /\ UNCHANGED <<input, target, operator, hpc, hact, hop, hev, hrec, faults>>
    /\ Noted

Edit == edits < MaxEdits /\ edits' = edits + 1

\* The reviewed inputs on the controller are changed.
Revise ==
    /\ Edit
    /\ sources' \in Builds \ {sources}
    /\ UNCHANGED <<view, age, target, unit, operator, helper, faults>>

\* Something on the target is changed, or changed back.
Drift ==
    /\ Edit
    /\ view' \in Views \ {view}
    /\ UNCHANGED <<sources, age, target, unit, operator, hpc, hact, hop, hev, hrec, faults>>
    /\ Noted

\* The certificates age.
Age ==
    /\ Edit
    /\ \/ age = "fresh" /\ age' = "short"
       \/ age = "short" /\ age' = "expired"
    /\ UNCHANGED <<sources, view, target, unit, operator, helper, faults>>

-----------------------------------------------------------------------------
Init ==
    /\ sources = (CHOOSE b \in Builds : TRUE) /\ view = (CHOOSE v \in Views : TRUE)
    /\ age = "fresh" /\ edits = 0
    /\ installed = [f \in Files |-> None]
    /\ journal = None /\ terminal = "none" /\ tmp = FALSE
    /\ activeState = "inactive" /\ unitFileState = "disabled" /\ starts = 0
    /\ opc = [o \in Operators |-> "idle"] /\ route = [o \in Operators |-> "none"]
    /\ build = [o \in Operators |-> None] /\ todo = [o \in Operators |-> {}]
    /\ report = "none"
    /\ hpc = "idle" /\ hact = "none" /\ hop = None /\ hev = None /\ hrec = "none"
    /\ since = {} /\ faults = 0

Work(o) ==
    \/ Inspect(o) \/ Retained(o) \/ (\E f \in Files : Publish(o, f)) \/ Published(o)
    \/ Verify(o) \/ Call(o)

Execute ==
    \/ Authenticate \/ Decide \/ Observe \/ Observed
    \/ RenewalUnit \/ RenewalInputs \/ RenewalRecords \/ RenewalAnswer \/ Prestart
    \/ WriteTmp \/ Rename \/ Start \/ Ready \/ Stop \/ StopVerified

Next ==
    \/ \E o \in Operators : Work(o) \/ Abandon(o) \/ \E r \in Routes : Begin(o, r)
    \/ Execute \/ KillHelper \/ Reboot \/ AlloyDies \/ AutoRestart \/ Revise \/ Drift \/ Age

Spec == Init /\ [][Next]_vars

\* Only recovery is run while an intent is undecided.
Exclusive ==
    journal # None /\ terminal = "none"
        => \A o \in Operators : route[o] \in {"none", "recover"}

\* Routes and helpers run to their end, and an operator comes back to recover.
\* Sooner or later no other route gets in the way of that, as the documentation
\* of the takeover asks: the lock does not queue, it refuses.
FairSpec ==
    /\ Spec
    /\ \A o \in Operators : WF_vars(Work(o))
    /\ WF_vars(Execute)
    /\ WF_vars(\E o \in Operators : Begin(o, "recover"))
    /\ <>[]Exclusive
-----------------------------------------------------------------------------
\* Every variable has its type: the helper is at a known step, and a record has one
\* of the statuses that records() admits.
TypeOK ==
    /\ sources \in Builds /\ view \in Views /\ age \in {"fresh", "short", "expired"}
    /\ installed \in [Files -> Builds \cup {None}]
    /\ journal \in Views \cup {None} /\ terminal \in {"none", "complete", "failed"}
    /\ tmp \in BOOLEAN
    /\ activeState \in ActiveStates /\ unitFileState \in UnitFileStates /\ starts \in Nat
    /\ opc \in [Operators -> {"idle", "inspect", "retained", "publish", "verify", "call", "wait"}]
    /\ route \in [Operators -> Routes \cup {"none"}]
    /\ build \in [Operators -> Builds \cup {None}]
    /\ todo \in [Operators -> SUBSET Files]
    /\ report \in Statuses \cup {"none", "error", "rejected"}
    /\ hpc \in {"idle", "begin", "decide", "observe", "observed", "renewal", "inputs", "records",
                "answer", "prestart", "write", "rename", "start", "ready", "stop", "stopped"}
    /\ hact \in (Routes \ {"prepare"}) \cup {"none"} /\ hop \in Operators \cup {None}
    /\ hev \in Views \cup {None} /\ hrec \in {"none", "intent", "complete", "failed"}
    /\ since \subseteq {"up", "same"}
    /\ faults \in 0..MaxFaults /\ edits \in 0..MaxEdits

(***************************************************************************)
(* Properties                                                              *)
(***************************************************************************)

\* Alloy runs, is restarted, or would come up at the next boot, only after the
\* intent is durable, and from files that are all of one reviewed build, although
\* two operators may have published at once and each may have stopped half way.
StartedReviewed ==
    ~Stopped => journal # None /\ \E b \in Builds : \A f \in Files : installed[f] = b

\* enable --now is executed once in the life of the host, whatever is killed,
\* retried or recovered.
StartedOnce == starts <= 1

\* A failed record means stopped for good, inactive and disabled: no reboot,
\* restart by systemd, late answer or other route brings Alloy up behind it.
FailedStopped == terminal = "failed" => Stopped

\* The controller's filter never turns down an answer the helper really gives.
AnswersAccepted == report # "rejected"

\* What a route reports is so: "complete" of a completed takeover, "failed" of a
\* stopped service, "prepared" of a host that has every file of the caller's build
\* and where nothing was started.  "verified" is so of no single moment, for the
\* unit is looked at before the inputs and both before the answer: the takeover is
\* complete, the unit was up at a moment after the readiness probe, and the inputs
\* were those of the intent at a moment after the helper was done with the unit.
OutcomeTrue ==
    [][report' # report =>
          /\ report' \in {"complete", "verified"} => terminal' = "complete"
          /\ report' = "verified" => since = {"up", "same"} /\ hev = journal
          /\ report' = "failed" => terminal' = "failed" /\ Stopped'
          /\ report' = "prepared" => /\ journal' = None /\ Stopped
                                    /\ \A f \in Files : installed[f] = build[hop]]_vars

\* Why an intent may stay undecided: a leftover temporary, drifted or expired
\* inputs on the target, reviewed inputs that are no longer the original, or a
\* unit that systemd gave up on: failed is not inactive, and no route resets it.
Blocked ==
    \/ tmp
    \/ view # journal \/ age = "expired"
    \/ \E f \in Files : installed[f] # sources
    \/ activeState = "failed"

\* An intent is decided in the end, by the activation itself or by recovery,
\* unless the host is in a state both refuse to touch.
Decided == journal # None ~> terminal # "none" \/ Blocked
=============================================================================
