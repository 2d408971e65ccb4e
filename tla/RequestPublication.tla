------------------------- MODULE RequestPublication -------------------------
(***************************************************************************)
(* The request helper (roles/pki_host_local_certificate/files/             *)
(* platform-pki-host-local-request): recover_request, inspect_pending_root *)
(* and create_request, run by any number of processes under one flock, and *)
(* beside them the activation of a published request by the lifecycle      *)
(* helper, reduced to its begin and its decision (module Lifecycle).       *)
(*                                                                         *)
(* A step is one durable effect.  A directory is the set of its entries;   *)
(* the order in which OpenSSL and ssh-keygen produce the staged files, and *)
(* what is in them, is left out.  A manifest is the predecessor it binds   *)
(* and whether its lifetime has not expired.                               *)
(***************************************************************************)
EXTENDS Naturals, FiniteSets

CONSTANTS
    Requests,    \* request ids, drawn at random
    Files,       \* EXPECTED_FILES
    Cnf,         \* the transient request.cnf
    Procs,       \* processes that run the helper
    None,        \* no request, no process, no file
    MaxCrashes,  \* bound: kills and failed commands
    TornWrites,  \* a kill may hit the middle of a file's creation
    Expiring     \* the lifetime of a request may end

ASSUME RequestAssumption ==
    /\ None \notin Requests /\ None \notin Procs
    /\ Files # {} /\ Cnf \notin Files /\ None \notin Files \cup {Cnf}
    /\ MaxCrashes \in Nat
    /\ TornWrites \in BOOLEAN
    /\ Expiring \in BOOLEAN

VARIABLES
    journal,     \* state root: request.journal
    stage,       \* pending root: .stage-<request id>
    hollow,      \* a staged file is empty
    pending,     \* pending root: <request id>
    bound,       \* the predecessor in a manifest
    fresh,       \* manifests whose lifetime is current
    active,      \* state root: the active record
    outcome,     \* state root: target-terminal and its history
    activating,  \* state root: the request of the activation-journal
    crashes,     \* bound on kills
    lock,        \* holder of the flock on the state root
    pc, check, rid, todo   \* per process: next step, args.check, the new
                           \* request id, the staged files still to remove

requestFiles == <<journal, stage, hollow, pending, bound, fresh>>
lifecycle    == <<active, outcome, activating>>
procs        == <<lock, pc, check, rid, todo>>
vars         == <<requestFiles, lifecycle, crashes, procs>>

NoDir     == {None}   \* the directory does not exist: no directory has this entry
Exists(d) == d # NoDir
AllFiles  == Files \cup {Cnf}
Sel       == Requests \cup {None}
NoJournal == [st |-> "absent", rid |-> None]

Published == {r \in Requests : Exists(pending[r])}
Open      == {r \in Published : outcome[r] = "open"}
Staged    == {r \in Requests : Exists(stage[r])}

LockedSteps == {"recover", "unstage", "unlink", "inspect", "journal", "mkdir",
                "fill", "strip", "publish", "verify", "unlink-created"}

\* validate_pending_directory: the exact files, a current lifetime and the
\* bindings of the command, which inspect_state_root has compared with the
\* active record.
ValidPending(r, d) == d = Files /\ r \in fresh /\ bound[r] = active

Goto(p, step) == /\ pc' = [pc EXCEPT ![p] = step]
                 /\ UNCHANGED <<lock, check, rid, todo>>

Exit(p) == /\ pc' = [pc EXCEPT ![p] = "idle"]
           /\ check' = [check EXCEPT ![p] = FALSE]
           /\ rid' = [rid EXCEPT ![p] = None]
           /\ todo' = [todo EXCEPT ![p] = {}]
           /\ lock' = IF lock = p THEN None ELSE lock

-----------------------------------------------------------------------------
(***************************************************************************)
(* Slips: forms of the steps below that a small mistake would give.        *)
(***************************************************************************)
ActivationBeginAnytime(r) ==
    /\ lock = None /\ activating = None
    /\ Open = {r} /\ bound[r] = active
    /\ activating' = r
    /\ UNCHANGED <<requestFiles, active, outcome, crashes, procs>>

FillInPlace(p) ==
    /\ pc[p] = "fill"
    /\ \E f \in Files : pending' = [pending EXCEPT ![rid[p]] = {f}]
    /\ bound' = [bound EXCEPT ![rid[p]] = active]
    /\ Goto(p, "strip")
    /\ UNCHANGED <<journal, stage, hollow, fresh, lifecycle, crashes>>

UnlinkUnpublishes(p) ==
    /\ pc[p] = "unlink"
    /\ journal' = NoJournal
    /\ pending' = [pending EXCEPT ![journal.rid] = NoDir]
    /\ Goto(p, "inspect")
    /\ UNCHANGED <<stage, hollow, bound, fresh, lifecycle, crashes>>

RecoverDecideRefusesEmpty(p) ==
    /\ pc[p] = "recover"
    /\ \/ journal.st = "absent" /\ Goto(p, "inspect")
       \/ /\ journal.st = "valid" /\ Exists(pending[journal.rid])
          /\ Goto(p, "unlink")
       \/ /\ journal.st = "valid" => ~Exists(pending[journal.rid])
          /\ journal.st # "absent"
          /\ Exit(p)
    /\ UNCHANGED <<requestFiles, lifecycle, crashes>>

-----------------------------------------------------------------------------
(***************************************************************************)
(* main: locks and inspect_state_root                                      *)
(***************************************************************************)

\* An activation-journal, like any other entry, is refused; request.journal
\* is not.  The operation and predecessor of the command must fit the active
\* record.  A refusal has no effect.
RequestStart(p, c) ==
    /\ pc[p] = "idle" /\ lock = None
    /\ activating = None
    /\ lock' = p
    /\ pc' = [pc EXCEPT ![p] = "recover"]
    /\ check' = [check EXCEPT ![p] = c]
    /\ UNCHANGED <<requestFiles, lifecycle, crashes, rid, todo>>

(***************************************************************************)
(* recover_request                                                         *)
(***************************************************************************)
RecoverStep ==
    LET r == journal.rid IN
    IF journal.st = "absent" THEN "inspect"
    ELSE IF journal.st = "torn" THEN "idle"
    ELSE IF Exists(pending[r])
      THEN IF ~Exists(stage[r]) /\ ValidPending(r, pending[r]) THEN "unlink" ELSE "idle"
    ELSE IF ~Exists(stage[r]) THEN "unlink"
    ELSE IF hollow THEN "idle" ELSE "unstage"

\* With --check an interrupted request is reported, not repaired.
RecoverDecide(p) ==
    /\ pc[p] = "recover"
    /\ \/ /\ RecoverStep = "idle" \/ (check[p] /\ RecoverStep # "inspect")
          /\ Exit(p)
       \/ /\ RecoverStep = "inspect" \/ (~check[p] /\ RecoverStep # "idle")
          /\ pc' = [pc EXCEPT ![p] = RecoverStep]
          /\ todo' = [todo EXCEPT ![p] = IF RecoverStep = "unstage"
                                           THEN stage[journal.rid] ELSE {}]
          /\ UNCHANGED <<lock, check, rid>>
    /\ UNCHANGED <<requestFiles, lifecycle, crashes>>

\* The staged files, then their directory.
Unstage(p) ==
    /\ pc[p] = "unstage"
    /\ \/ \E f \in todo[p] :
             /\ stage' = [stage EXCEPT ![journal.rid] = @ \ {f}]
             /\ todo' = [todo EXCEPT ![p] = @ \ {f}]
             /\ UNCHANGED <<lock, pc, check, rid>>
       \/ /\ todo[p] = {}
          /\ stage' = [stage EXCEPT ![journal.rid] = NoDir]
          /\ Goto(p, "unlink")
    /\ UNCHANGED <<journal, hollow, pending, bound, fresh, lifecycle, crashes>>

\* remove_journal
UnlinkRecovered(p) ==
    /\ pc[p] = "unlink"
    /\ journal' = NoJournal
    /\ Goto(p, "inspect")
    /\ UNCHANGED <<stage, hollow, pending, bound, fresh, lifecycle, crashes>>

(***************************************************************************)
(* inspect_pending_root and create_request                                 *)
(***************************************************************************)

\* A staging directory or a second open request is refused, the one open
\* request is returned, and without one a new id is drawn.
Inspect(p) ==
    /\ pc[p] = "inspect"
    /\ IF Staged = {} /\ Open = {} /\ ~check[p] /\ Published # Requests
         THEN \E r \in Requests \ Published :
                 /\ rid' = [rid EXCEPT ![p] = r]
                 /\ pc' = [pc EXCEPT ![p] = "journal"]
                 /\ UNCHANGED <<lock, check, todo>>
         ELSE Exit(p)
    /\ UNCHANGED <<requestFiles, lifecycle, crashes>>

WriteJournal(p) ==
    /\ pc[p] = "journal"
    /\ journal' = [st |-> "valid", rid |-> rid[p]]
    /\ Goto(p, "mkdir")
    /\ UNCHANGED <<stage, hollow, pending, bound, fresh, lifecycle, crashes>>

Mkdir(p) ==
    /\ pc[p] = "mkdir"
    /\ stage' = [stage EXCEPT ![rid[p]] = {}]
    /\ Goto(p, "fill")
    /\ UNCHANGED <<journal, hollow, pending, bound, fresh, lifecycle, crashes>>

\* request.cnf, the key, the CSR, the manifest and its signature.
Fill(p) ==
    /\ pc[p] = "fill"
    /\ \E f \in AllFiles \ stage[rid[p]] : stage' = [stage EXCEPT ![rid[p]] = @ \cup {f}]
    /\ bound' = [bound EXCEPT ![rid[p]] = active]
    /\ fresh' = fresh \cup {rid[p]}
    /\ Goto(p, IF stage'[rid[p]] = AllFiles THEN "strip" ELSE "fill")
    /\ UNCHANGED <<journal, hollow, pending, lifecycle, crashes>>

\* The transient configuration goes once everything has been validated.
Strip(p) ==
    /\ pc[p] = "strip"
    /\ stage' = [stage EXCEPT ![rid[p]] = @ \ {Cnf}]
    /\ Goto(p, "publish")
    /\ UNCHANGED <<journal, hollow, pending, bound, fresh, lifecycle, crashes>>

\* The staged request is validated, the pending root must hold nothing else
\* that is open, and the rename does not replace.
Publish(p) ==
    LET r == rid[p] IN
    /\ pc[p] = "publish"
    /\ IF ValidPending(r, stage[r]) /\ Open = {} /\ Staged = {r} /\ ~Exists(pending[r])
         THEN /\ pending' = [pending EXCEPT ![r] = stage[r]]
              /\ stage' = [stage EXCEPT ![r] = NoDir]
              /\ Goto(p, "verify")
         ELSE UNCHANGED <<pending, stage>> /\ Exit(p)
    /\ UNCHANGED <<journal, hollow, bound, fresh, lifecycle, crashes>>

\* The published request is validated again.
Verify(p) ==
    /\ pc[p] = "verify"
    /\ IF ValidPending(rid[p], pending[rid[p]])
         THEN Goto(p, "unlink-created") ELSE Exit(p)
    /\ UNCHANGED <<requestFiles, lifecycle, crashes>>

UnlinkCreated(p) ==
    /\ pc[p] = "unlink-created"
    /\ journal' = NoJournal
    /\ Exit(p)
    /\ UNCHANGED <<stage, hollow, pending, bound, fresh, lifecycle, crashes>>

-----------------------------------------------------------------------------
\* A kill; a command that fails has the same effect, nothing undoes a step.
Crash(p) ==
    /\ crashes < MaxCrashes /\ crashes' = crashes + 1
    /\ pc[p] # "idle"
    /\ Exit(p)
    /\ UNCHANGED <<requestFiles, lifecycle>>

\* A kill inside a file's creation: a short journal, or an empty staged file.
CrashWriting(p) ==
    /\ TornWrites /\ crashes < MaxCrashes /\ crashes' = crashes + 1
    /\ \/ /\ pc[p] = "journal"
          /\ journal' = [st |-> "torn", rid |-> None]
          /\ UNCHANGED <<stage, hollow>>
       \/ /\ pc[p] = "fill"
          /\ \E f \in AllFiles \ stage[rid[p]] :
                stage' = [stage EXCEPT ![rid[p]] = @ \cup {f}]
          /\ hollow' = TRUE /\ UNCHANGED journal
    /\ Exit(p)
    /\ UNCHANGED <<pending, bound, fresh, lifecycle>>

Expire(r) ==
    /\ Expiring /\ r \in fresh
    /\ fresh' = fresh \ {r}
    /\ UNCHANGED <<journal, stage, hollow, pending, bound, lifecycle, crashes, procs>>

\* activate_start refuses request.journal and a request signed for another
\* predecessor.
ActivationBegin(r) ==
    /\ lock = None
    /\ activating = None /\ journal.st = "absent"
    /\ Open = {r} /\ Staged = {} /\ bound[r] = active
    /\ activating' = r
    /\ UNCHANGED <<requestFiles, active, outcome, crashes, procs>>

\* The terminal record decides the request; the journal goes last.
ActivationEnd ==
    /\ lock = None /\ activating # None
    /\ \/ /\ active' = activating
          /\ outcome' = [outcome EXCEPT ![activating] = "complete"]
       \/ /\ outcome' = [outcome EXCEPT ![activating] = "failed"]
          /\ UNCHANGED active
    /\ activating' = None
    /\ UNCHANGED <<requestFiles, crashes, procs>>

Init ==
    /\ journal = NoJournal /\ hollow = FALSE
    /\ stage = [r \in Requests |-> NoDir] /\ pending = [r \in Requests |-> NoDir]
    /\ bound = [r \in Requests |-> None] /\ fresh = {}
    /\ active = None /\ outcome = [r \in Requests |-> "open"] /\ activating = None
    /\ crashes = 0
    /\ lock = None /\ pc = [p \in Procs |-> "idle"]
    /\ check = [p \in Procs |-> FALSE] /\ rid = [p \in Procs |-> None]
    /\ todo = [p \in Procs |-> {}]

Request(p) ==
    \/ RecoverDecide(p) \/ Unstage(p) \/ UnlinkRecovered(p) \/ Inspect(p)
    \/ WriteJournal(p) \/ Mkdir(p) \/ Fill(p) \/ Strip(p) \/ Publish(p)
    \/ Verify(p) \/ UnlinkCreated(p)

Next ==
    \/ \E p \in Procs : \/ RequestStart(p, TRUE) \/ RequestStart(p, FALSE)
                        \/ Request(p) \/ Crash(p) \/ CrashWriting(p)
    \/ \E r \in Requests : Expire(r) \/ ActivationBegin(r)
    \/ ActivationEnd

Spec == Init /\ [][Next]_vars

\* A started command runs on, and the operator runs the helper again.
FairSpec ==
    /\ Spec
    /\ \A p \in Procs : WF_vars(Request(p)) /\ SF_vars(RequestStart(p, FALSE))

-----------------------------------------------------------------------------
(***************************************************************************)
(* Properties.                                                             *)
(***************************************************************************)

\* Every variable has its type, and the flock is held exactly during the
\* steps of a command.
TypeOK ==
    /\ journal \in [st : {"absent", "torn", "valid"}, rid : Sel]
    /\ stage \in [Requests -> (SUBSET AllFiles) \cup {NoDir}]
    /\ pending \in [Requests -> (SUBSET AllFiles) \cup {NoDir}]
    /\ hollow \in BOOLEAN
    /\ bound \in [Requests -> Sel] /\ fresh \subseteq Requests
    /\ active \in Sel /\ activating \in Sel
    /\ outcome \in [Requests -> {"open", "complete", "failed"}]
    /\ crashes \in Nat
    /\ lock \in Procs \cup {None}
    /\ pc \in [Procs -> LockedSteps \cup {"idle"}]
    /\ check \in [Procs -> BOOLEAN]
    /\ rid \in [Procs -> Sel]
    /\ todo \in [Procs -> SUBSET AllFiles]
    /\ \A p \in Procs : pc[p] \in LockedSteps <=> lock = p

\* A staging directory always belongs to the journal, so a killed command
\* never leaves one that inspect_pending_root refuses and nothing removes.
StageOwned == \A r \in Staged : journal = [st |-> "valid", rid |-> r]

\* A pending directory is the complete protocol set, and bound to the
\* version that is active as long as its request is open: renewal and
\* activation never overtake each other.
OpenIsCurrent ==
    /\ \A r \in Published : pending[r] = Files
    /\ \A r \in Open : bound[r] = active

\* At most one request is open (the refusal "multiple nonterminal pending
\* request entries exist" is never met).
OneOpen ==
    \A r, s \in Published : outcome[r] = "open" /\ outcome[s] = "open" => r = s

\* A request and an activation are never in flight together.
OneJournal == journal.st # "absent" => activating = None

\* One transaction at a time: one open request, no request beside an activation
\* and no stage beside that of the journal, whoever is killed.
OneAtATime == StageOwned /\ OneOpen /\ OneJournal

\* What recover_request cannot read or accept: a short journal, an empty
\* staged file, a published request whose lifetime has ended.
Blocked ==
    \/ journal.st = "torn" \/ hollow
    \/ journal.st = "valid" /\ Exists(pending[journal.rid]) /\ journal.rid \notin fresh

\* Run again, the helper resolves every interrupted request, unless it is one
\* of those three.
RequestResolved == journal.st # "absent" ~> journal.st = "absent" \/ Blocked

Switching == INSTANCE CertSwitch
    WITH selected <- active,
         bound <- [r \in Requests |->
                     IF r \in Published THEN bound[r] ELSE "unrequested"]

\* Kills and recoveries included, a request appears in one step and binds
\* the version selected then: the helper implements the same abstract switch
\* as the activation transaction of module Lifecycle.
AtomicPublication == Switching!Spec
=============================================================================
