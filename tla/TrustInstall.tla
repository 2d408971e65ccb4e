---------------------------- MODULE TrustInstall ----------------------------
(***************************************************************************)
(* The trust helper (roles/pki_host_local_certificate/files/               *)
(* platform-pki-host-local-trust: prepare, install, recover), the plugin   *)
(* that fills its ingress (plugins/action/platform_pki_trust_ingress.py)   *)
(* and the tasks that run them (tasks/trust.yml).                          *)
(*                                                                         *)
(* A step is one durable effect: a mkdir, rmdir, rename, unlink or file    *)
(* creation.  A directory is the set of its entries.  The digests of the   *)
(* four files are pinned, so a file is its name; the random stage name and *)
(* the device and inode numbers the journal binds are left out: at most    *)
(* one stage and one ingress exist (StageOwned, SourceKept).               *)
(***************************************************************************)
EXTENDS Naturals

CONSTANTS
    Names,       \* TRUST_NAMES
    Procs,       \* route runs and direct uses of the helper
    Partial,     \* a staged .partial-* file
    None,        \* no process, no file
    MaxCrashes,  \* bound: kills
    TornWrites   \* a kill may hit the middle of the journal's creation

ASSUME TrustAssumption ==
    /\ Names # {} /\ Partial \notin Names
    /\ None \notin Names \cup {Partial}
    /\ None \notin Procs
    /\ MaxCrashes \in Nat
    /\ TornWrites \in BOOLEAN

VARIABLES
    journal,     \* state root: trust-install.journal
    stage,       \* trust/.stage-<id>-<transaction>
    ingress,     \* trust/.ingress-<id>
    target,      \* trust/<id>, the installed trust
    crashes,     \* bound on kills
    lock,        \* holder of the flock on the state root
    pc, check,   \* per process: next step, args.check
    todo         \* per process: the names it still has to transfer or remove

dirs  == <<journal, stage, ingress, target>>
procs == <<lock, pc, check, todo>>
vars  == <<dirs, crashes, procs>>

NoDir == {None}   \* the directory does not exist: no directory has this entry

Exists(d) == d # NoDir

\* validate_tree_fd: exactly the four files with the pinned digests.
Complete(d) == d = Names

\* Steps taken under the flock.
LockedSteps == {"install", "stage", "journal", "fill", "publish",
                "clean", "unlink", "unstage", "unlink-stage"}

Goto(p, step) == /\ pc' = [pc EXCEPT ![p] = step]
                 /\ UNCHANGED <<lock, check, todo>>

GotoWith(p, step, names) == /\ pc' = [pc EXCEPT ![p] = step]
                            /\ todo' = [todo EXCEPT ![p] = names]
                            /\ UNCHANGED <<lock, check>>

Enter(p, c) == /\ lock' = p
               /\ pc' = [pc EXCEPT ![p] = "install"]
               /\ check' = [check EXCEPT ![p] = c]
               /\ todo' = [todo EXCEPT ![p] = {}]

Exit(p) == /\ pc' = [pc EXCEPT ![p] = "idle"]
           /\ check' = [check EXCEPT ![p] = FALSE]
           /\ todo' = [todo EXCEPT ![p] = {}]
           /\ lock' = IF lock = p THEN None ELSE lock

-----------------------------------------------------------------------------
(***************************************************************************)
(* tasks/trust.yml                                                         *)
(***************************************************************************)

\* The route stats the target: an installed trust is only validated.
RouteStart(p) ==
    /\ pc[p] = "idle"
    /\ check' = [check EXCEPT ![p] = Exists(target)]
    /\ pc' = [pc EXCEPT ![p] = IF Exists(target) THEN "enter" ELSE "prepare"]
    /\ UNCHANGED <<dirs, crashes, lock, todo>>

\* recover_empty_unjournaled_stage
OrphanRemovable == stage = {} /\ Exists(ingress) /\ ~Exists(target)

\* prepare: an empty orphaned stage is removed or a missing ingress created;
\* a journaled stage is left alone.  Anything else in the way is refused.
Prepare(p) ==
    /\ pc[p] = "prepare" /\ lock = None
    /\ \/ /\ journal # "torn" /\ ~Exists(target)
          /\ journal = "absent" /\ Exists(stage) => OrphanRemovable
          /\ stage' = IF journal = "absent" THEN NoDir ELSE stage
          /\ ingress' = IF Exists(ingress) THEN ingress ELSE {}
          /\ GotoWith(p, "transfer", Names)
       \/ /\ \/ journal = "torn" \/ Exists(target)
             \/ journal = "absent" /\ Exists(stage) /\ ~OrphanRemovable
          /\ UNCHANGED <<stage, ingress>>
          /\ Exit(p)
    /\ UNCHANGED <<journal, target, crashes>>

\* The plugin copies the pinned bytes without the lock.
Transfer(p) ==
    /\ pc[p] = "transfer"
    /\ \/ /\ Exists(ingress)
          /\ \E n \in todo[p] :
                /\ ingress' = ingress \cup {n}
                /\ GotoWith(p, "transfer", todo[p] \ {n})
       \/ /\ ~Exists(ingress) /\ todo[p] # {}
          /\ UNCHANGED ingress /\ Exit(p)
       \/ /\ todo[p] = {}
          /\ UNCHANGED ingress /\ Goto(p, "enter")
    /\ UNCHANGED <<journal, stage, target, crashes>>

\* install, with --check if the route had seen an installed trust.
RouteInstall(p) ==
    /\ pc[p] = "enter" /\ lock = None
    /\ Enter(p, check[p])
    /\ UNCHANGED <<dirs, crashes>>

\* acquire_lock_at: LOCK_NB.
LockBusy(p) ==
    /\ pc[p] \in {"prepare", "enter"} /\ lock # None
    /\ Exit(p)
    /\ UNCHANGED <<dirs, crashes>>

\* The helper run by hand, or by Ansible in check mode.
DirectInstall(p, c) ==
    /\ pc[p] = "idle" /\ lock = None
    /\ Enter(p, c)
    /\ UNCHANGED <<dirs, crashes>>

-----------------------------------------------------------------------------
(***************************************************************************)
(* Slips: forms of the definitions below that a small mistake would give.  *)
(***************************************************************************)
WriteJournalLate(p) ==
    /\ pc[p] = "journal"
    /\ \E n \in Names \ stage : stage' = stage \cup {n}
    /\ journal' = IF stage' = Names THEN "valid" ELSE journal
    /\ Goto(p, IF stage' = Names THEN "publish" ELSE "journal")
    /\ UNCHANGED <<ingress, target, crashes>>

PublishByFile(p) ==
    /\ pc[p] = "publish"
    /\ \E n \in stage : /\ target' = (target \ NoDir) \cup {n}
                        /\ stage' = IF stage = {n} THEN NoDir ELSE stage \ {n}
    /\ IF stage' = NoDir THEN GotoWith(p, "clean", Names) ELSE Goto(p, "publish")
    /\ UNCHANGED <<journal, ingress, crashes>>

CleanWrongTree(p) ==
    /\ pc[p] = "clean"
    /\ \/ \E n \in todo[p] : /\ target' = target \ {n}
                             /\ GotoWith(p, "clean", todo[p] \ {n})
       \/ todo[p] = {} /\ UNCHANGED target /\ Goto(p, "unlink")
    /\ UNCHANGED <<journal, stage, ingress, crashes>>

RecoverNeedsIngress ==
    IF Exists(target) THEN IF ingress = Names THEN "clean" ELSE "idle"
    ELSE IF Exists(ingress) /\ Exists(stage) THEN "unstage" ELSE "idle"

-----------------------------------------------------------------------------
(***************************************************************************)
(* install                                                                 *)
(***************************************************************************)

\* The empty orphaned stage of a killed run goes first, --check included.
RemoveOrphan(p) ==
    /\ pc[p] = "install" /\ journal = "absent" /\ Exists(stage)
    /\ \/ OrphanRemovable /\ stage' = NoDir /\ UNCHANGED procs
       \/ ~OrphanRemovable /\ UNCHANGED stage /\ Exit(p)
    /\ UNCHANGED <<journal, ingress, target, crashes>>

\* recover: where it goes from a valid journal.
RecoverStep ==
    IF Exists(target)
      THEN IF Complete(target) /\ ~Exists(stage) THEN "clean" ELSE "idle"
      ELSE IF Exists(ingress) /\ Exists(stage) THEN "unstage" ELSE "idle"

RecoverDecide(p) ==
    /\ pc[p] = "install" /\ journal # "absent"
    /\ \/ /\ check[p] \/ journal = "torn" \/ RecoverStep = "idle"
          /\ Exit(p)
       \/ /\ ~check[p] /\ journal = "valid" /\ RecoverStep = "unstage"
          /\ GotoWith(p, "unstage", stage)
       \/ /\ ~check[p] /\ journal = "valid" /\ RecoverStep = "clean"
          /\ IF Exists(ingress) THEN GotoWith(p, "clean", ingress)
                                ELSE Goto(p, "unlink")
    /\ UNCHANGED <<dirs, crashes>>

\* An installed trust is validated; a complete ingress is installed.
InstallDecide(p) ==
    /\ pc[p] = "install" /\ journal = "absent" /\ ~Exists(stage)
    /\ IF ~Exists(target) /\ Complete(ingress) /\ ~check[p]
         THEN Goto(p, "stage") ELSE Exit(p)
    /\ UNCHANGED <<dirs, crashes>>

Stage(p) ==
    /\ pc[p] = "stage"
    /\ stage' = {}
    /\ Goto(p, "journal")
    /\ UNCHANGED <<journal, ingress, target, crashes>>

WriteJournal(p) ==
    /\ pc[p] = "journal"
    /\ journal' = "valid"
    /\ Goto(p, "fill")
    /\ UNCHANGED <<stage, ingress, target, crashes>>

\* populate_stage: each file is written as .partial-* and renamed.
Fill(p) ==
    /\ pc[p] = "fill"
    /\ \E n \in Names \ stage : stage' = stage \cup {n}
    /\ Goto(p, IF stage' = Names THEN "publish" ELSE "fill")
    /\ UNCHANGED <<journal, ingress, target, crashes>>

\* The ingress must still be the one that was read, the target absent.
Publish(p) ==
    /\ pc[p] = "publish"
    /\ IF Complete(ingress) /\ Complete(stage) /\ ~Exists(target)
         THEN /\ target' = stage /\ stage' = NoDir
              /\ GotoWith(p, "clean", Names)
         ELSE UNCHANGED <<target, stage>> /\ Exit(p)
    /\ UNCHANGED <<journal, ingress, crashes>>

\* remove_tree_at of the ingress.  rmdir fails if a transfer of another run
\* has put a file back.
CleanIngress(p) ==
    /\ pc[p] = "clean"
    /\ \/ \E n \in todo[p] : /\ ingress' = ingress \ {n}
                             /\ GotoWith(p, "clean", todo[p] \ {n})
       \/ /\ todo[p] = {} /\ ingress = {}
          /\ ingress' = NoDir /\ Goto(p, "unlink")
       \/ /\ todo[p] = {} /\ ingress # {}
          /\ UNCHANGED ingress /\ Exit(p)
    /\ UNCHANGED <<journal, stage, target, crashes>>

\* remove_journal, then validate_final_state.
UnlinkJournal(p) ==
    /\ pc[p] = "unlink"
    /\ journal' = "absent"
    /\ Exit(p)
    /\ UNCHANGED <<stage, ingress, target, crashes>>

\* remove_tree_at of the journaled stage: its files, then the directory.
Unstage(p) ==
    /\ pc[p] = "unstage"
    /\ \/ \E n \in todo[p] : /\ stage' = stage \ {n}
                             /\ GotoWith(p, "unstage", todo[p] \ {n})
       \/ todo[p] = {} /\ stage' = NoDir /\ Goto(p, "unlink-stage")
    /\ UNCHANGED <<journal, ingress, target, crashes>>

\* remove_journal: the installation then starts over in the same command.
UnlinkStageJournal(p) ==
    /\ pc[p] = "unlink-stage"
    /\ journal' = "absent"
    /\ Goto(p, "install")
    /\ UNCHANGED <<stage, ingress, target, crashes>>

-----------------------------------------------------------------------------
\* A kill; an exception has the same effect, nothing undoes a step.
Crash(p) ==
    /\ crashes < MaxCrashes /\ crashes' = crashes + 1
    /\ pc[p] # "idle"
    /\ Exit(p)
    /\ UNCHANGED dirs

\* A kill inside write_file_at: of a staged file, or of the journal.
CrashWriting(p) ==
    /\ crashes < MaxCrashes /\ crashes' = crashes + 1
    /\ \/ /\ pc[p] = "fill"
          /\ stage' = stage \cup {Partial} /\ UNCHANGED journal
       \/ /\ TornWrites /\ pc[p] = "journal"
          /\ journal' = "torn" /\ UNCHANGED stage
    /\ Exit(p)
    /\ UNCHANGED <<ingress, target>>

Init ==
    /\ journal = "absent"
    /\ stage = NoDir /\ ingress = NoDir /\ target = NoDir
    /\ crashes = 0
    /\ lock = None
    /\ pc = [p \in Procs |-> "idle"]
    /\ check = [p \in Procs |-> FALSE]
    /\ todo = [p \in Procs |-> {}]

Route(p) == Prepare(p) \/ Transfer(p) \/ RouteInstall(p) \/ LockBusy(p)

Install(p) ==
    \/ RemoveOrphan(p) \/ RecoverDecide(p) \/ InstallDecide(p) \/ Stage(p)
    \/ WriteJournal(p) \/ Fill(p) \/ Publish(p) \/ CleanIngress(p)
    \/ UnlinkJournal(p) \/ Unstage(p) \/ UnlinkStageJournal(p)

Next ==
    \E p \in Procs :
        \/ RouteStart(p) \/ Route(p) \/ Install(p)
        \/ DirectInstall(p, TRUE) \/ DirectInstall(p, FALSE)
        \/ Crash(p) \/ CrashWriting(p)

Spec == Init /\ [][Next]_vars

\* The operator runs the route again and again, and a started run goes on ...
RouteSpec ==
    /\ Spec
    /\ \A p \in Procs : WF_vars(Route(p) \/ Install(p)) /\ SF_vars(RouteStart(p))

\* ... or also runs the helper without --check.
FairSpec == RouteSpec /\ \A p \in Procs : SF_vars(DirectInstall(p, FALSE))

-----------------------------------------------------------------------------
(***************************************************************************)
(* Properties.                                                             *)
(***************************************************************************)

\* Every variable has its type, and the flock is held exactly during the
\* steps of install.
TypeOK ==
    /\ journal \in {"absent", "torn", "valid"}
    /\ stage \in (SUBSET (Names \cup {Partial})) \cup {NoDir}
    /\ ingress \in (SUBSET Names) \cup {NoDir}
    /\ target \in (SUBSET Names) \cup {NoDir}
    /\ crashes \in Nat
    /\ lock \in Procs \cup {None}
    /\ pc \in [Procs -> LockedSteps \cup {"idle", "prepare", "transfer", "enter"}]
    /\ check \in [Procs -> BOOLEAN]
    /\ todo \in [Procs -> SUBSET (Names \cup {Partial})]
    /\ \A p \in Procs : pc[p] \in LockedSteps <=> lock = p

\* What is published under the trust id is the complete reviewed tree, even
\* while the ingress is being transferred, cleaned or staged again.
PublishedWhole == target \in {NoDir, Names}

\* Until the trust is published, the ingress that a journaled transaction
\* was made from is complete: an undone transaction can always be repeated.
SourceKept == journal = "valid" /\ ~Exists(target) => ingress = Names

\* A stage that no valid journal owns is empty, so
\* recover_empty_unjournaled_stage never meets one it must refuse.
StageOwned == journal # "valid" /\ Exists(stage) => OrphanRemovable

\* Whatever is killed, an unfinished installation can be undone and repeated:
\* its source is complete and no stage is left that nothing owns.
Resumable == SourceKept /\ StageOwned

\* An installed trust is never changed, replaced or removed.
TrustImmutable == [][Exists(target) => target' = target]_vars

\* What recover cannot finish: a short journal, or one whose stage a killed
\* recovery has already removed.
Stuck ==
    journal = "torn" \/ (journal = "valid" /\ ~Exists(stage) /\ ~Exists(target))

\* Run again, install finishes every interrupted installation but these: the
\* trust is installed in the end, and nothing of the transaction is left,
\* unless runs meet each other's lock for ever.
Installed ==
    \/ []<>(lock # None /\ \E p \in Procs : pc[p] \in {"prepare", "enter"})
    \/ <>[](Stuck \/ (target = Names /\ journal = "absent" /\ stage = NoDir /\ ingress = NoDir))
=============================================================================
