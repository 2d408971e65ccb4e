# Verification of platform-config

TLA+ models, TLC model checks and TLAPS proofs for `platform-config`, a public
Ansible repository that configures already provisioned hosts. Most of the
repository is declarative. What is not declarative are the helpers, plugins and
playbooks that run multi-step transactions over files, systemd units and several
hosts: they take locks, keep journals, pin reviewed inputs, recover from
interruptions and report a verdict. Those are modelled here.

The modules cover five transactions and one verdict:

- the target-local certificate lifecycle (`roles/pki_host_local_certificate`):
  trust, request, activation;
- the OpenBao failover test and the activations that share its guard;
- the first takeover of Grafana Alloy on a host;
- reviewed files on their way from the controller to a target;
- the `concurrent` setting in a file the GitLab Runner owns;
- the wrapper that decides whether an operation passed.

## 1. Inventory

| Component | State it keeps | Operations | Interacts with |
|---|---|---|---|
| **Lifecycle helper** `platform-pki-host-local-lifecycle` | `active`, `rollback`, `activation-journal`, `target-terminal`, `target-terminal-history/`, the service configuration, the systemd unit, the version root | `target-activate-start`, `target-activate-complete`, `target-recover`, `target-status`, response prepare/import/install, custody and client staging | reads requests of the request helper and the trust of the trust helper, drives systemctl |
| **Request helper** `platform-pki-host-local-request` | `request.journal`, `.stage-<id>` and `<id>` in the pending root | `request` (create, revalidate, recover, `--check`) | binds the `active` record; refuses `activation-journal` |
| **Trust helper** `platform-pki-host-local-trust` and plugin `platform_pki_trust_ingress` | `trust-install.journal`, `trust/.ingress-*`, `trust/.stage-*`, `trust/<id>` | `prepare`, transfer, `install`, recovery, `--check` | its final check refuses the journals of the other two helpers |
| **PKI routes** `tasks/trust.yml`, `request_exchange.yml`, `response_activate.yml` | none | the order in which an operator's command runs the helpers | all of the above |
| **Failover guard**, plans and playbook (`platform-openbao-failover-guard`, `platform_openbao_failover_plan.py`, `openbao-haproxy-failover.yml` and its task files) | `active/owner.json` and `consumed/<plan>` on three hosts, the plan artifact, the owner's `haproxy.service` | plan, claim, arm, stop, prove, fail, restore, finish, inspect; routes test and recover | the edge guard takes the same `active/` |
| **Edge guard and activation plans** (`platform-openbao-edge-guard`, `platform_openbao_activation_plan.py`) | the guard directories, the plan artifact | acquire, activate, release | failover guard |
| **Alloy initial activation** (`platform-alloy-initial-activate`, `initial_activation.py`, `tasks/initial_*.yml`) | published files, `journal.json`, `complete.json` / `failed.json`, `alloy.service` | prepare, check, activate, recover, status, renewal preflight | controller filter, systemd |
| **Reviewed sources** (`platform_pki_secure_source.py`, `platform_pki_reviewed_ca.py`, `platform_pki_transport_client.py`) | open descriptors, remote temporary directory, the destination | pin, read, recheck, transfer, copy, clean up | whoever edits the source |
| **Runner concurrency** (`gitlab_runner_concurrency.py`, `roles/gitlab_runner/tasks`, `playbooks/gitlab-runners.yml`) | `config.toml`, a temporary file and a backup with a token in them | preflight, backup, read, write, publish, compare, rollback, deferred removal | the Runner, which rotates its token in the same file |
| **Operation wrapper and summary** (`platform-config-operation`, the callback, `platform-config-operation-summary`) | the event file, the child process | phases, evidence gate, signals, verdict, exit | Ansible |
| GitLab transport helper | its configuration and lock, response ingress | `request-publish`, `response-download` | request and lifecycle helpers |
| OpenBao rolling restart and bootstrap, monitoring etcd | cluster health | playbooks | Raft, HAProxy, keepalived |
| Rocky minor alignment, host and CA preparation | durable transaction state, dnf | scripts | - |
| Runner self-bootstrap, host alias guard, registry preflight, preparation preflight | none | read-only validators | - |
| Service roles | files and units they declare | Ansible tasks | - |

**What is hard.**
- *Interruption anywhere.* Each transaction is a sequence of file writes and
  systemctl calls with a journal around it, and recovery has to recognise every
  intermediate state, its own included.
- *Overlap.* Operators and pipelines start commands independently; a lock covers
  a command, not a route; several programs write one file or one directory.
- *Lost and late answers.* A guard command may have taken effect although its
  answer never came, and may take effect after the controller that sent it died.
- *Time.* Rollback deadlines, plan and request lifetimes, certificate ages and
  clocks that are set back pass between steps.
- *Verdicts from evidence.* A PASS is computed from records that may be lost,
  torn or written by somebody who is killed.
- *Agreement of code written apart.* The status command and the commands it
  points to, the controller's filter and the helper, neighbouring helpers.

**What makes each component correct.**
- Lifecycle: an interrupted switch can always be undone; records never contradict
  each other; at most one outcome per request, never changed; the service runs
  what is selected; the transaction is an atomic switch; a journal is decided.
- Request: at most one open request, whole, for the active version; every stage
  has an owner; an interrupted request is resolved.
- Trust: what is published is the reviewed tree, for ever; an interrupted
  installation can be repeated or finished.
- Failover: HAProxy is down only while every host is reserved; one fault per
  plan; failures are never turned into proofs; HAProxy comes back; guards are
  released; a reported pass is proven on every host.
- Alloy: started once, from one reviewed build, after a durable intent; a failed
  takeover stays down; every intent is decided; reports are true, that of a renewal
  of what was seen after the readiness probe.
- Reviewed sources: only reviewed bytes reach a destination, whoever edits the
  source; reports are true, and what a task has opened or made is closed and removed.
- Runner concurrency: the module undoes no rotation of the token, a copy of the token
  is left only by a kill or a failure that is reported, and the Runner ends up with
  the wanted value.
- Operation summary: PASS means that everything really ran clean; a gate stops a
  phase whose predecessor was not; a signal ends the operation and its child.

`PROJECT.json` lists every component, and under `hazards` each place in the code
where one of these could go wrong.

## 2. Modules

| Module | Content |
|---|---|
| `CertSwitch` | abstract: one committed selection, changed in one step by a request signed for the selection it replaces; one outcome per request |
| `Lifecycle` | the activation transaction, step by step; refines `CertSwitch` |
| `RequestPublication` | the request helper, step by step, beside activations reduced to begin and decision; refines `CertSwitch` |
| `TrustInstall` | the trust helper, the ingress plugin and `tasks/trust.yml`, step by step |
| `FaultOnce` | abstract: a reviewed plan is reserved, takes HAProxy down at most once, and is settled |
| `Failover` | guard, plan, playbook and activations on `N` hosts; refines `FaultOnce` |
| `AlloyInitial` | routes, filter and helper of the takeover |
| `SourceTransfer` | the pin and the two plugins that install through it |
| `RunnerConcurrency` | the play with its backup and its rollback, and the module, beside the Runner |
| `OperationSummary` | wrapper, callback and renderer of one operation |
| `MC*` | TLC instances (symmetry, constants) |
| `LifecycleProofs`, `RequestProofs`, `TrustProofs`, `FailoverProofs`, `AlloyProofs`, `SourceProofs`, `RunnerProofs`, `SummaryProofs` | theorems and proofs, one module per component |

Operators introduced as a "slip" are mistaken variants of a step; no
specification uses them, and each one breaks a property when it replaces the
step.

### The three certificate helpers

In `Lifecycle`, `RequestPublication` and `TrustInstall` a step is **one durable
effect** (one file created, replaced or removed, one directory operation, one
systemctl action), a process is one command with a program counter `pc`, and
`lock` is the non-blocking flock on `<state root>/lock` that all three helpers
take. `Crash` ends a process between any two effects and drops the lock. With
`TornWrites` a kill may also hit the middle of a write.

**Lifecycle.** A certificate version is its request id. `active` and `config` are
the id they select, `rollback` the pair of ids the record binds, `journal` the
checkpoint with everything a restore needs. Digests, signatures and encodings are
left out: what is left of the validations is what can change after they were
first made (`Candidate`, `ActiveAuthentic`, `TerminalMatchesActive`,
`EntriesAllowed`).

| Code | Actions |
|---|---|
| `target_activate_start` | `TargetActivateStart` (chooses the request before the lock), `ReplayActivation`, `RetireCurrentTerminal`, `ArchiveTerminal`, `RetireUnlink` (releases the lock), `Refuse` |
| `activate_start` | `ActivateStart` (all checks, then the journal), `WriteActive`, `WriteRollback`, `WriteConfig`, `SetCheckpoint`, `ServiceStart`, `Validate`, `LocalValidated`, `Fault` (any exception) |
| `restore_from_journal` | `RestoreStop`, `RestoreConfig`, `RestoreActive`, `RestoreRollback`, `RestoreService`, `RestoreCheckpoint` |
| `publish_target_failure`, `archive_target_terminal` | `PublishTerminal`, `ArchiveTerminal`, `UnlinkJournal` |
| `target_activate_complete` | `CompleteCleanup`, `Complete`, `CompleteStart`, `CompleteValidate`, `CompleteDeadline` |
| `target_recover` | `Recover`, `RecoverStop`, `RecoverDecide` |
| `target_status`, `response_activate.yml` | `RequiredAction`, `RouteRecover`, `RouteComplete` |
| environment | `Crash`, `CrashCreating`, `CrashReplacing`, `Reboot`, `Tick`, `Age`, `PublishRequest`, `InstallResponse` |

`Systemctl(action)` is the set of outcomes of one `service_action`: success, or
failure with the effects of the commands that came before the failing one.
systemd itself is external. A reboot starts an unmasked Zot, never OpenBao.
The lifetime of a request is left to `RequestPublication`; the status values of
an expired request (`reset-required`) and of an unfinished response ingress are
therefore absent from `RequiredAction`.

**RequestPublication.** `stage` and `pending` map request ids to the set of files
in their directory. `RequestStart` is `main` up to `recover_request`,
`RecoverDecide`, `Unstage` and `UnlinkRecovered` are the recovery, `Inspect` is
`inspect_pending_root`, and `WriteJournal` ... `UnlinkCreated` are
`create_request`. `hollow` says that a staged file is empty, which the helper's
reader refuses. `ActivationBegin` and `ActivationEnd` stand for the lifecycle
helper, with the guards `activate_start` has on the request's files.

**TrustInstall.** `stage`, `ingress` and `target` are sets of file names. A route
run stats the target (`RouteStart`), then `Prepare`, `Transfer` (the plugin,
without the lock) and `RouteInstall`, or, if the target existed,
`install --check`. `DirectInstall` is the helper run by hand. The remaining
actions are `install` and its recovery in the order of the code.

### Failover

`active[h]` is the guard directory of a host: absent, without its owner file
(`"incomplete"`), owned by a plan, or by an activation (`Edge`). `consumed[h][p]`
is the permanent record of a plan, `debris` the hosts with a `.pending-*` file.

| Code | Definitions |
|---|---|
| guard: `_locked`, `inspect`, the commands | `Blocked`, `Owned`, `Inspect`, `Accepts` (which record a command accepts), `Becomes` (what it writes), `Refused`, `Done`, `Killed` (between two durable effects) |
| plan plugin | `WritePlan`, `Prepared`, `ReadPlan`, `Publish`, `Expire`, `Drift` |
| playbook, one guard command per host | `Start`, `Ask`, `AskInspect`; an answer may be lost before or after the effect |
| playbook, what the answers decide | `Discovered`, `Approved`, `Declined`, `Rejected`, `NothingRetained`, `Claimed`, `Recheck`, `Armed`, `Stop`, `Proof`, `Proved`, `Reinspected`, `FailRecorded`, `Restored`, `Smoke`, `Finished`, `Report` |
| edge guard and activation | `EdgeAcquire`, `EdgeRejected`, `EdgeActivate`, `EdgeRelease` |
| environment | `Crash` of the controller, `Land` (a command of a dead run) |

A guard command runs under the host's flock and is one step. Commands of one task
on different hosts commute, so the model serves the hosts in order. Playbook runs
are serialized, as `docs/openbao-failover.md` asks; an activation runs beside them.
`Contexts` are the pipeline a run is in: a recovery may come from a
later pipeline, a test may not.

### AlloyInitial

`installed[f]` is the build a published file is from; `view` stands for all other
evidence a record names. An operator's route is `Begin`, for preparation
`Inspect`, `Retained`, `Publish`, `Published`, then `Verify` and `Call`; the
helper's `execute` is `Authenticate`, `Decide`, `Observe`, `Observed`, `Prestart`,
`WriteTmp`, `Rename`, `Start`, `Ready`, `Stop`, `StopVerified`, and
`renewal_observation` is `RenewalUnit`, `RenewalInputs`, `RenewalRecords`,
`RenewalAnswer`, with external commands between each two. Its answer passes the
filter (`Accepts`). `Abandon` takes the controller away from a running helper;
`KillHelper`, `Reboot`, `AlloyDies`, `AutoRestart`, `Revise`, `Drift` and `Age` are
the surroundings.

`activeState` and `unitFileState` are the pair that `unit()` compares: the code wants
exactly inactive and disabled, or active and enabled. The drop-in sets
`Restart=always`, so an Alloy that ends is activating until systemd has it up again
or gives up at its start limit (failed); `disable --now` leaves a failed unit failed.
`since` is a history of a renewal, written where the helper looks and where the unit
or the inputs change: whether the unit was up since the readiness probe, and the
inputs were the same since the helper was done with the unit.

### SourceTransfer

A file has chunks (reviewed bytes or not), a stamp for `identity()` and a flag for
its mode and owner. `Rewrite`, `Replace` and `ReplaceParent` edit the source
between any two steps of a task: `OpenParent`, `CheckParent`, `OpenFile`, `Read`,
`Pinned`, then `CheckStat`, `Checked` in check mode, or `MakeTmp`, `Transfer`, `Copy`,
`Copied`, and `Cleanup` (the two nested `finally` clauses: a removal that fails warns,
one that raises does not keep the descriptors open). Every remote call may fail, also
after its effect. The descriptor of a directory joins the list that is closed only
after `require_safe_ancestor` has accepted it, so `CheckParent` leaves that of a
refused one open; the worker process of the task then ends. `orphan` are the targets
whose remote directory got no path or was not removed. `Recheck` is one step.

### RunnerConcurrency

`text` has the value of `concurrent` and the token (everything else); `mtime` is its
modification time, and `touched` says that it is no longer the file the module opened.

| Code | Actions |
|---|---|
| module (`main`) | `Open`, `Read`, `Write`, `Publish`, `Compare`; `Error` and `Kill` end it anywhere |
| `tasks/preflight.yml` | `PlayStart`, then the module in check mode |
| `tasks/main.yml` | `Tempfile`, `CopyBackup`, `Discard`, the module, `Later` (Quadlet, service, handlers) |
| `playbooks/gitlab-runners.yml` | `Finish` (the deferred removal of the backup), `TaskFails`, `Lost`, and its rescue (`Rescued`) |
| `tasks/rollback.yml` | `Rollback`, `Restore`, `Verify`, `Services`, `Drop` |
| environment | `Rotate` and `Reload` of the Runner, `Tick` |

The rescue of the role runs the rollback, and that of the play runs it again unless
the first one was complete (`replay`). `PutBack` copies the backup over whatever is
there. `atomic_move` over an existing file gives it the attributes of the old one and
the current time (`Replaced`), so what the module set with `utime` is gone; the Runner
reads the file only when its modification time has grown, and `Tick` sets the clock in
both directions.

### OperationSummary

`real` and `shown` are what really happened to a host, `log`, `cut` and `damaged`
the event file as a reader sees it. The wrapper is `Initialize`, `RecordStarted`,
`Fork`, `Track`, `Wait`, `WriteHosts`, `RecordCompleted`, `Gate`, `Signal`,
`Signalled`, `Finish`, `Clean`; the callback `Task`, `Publish`, `Stats`, `Recap`,
`PlayEnds`; the renderer the operators `Invalid`, `HostPassed` and `Complete`.
Every append may fail before, in, or at the end of the record (`AppendFails`).

## 3. Runs

| Run | States | Shows |
|---|---|---|
| `zot_activation` | 172704 | One operator issues and renews, with three kills, torn writes, reboots, failing systemctl, ageing certificates and a deadline: a journal can always be restored (`JournalRestorable`), selection, terminal record and history tell one story (`RecordsAgree`), the service runs what is selected and a failed first issue leaves Zot masked (`ServiceFollows`), no completion after the deadline, outcomes are kept, and the whole implements `CertSwitch` |
| `openbao_activation` | 49560 | OpenBao is stopped whenever nothing is being validated |
| `recovery` | 59264 | With whole writes and fresh certificates `target-recover` accepts every interrupted journal, and every activation is decided |
| `trust_installation` | 3571 | Two runs at once, two kills, torn writes: only whole trees are published, never changed; every stage is owned and the source kept (`Resumable`); `install` run again finishes everything except two named states (`Stuck`) |
| `request_publication` | 8895 | Two processes beside activations, two kills, torn writes, expiry: one open request, stage and journal (`OneAtATime`), bound to the active version, published atomically, and resolved except from three named states (`Blocked`) |
| `failover` | 380558 | Three hosts, one fault (lost answer, kill, failed observation or dead controller with a late command), an activation beside it: HAProxy is down only while every host is reserved, one fault per plan, outcomes are permanent, a reported pass is proven, HAProxy comes back and the transaction ends |
| `source_transfer` | 1529190 | Three edits of the source at any point of a task, in both modes, and every remote call may fail or lose its answer: only reviewed bytes arrive, at the last recheck the path leads to them, every way out closes the descriptors, removes the remote directory and reports truly (`EndsClean`, with the exceptions below) |
| `operation_summary` | 785202 | Two failed or torn writes, a signal, an unsafe host name, ignored and rescued errors, killed plays: PASS is true and lists every change, a gate holds, a signal ends the operation and its command |
| `alloy_initial` | 403358 | Two operators, one kill, reboot, crash of Alloy or failure and one edit: started once, from one build, after the intent; failed means inactive and disabled; the filter accepts every answer; reports are true, "verified" of what was seen after the readiness probe; every intent is decided unless `Blocked` |
| `runner_concurrency` | 538608 | Two rotations, two failures at any task, call or step of a rollback, a clock in both directions: no rotation is undone but by a rollback with an older backup, a copy of the token is left only by a kill or an incomplete or lost play, reports are true and the Runner converges |

The conjunctions `RecordsAgree`, `ServiceFollows`, `Resumable`, `OneAtATime`,
`EndsClean`, `PassSound` and `TokenSafe` have named parts; each is a statement
about several records that is only useful as a whole.

**Exceptions are part of the properties**, written out from the state the code
looks at and not from the model's own decisions:
- `Stuck` and `Blocked` (trust, request): a short journal, a journal whose stage a
  killed recovery had removed, an empty staged file, a published request that
  expired before its journal went. From these the helpers do not recover by
  themselves; a second kill inside the recovery of a trust stage is the way into
  the second one.
- `overtaken` (failover): a `fail` of a dead controller can land after the restore
  answers of a later run, whose report then says passed of a record that says
  failed.
- `Incomplete`, `Kept`, `drifted` (failover): a temporary file, a guard without its
  owner file or without its record, a guard an activation kept, hosts that no longer
  match the evidence. No command repairs these.
- `signal = "unseen"` (summary): a signal between the fork and `active_pid=$!` leaves
  the command running.
- `Blocked` (Alloy): a leftover temporary, drifted or expired inputs, reviewed inputs
  that are not the original ones any more, or a unit that systemd has given up on:
  `disable --now` leaves it failed, `stop` wants it inactive, and every recovery
  refuses until somebody resets it or the host reboots.
- `OutcomeTrue` (Alloy) says of "verified" only that each fact held when it was looked
  at again: an Alloy that dies behind the second look at the unit is still reported as
  verified.
- `NothingOpen` and `RemoteRemoved` (source): the descriptor of a refused directory
  stays open until the process of the task ends; a remote directory stays if its path
  was lost or its removal failed, with nothing but reviewed bytes in it.
  `SourceStillReviewed` does not say that an edit was noticed: a directory that is
  moved away and back passes the last recheck.
- `reverted` (Runner): when the module refuses a file that was rotated, or a later
  task fails, the rollback copies back the backup from before the rotation, and the
  Runner is left with the old token. The play then says that its rollback was complete.
- outcomes `lost` and `incomplete` (Runner): the backup, with a token in it, stays.
- `missed` (Runner): with the clock at or behind the time of the file it replaces, the
  new file is not newer than what the Runner has read, which then never reloads it.

### Disagreements between the code and what the repository says of it

Two runs are expected to be violated. Each shows a behaviour of the code that a
document or an error message of the repository excludes (quoted in
`PROJECT.json`, `findings`).

| Run | Behaviour |
|---|---|
| `route_recovery` | The activation route validates trust before it recovers, and that validation refuses the journal: through the route an interrupted activation is never recovered |
| `overlapping_operators_terminal` | A second operator activates a request whose failure was recorded meanwhile; every later command refuses |

Three related behaviours are noted with the hazards: after a half-done rollback
`target-status` asks for a completion that refuses (recovery, tried next, works);
a certificate below its minimum lifetime blocks the rollback from it (run `recovery`
with `Aging = TRUE`); and the request and trust routes have the same order of
validation and recovery as the activation route, so their journals are finished
only by the helper run by hand, which is what the two passing runs let happen.

### Bounds

- *Certificates.* Two request ids are one issue and one renewal, which is every
  relation the code distinguishes (no predecessor, a predecessor). Two processes
  suffice for every overlap of two commands; the lock admits one. The passing
  `Lifecycle` runs have one: with two, only the properties proved for any number of
  operators hold (section 5). Two or three kills reach an interrupted recovery of an
  interrupted command. `RollbackSeconds = 2`, `Window = 1` and `MaxTime = 3` put the
  clock before, inside and after the window and the deadline. Two files distinguish
  none, some and all.
- *Failover.* Three hosts, as the plan demands, with the owner in the middle: a host
  before and one after it in every loop. One plan and one fault per run. Larger
  instances were checked without a finding: any number of late commands (832 thousand
  states), two hosts with two faults (556 thousand), three hosts with two faults for
  safety only (7.2 million).
- *Alloy.* Two builds and two views distinguish equal and different; two operators
  publish at once; two files, one pinned by the context and one not. Two edits (a
  drift and its undoing, 1.5 million states) were checked too.
- *Source.* One target, since targets share only the source; two chunks put an edit
  before, between and after the reads; three edits allow a change, its undoing and
  one more.
- *Summary.* One server, one other host and one stray host; a gated operation of two
  phases, the second for servers and without changes. Two faults tear one record and
  lose another. A stray host in the first phase was checked too (5.1 million states).
- *Runner.* Three values (wanted and two others), two rotations, two faults (one
  that starts a rollback and one within it).

`MaxTime`, `MaxCrashes`, `MaxFaults`, `MaxEdits`, `MaxWrites`, `MaxClock` and
`MaxLate` bound counters that no guard of the code reads. Deadlock is checked in
every run: somebody can always start another command, and `OperationSummary`, which
ends, has an explicit final step.

## 4. Fairness

- A started command runs on (weak fairness of its next step): the kernel schedules
  it, Ansible goes on to the next task, the shell to the next line. Killing is never
  fair.
- The operator repeats a command (strong fairness, since other commands may hold the
  lock in between): `target-recover` in `FairSpec` of `Lifecycle`, the helper in the
  request and trust modules, the recovery route of `Failover`; only the route in `RouteSpec` of `Lifecycle`.
- `Installed` excepts runs that meet each other's non-blocking lock for ever: the
  code has no queue, so two operators can keep refusing each other. `AlloyInitial`
  assumes instead that from some time on only recovery runs while an intent is
  undecided, which is what `docs/alloy-initial-install.md` asks of operators.
- systemctl does not fail for ever in a restore of `Lifecycle` (strong fairness of a
  successful stop or restart). Without it no rollback can end.
- An activation that holds an edge guard goes on (`Failover`).
- A command that was sent TERM ends (`OperationSummary`); nothing is assumed of one
  that was not, which may wait for an operator.
- The Runner keeps looking at its file, the play and its module go on to their end,
  and the play is run again (weak fairness each, since plays are serialized). Nothing
  is assumed of systemd's restarts.

Nothing is assumed about the success of an activation, a test or a takeover: it may
fail in every way the code allows.

## 5. Proofs

TLAPS proves the theorems for every value of the constants: any number of requests,
files, hosts, plans, operators, faults and kills, both adapters, any deadline, any
clock. Every safety property that a run checks is the statement of a theorem; what
stays with TLC is liveness.

Each proof module has one inductive invariant (`IInv`), a conjunction of named parts.
Proofs follow the actions: one lemma or step per action, under it one step per part
that the action can disturb; effects that several actions share (a served guard
command, an appended record, a released lock) are lemmas of their own. Before it was
proved, each invariant was checked by TLC on the instance of its run.

**TrustProofs**: `TrustTypeCorrect`, `TrustPublishedWhole`, `TrustResumable`,
`TrustNeverReplaced`. The inductive invariant adds to the types `DirFacts`, what the
journal says about the three directories whoever was killed (without a journal a
stage is empty and the ingress complete; with a target there is no stage), and
`StepFacts`, what the holder of the lock knows at each step. That the source is kept
needs both: the plugin writes to the ingress without the lock, and only the fact that
it adds names to a complete set makes that harmless.

**RequestProofs**: `RequestTypeCorrect`, `RequestOpenIsCurrent`, `RequestOneAtATime`
and `RequestImplementsSwitch` (refinement of `CertSwitch`). The strengthening says
that a stage belongs to the journal, that an activation excludes a held lock and a
journal, and that a creating process sees no open request. The binding to the active
version is lost without the exclusion of activations.

**LifecycleProofs**, in three layers:
1. `IInv`, for any number of overlapping operators: the types with the lock
   discipline, `LockedFacts` (what a step under the lock relies on) and
   `JournalRestorable`. It gives `TypeCorrect`, `RestoreNeverRefused` and
   `OutcomesKept`.
2. `SInv`, under `Serial` (operators take turns: at most one process): the journal
   saves a consistent selection (`JournalFacts`), how far each step has come
   (`ProgressFacts`), and a request is activated only while it is undecided
   (`DecisionFacts`). It gives `RecordsTellOneStory` and the refinement
   `ImplementsSwitch`.
3. `VInv`, under `Serial`, on top of both: the journal saves whether a version was
   served, so the last action of a restore is the right one (`ZotFacts`); every
   OpenBao restore and completion has passed a stop (`OpenBaoFacts`); the epoch a
   record carries was read before the clock was compared with the deadline
   (`DeadlineFacts`); journals and terminal records name installed versions
   (`VersionFacts`). It gives `ServiceServesSelection`, `OpenBaoLeftStopped` and
   `CompletedInTime`. With `Undamaged`, which holds if kills fall between two effects
   and certificates do not age, it gives `RecoveryNeverRefused`. Those two hypotheses
   are needed: a short file and a certificate below its minimum lifetime are what
   `target-recover` does refuse.

`Serial` is not a convenience: for two overlapping operators the second layer is
false, as run `overlapping_operators_terminal` shows, and the third rests on it.

**RunnerProofs**: `RunnerTypeCorrect`, `RunnerTokenSafe`, `RunnerReportsTruly`. The
strengthening says that a module that holds an untouched file holds what it read
(`RunFacts`), that a temporary file is that of the current run or of a killed one
(`TempFacts`), and at which task of the play, and after which outcome, a backup may be
there (`CopyFacts`). `TokenSafe` fails without `RunFacts`: it is the comparison of
identities that keeps the module from bringing an old token back. The rollback makes
no such comparison, which is why the theorem has the exception `reverted`.

**SourceProofs**: `SourceTypeCorrect`, `OnlyReviewedInstalled`, `TasksEndClean`,
`EditsNoticed`. Stamps are never reused, so a pinned file that still has its stamp
still has the bytes it was read with (`SourceFacts`, `PinFacts`); from the digest
comparison on, a task holds the reviewed bytes and passes on nothing else
(`TargetFacts`, which also says which remote directories are left and which directory
stays open). The second half is not enough for `EditsNoticed`, which is about the path
and not the copy: at the last recheck the path still leads to the reviewed bytes.

**AlloyProofs**: `AlloyTypeCorrect`, `AlloyStartedReviewed`, `AlloyStartedOnce`,
`AlloyFailedStopped`, `AlloyAnswersAccepted`, `AlloyOutcomeTrue`. `RecordFacts` says
what the records imply about the unit whoever was killed (no intent, no start; failed,
so inactive and disabled), `StepFacts` what the helper knows at each step, and
`RouteFacts` that a route which calls the helper has seen all files of one build. That
a file of a second build cannot replace one in between rests on the publication, which
leaves a file that is there as it is (`force: false`). `AlloyOutcomeTrue` rests on a
second layer, `SinceFacts`: what a renewal has seen once it is past each look.

**FailoverProofs**: `FailoverTypeCorrect`, `FaultStaysReserved`,
`ActivationExcludesFault`, `PassReportTrue`, `OutcomesPermanent`, and
`FaultInjectedOnce`, the refinement of `FaultOnce`. What makes the invariant hard are
the commands of dead controllers, which land at any time: `LateFacts` and `Quiet` say
which of them can still be under way for a plan, `FreshFacts` that between the last
claim and the proof none can touch a host, `FaultFacts` that while HAProxy is down no
`finish` can. `RunFacts` and `SettleFacts` say what an answer tells a run about the
host that gave it, `PassFacts` what stands behind a result, `EdgeFacts` which guards an
activation holds. The lemmas `EffectKeeps`, `EffectHolds`, `EffectReserved` and
`EffectForeign` say once what a guard command does, served, lost or killed half way.

**SummaryProofs**: `SummaryTypeCorrect`, `PassIsSound`, `NothingLeftRunning`,
`GateIsHeld`. `Evidence` says that a record that can be read is true, `HostFacts` that
the list of hosts is complete once phase 0 reads as passed, `ChangeFacts` that a
missing record of a change shows: the file is spoilt, or its phase gets no recap.
`ProcessFacts` and `PhaseFacts` say when the command may be running and that a phase
starts from nothing. `PassSound` is inductive only with `GateFacts` and with the fact
that after a PASS no command runs that could undo it.

Assumptions on constants: `LifecycleAssumption`, `RequestAssumption`,
`TrustAssumption`, `FailoverAssumption`, `NoneAssumption`, `AlloyAssumption`,
`TransferAssumption`, `RunnerAssumption` and `SummaryAssumption`. They say that null
values are no ids and no records, that there is at least one file, build, view or
chunk, that the window is shorter than the rollback time and values of `concurrent`
are positive (as the argument validation demands), that the owner is one of the hosts,
and which hosts and phases an operation has. TLC evaluates them in every run.

**Only model-checked:** liveness (`JournalResolved`, `RequestResolved`, `Installed`,
`HaproxyRestored`, `TransactionEnds`, `Decided`, `SignalEnds`, `Converges`), which is
out of reach of TLAPS, and the two runs that are expected to be violated.

## 6. Not modelled

- Contents: cryptographic validation, parsing and formatting of records, file
  ownership and modes beyond one flag, and, in the certificate helpers, the
  `recheck`s of inodes against other programs that rewrite the same directories.
- `fsync` and power loss: an effect that a step has made is durable.
- Lifecycle: response preparation, import and installation as steps (one action
  now), with what a kill leaves of them and with a `response-prepare` beside a request
  journal; custody and client-staging commands; `target-status` of an ageing
  certificate; `--check` of the lifecycle commands, which performs a prefix of the
  modelled steps and ends, as a kill would.
- The GitLab transport: its failures are those of commands and files already
  modelled, its content is a remote service.
- Failover: a `systemctl` of a dead controller that takes effect later, a reboot of a
  host, the position of the VIP (the observation of owner and cluster is one step that
  may fail), and configuration changes during a test, which the documentation
  prohibits. The convergence of HAProxy and Keepalived and its rollback is one step of
  the activation.
- Source: a directory deeper than one level (the checks repeat), an `fstat` that
  fails, and an edit between the system calls of one recheck.
- Alloy: a `systemctl` that outlives a killed helper and takes effect later, an
  operator who changes the unit by hand other than by stopping it, and an edit between
  the looks of the last check before `complete.json`, which are one step (`Ready`).
- Summary: a second signal, which finds the trap reset and ends the wrapper while its
  command may go on; the operations of `PREFIX_GATED_OPERATIONS` that are not
  evidence-gated (`rke2-*`), which run the gate with the plain rules; the rule for
  hosts on which every task was skipped, beyond what it shares with ignored errors;
  SIGKILL of the wrapper, what an orphaned command does after the wrapper
  exited, the argument and manifest validation of single operations, wording.
- Runner: a write of the Runner between the last `lstat` and the rename, or the report. The code
  says itself that its check is no lock; with such a write a rotation is lost.
  Registration, first or forced, and the use of the role without the play or in check
  mode; the tasks before and after the module (Podman host, CA, Quadlet, service), which
  are one step that may fail, and whose handlers would make the Runner reload; a module
  run of a lost controller that overlaps the next play. A value published without a
  backup is not rolled back, although the rollback then counts as complete.
- Read-only validators (registry preflight, preparation preflight, host alias guard,
  runner self-bootstrap): they keep no state, and a model would repeat their text.
- Rocky alignment, rolling restart, etcd and bootstrap playbooks, storage tests,
  service roles: mostly the order of Ansible tasks around external programs.

## 7. Plan

1. For overlapping operators: which part of the second and third layer of
   `LifecycleProofs` survives without `Serial` (a second operator that does not pass
   `target_activate_start` between a failure and its retirement).
2. Response staging (`response_prepare`, `target_response_import`,
   `response_install`) with the GitLab download, as a refinement of `InstallResponse`.
3. A composition of the three certificate helpers over one state root, with the
   routes as programs, in place of the reduced neighbours each module has now.
4. Rocky minor alignment, rolling restart and etcd activation.
