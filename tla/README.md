# Verification of the Infiproxy control plane

Infiproxy (`stealthhub-panel`) manages proxy runtimes on one host. An
unprivileged web panel edits a SQLite database; a root worker turns the edits
into configuration files and systemd unit state, as one transaction that either
reaches every affected runtime or leaves all of them as they were. Two shell
updaters maintain the runtimes and the panel itself.

This directory holds TLA+ models of that control plane, TLC configurations that
check them on small instances, and TLAPS proofs of their main properties for
every instance. Every definition is translated from the source;
`PROJECT.json` names the lines each one stands for.

- [1. The system](#1-the-system)
- [2. The modules](#2-the-modules)
- [3. The runs](#3-the-runs)
- [4. What the runs found](#4-what-the-runs-found)
- [5. What is proved](#5-what-is-proved)
- [6. What is not modelled](#6-what-is-not-modelled)
- [7. Plan](#7-plan)
- [8. Running the checks](#8-running-the-checks)

## 1. The system

### Components

| Component | Source | State it keeps | Operations |
|---|---|---|---|
| Reconcile transaction | `stealthhub-core/src/reconcile.rs` | `journal.json`, `applied.json`, `desired-generation`, the transaction directory with candidates and snapshots | `recover`, `reconcile`, `rollback`, `observe_user_sync` |
| Core runtime adapters | `adapters/cores.rs` | per core: configuration file, unit enabled and active, listeners of its process | stage, validate, snapshot, install, activate, healthcheck, verify listeners, rollback |
| Reconcile worker | `bin/infiproxy-reconcile.rs` | nothing between runs; a claimed request while it runs | claim, load, recover, reconcile, report; adoption of secrets |
| Generations and status | `storage.rs` | `reconcile_state`, `runtime_user_sync` | bump the generation, mark a result, replace observations |
| Users and access | `storage.rs`, `user_lifecycle.rs`, `access.rs` | `users`, `user_lifecycle_state` (checkpoint and outbox) | create, update, rotate, enable, reset token, delete, deadline scan, startup repair |
| Request bridge | `reconcile_request.rs`, `main.rs` | `reconcile.request` | publish a generation, acknowledge it |
| Profiles, settings, secrets, audit | `storage.rs`, `profile_lifecycle.rs`, `audit.rs` | their tables | optimistic edits through one semaphore; a generation per change of a runtime; default profiles and migrations at a start |
| Routing rules and rule sources | `storage.rs`, `rules.rs`, `policy.rs`, `rule_sources.rs` | pools, rules, rule sets, entries, sources with their caches and validators | forms of each, refresh from the network, compilation |
| Protocol and core adapters, core selection | `adapters/protocols.rs`, `adapters/cores.rs`, `adapter.rs`, `compatibility.rs` | none | validate, render for clients and servers, match capabilities and versions, compose configurations, discover users in them |
| Client documents, routing page | `mihomo.rs`, `policy.rs`, `routing_topology.rs`, `main.rs` | none | resolve the policy, render a subscription, explain it to an administrator |
| Start of the panel | `storage.rs`, `main.rs` | `schema_migrations`, `bootstrap_state`, default rows | create, migrate and seed the database, create the first administrator |
| Module updater | `deploy/module-update.sh`, `modules.rs`, `deploy/cores/install-core.sh` | versioned binaries, manifests, request files, version files, one lock | register, update, remove, start, stop, restart |
| Panel updater | `deploy/panel-update.sh`, `update.rs` | source checkout, backups, marker of the published commit, status file | update with backup, verify, publish or restore |
| Subscription site, node check, certificate readiness | `adapters/infrastructure.rs`, `adapters/tls.rs` | the Nginx site, `tls-readiness.json` | stage, install and check a site for the host of the settings; inspect the pair as root, report it to the panel |
| Inventory | `inventory.rs` of panel and core | none | give every profile, protocol, runtime and frontend a state to show |
| Health, telemetry | `telemetry.rs`, `health.rs` | bounded samples | aggregate for display |
| Configuration editor | `ops.rs` | retained backups | validated atomic replacement |
| Manager, installer | `infiproxy-manager`, `deploy/install.sh` | install state | a front end over the others |

### How they interact

```
 administrator                clock
      |                         |
      v                         v
  panel handlers         user_lifecycle checker (30 s)
      |   one SQLite transaction: rows, checkpoint, generation + 1
      v                         v
  [ users | user_lifecycle_state | reconcile_state | runtime_user_sync ]
      |                                     ^
      | publish generation                  | persist_status, observation
      v                                     |
  reconcile.request --path unit--> infiproxy-reconcile <--timer (5 min)--
                                            |
                      journal.json, snapshots, applied.json
                                            |
                                            v
                            cores: file, unit, process, listeners
```

The panel and the worker share the database and one request file; the worker
alone writes the journal, `applied.json` and the cores. The worker is a systemd
`oneshot`, so there is at most one at a time. Nothing excludes the panel: it
commits while the worker runs, and the worker acts on what it loaded.

### What is hard

- **Crashes.** The worker may die between any two durable writes; the journal
  must always say enough to undo what was done and no more.
- **Partial failure.** The second core fails after the first was changed, a
  restore fails while others succeed, a listener is still held by another core.
- **Stale state.** A generation is loaded, rendered and staged while a newer one
  is committed; a form is submitted over a newer row; an outcome is reported to
  a row that has moved on; a database comes back from a backup.
- **Two clocks of truth.** Expiry takes effect without a write. A checker has to
  notice it, exactly once, and get it to the runtimes, while administrators edit
  the same rows and the clock may step back.
- **Delivery.** Requests are overwritten, lost with a dying process, published
  out of order, acknowledged late.
- **One thing written twice.** What a client gets and what a server runs, the
  policy in a document and the policy on a page, are computed by separate
  functions from rows, files and a host that are read at different moments.
- **Every earlier database.** A start meets what any build left behind, is killed
  between two statements, and shares the database with a command line tool that
  does the same work.
- **Checks outside the transaction.** Forms of profiles and of routing read,
  validate and write in separate statements; a semaphore, a revision or nothing
  at all ties them together.
- **Workers that do not know each other.** The module updater starts and stops
  the units the reconciler is verifying; the panel updater puts a database back
  under a running reconciler; the installer rewrites manifests without the lock.
- **Shell.** A script is killed between two commands, and `set -e` is suspended
  where it is needed most.

`PROJECT.json` lists each of these at the line where it bites, with the property
that covers it.

### What makes each part correct

| Part | Correct when |
|---|---|
| Transaction | a generation is served as a whole or leaves nothing behind; what was changed can always be undone; it converges when failures end |
| Status | `applied` is true; the worker does nothing only where nothing is to do; the row ends up telling the outcome |
| Bridge | no wakeup is lost; the outbox drops no generation nobody asked for |
| Profiles | no two enabled profiles share a listener; an old tab overwrites nothing while the clock runs forward; a generation exactly per change of the desired state |
| Routing | pools and rules at rest agree as `validate()` demands; enabled sets can be served; caches follow their addresses |
| Plans and documents | a proxy handed out is one a runtime lets in; a profile called synced serves no revoked user; what the inventory calls applied and healthy is; a document names nothing it lacks; the routing page tells what the client will do |
| Start | what is up is usable; rows of operators survive every start; one owner; each start ends up |
| Modules | link, version file, process and registry stay in step; a failed update is undone; what is applied keeps its runtime |
| Panel update | what is called current is installed; a failed update leaves the panel it found; the newest commit is reached |
| Users | a stale form never passes; checkpoints are complete; every change of access reaches the runtimes at the cost of one generation |

## 2. The modules

| Module | Models | Rests on |
|---|---|---|
| `AtomicApply` | what the reconciler promises: a loaded generation is applied in one step | |
| `Reconciler` | the transaction, write by write | implements `AtomicApply` |
| `ControlPlane` | the worker around the transaction, the rows it reports to, requests and restores | uses the promise of `AtomicApply` for the transaction |
| `UserLifecycle` | users, checkpoints, outbox, checker | sees the worker as read, then apply or fail |
| `Profiles` | forms of profiles, secrets, settings; default profiles and adapter migrations of a start | |
| `Adapters` | what protocol adapters render and core adapters compose, as operators | |
| `TlsMaterial` | readiness of the certificate pair, as root sees it and as the panel does, as operators | |
| `Frontends` | what the subscription site and the node check ask of settings and host, as operators | |
| `RuntimePlans` | from rows, settings, secrets and host to the listeners and the site, the comparison of users, and what clients get meanwhile | extends `Adapters`, `TlsMaterial`, `Frontends`; the transaction is one step, as in `AtomicApply` |
| `Inventory` | the states the pages give profiles, protocols, runtimes and frontends | extends `RuntimePlans` with operators over its state |
| `Routing` | forms of the client policy and the rule sets, refresh of remote sources | |
| `ClientDocuments` | the subscription and the routing page over the same tables, under forms | a profile is its capability and role; `Adapters` has its proxy |
| `Startup` | schema, migrations, default rows and one-time changes of a start; setup of the owner | |
| `ModuleUpdates` | the module updater, and the reconciler as one that starts, verifies and publishes | |
| `PanelUpdate` | the panel updater, edits and the reconciler as one step | |
| `Absent` | no code: the constant `None` that modules share which one proof module extends | |
| `ReconcilerProofs`, `ProfilesProofs`, `RoutingProofs`, `StartupProofs`, `ModuleUpdatesProofs`, `PanelUpdateProofs` | theorems | the module each is named after |
| `AccessProofs` | theorems about who is let in | `UserLifecycle`, `RuntimePlans`, `Inventory` |
| `PanelProofs` | theorems about what the panel tells | `ControlPlane`, `ClientDocuments`, `AtomicApply` |
| `MC...` | instances for TLC | the module each is named after |

The modules view the same worker at several distances. In `Reconciler` it takes
some thirty steps, in `ControlPlane` the transaction is `Begin`, then `Publish`
and `Finish` or a failure, in `ModuleUpdates` it is `Plan`, `Activate`, `Verify`,
`PublishApplied` or `Undo`, in `UserLifecycle` `WorkerReads`, then `WorkerApplies`
or `WorkerFails`, in `RuntimePlans` `Load`, `ReadSecrets`, `Apply` or `Fail` and
`Observe`, and in `PanelUpdate` one step. That a transaction may be seen as
one step is what the refinement `AppliesAtomically` of `Reconciler` says, which is
checked and proved, and `PanelProofs` shows that the worker of `ControlPlane`, seen the
same way, still implements `AtomicApply` (`Atomic` is the mapping in either module).

A definition whose comment begins with "Mutant:" is a variant of the definition
that follows, changed as a plausible bug would change it. No specification uses
it: it is substituted for the original to see that a property notices.

### Reconciler

One action is one durable write or one change of the host, so `Crash` falls
between any two. The phases `Installed` and `Activated` are written together
with the change they record, because `recover()` does not tell them apart. An
I/O error that leaves the function through `?` ends the process at the same
place as a crash does.

| Variable | In the program |
|---|---|
| `desired` | `reconcile_state.desired_generation` with the domain rows |
| `marker` | the `desired-generation` file |
| `applied` | `applied.json` |
| `journal` | `journal.json`; `res[c]` folds `mutation_started` and `verified` of a `JournalResource` into one of four stages |
| `snap` | the snapshots in the transaction directory |
| `svc` | per core: file, unit enabled, what the process runs |
| `pc`, `goal`, `todo`, `undoFailed` | memory of the process, lost in a crash |
| `before`, `servedWant` | history, only for properties |

A configuration is a set of fragments, a fragment claims a listener. A core's
restart succeeds only if no other core's process holds its listeners; this
couples the cores and makes the order of activation and compensation matter.
Core identifiers are numbers in the order of the `BTreeMap` of the code.

`CrashInRollback` says whether the worker may die inside `rollback()`. The code
does not survive that (finding 1), so the properties that need it to are checked
with `FALSE`, and those that hold nevertheless with `TRUE`.

### ControlPlane

`row` is `reconcile_state` with the contents of the domain rows, `sync` what the
rows of `runtime_user_sync` say: nothing, pending, synced or off. They carry no
generation: a commit marks them pending (`bump_desired_generation`), and an
observation replaces them whatever was committed since (`Replace`).
`overtaken` remembers that it did so under a newer row. `Start` claims the request
(the rename of `claim_request`), `Load` reads the desired state, and the run goes
through recovery and its report, the comparison of generations, the transaction,
its report and the observation of users. `Persist` is the `UPDATE ... WHERE
desired_generation = ?` of `mark_reconcile_result`. `Bail` is every early end
before the transaction (TLS readiness, secrets). `Backup` and `Restore` are the
online copy of the database and its return, by the panel updater or by hand.

`lost` remembers an outcome whose report died with the worker: a run that finds
its generation applied reports nothing, and `StatusConverges` excepts it. The contents of generations matter here in three ways only:
which they are, whether a plan for them is empty, and whether they are `Invalid`,
refused by every validation.

`NeverRestored` is a premise of all properties but one. A restore brings back the
database with a smaller generation, but `applied.json` is in no backup
(`backup_system_configs`) and the worker compares numbers only, so later edits
reuse numbers that were applied with other contents. Only `GenerationsInOrder`
survives that.

### UserLifecycle

Each operation on users is one SQLite transaction over the row, its checkpoint
and the generation, so it is one action; `Save` is the end they have in common.
Queueing, publishing and acknowledging the request are steps of their own, of a
handler or of the checker. `mark[u].pending` is the outbox. `updated_at` is the
version `ver` of the optimistic check, a reading of the clock that
`next_user_updated_at` makes strictly larger than the previous one.

Each operation has two definitions: the transaction of `storage.rs`, and the
handler of `main.rs` (`...Action`) that runs it for a request of an administrator.

Two constants describe the surroundings:

- `Lag`: how old a reading of the clock may be when the transaction that uses it
  begins; `Utc::now()` is called before `pool.begin()` in every operation and in
  `load_desired_state`. Time may pass and others commit in between (`Readings`).
  The checker's reading is a step of its own, `CheckerReads`: operations and ticks
  come between it and the evaluation, however many.
- `MaxBack`: how often the clock steps back. Access may lag behind a clock that
  went back, so `AppliedIsCurrent` and `AccessConverges` speak of `backs = 0`;
  the properties of forms, checkpoints and requests hold through it.

An operation decides by its own reading whether access changes, and asks for a
generation only if it does. The history `missed` has the users whom the last
generation does not cover because of that: an operation without a generation whose
reading, or the checkpoint it replaced, disagreed with the clock (`Judged`; finding 2
is the plainest case), or a worker that loaded the users with a reading older than a
crossing already committed (`Misread`). The next generation settles them.

`traffic_used_bytes` is written by nothing in the program and quotas are
positive, so the quota never blocks and is left out. Deleted ids are never given
out again (`AUTOINCREMENT`).

### Profiles

A form goes through `Open` (the page), a `Submit...` that takes the semaphore,
`CheckListeners` and `CheckSecrets` (two reads of `validate_profile_for_publish`
outside any transaction) and a `Commit...`. `rev` is `updated_at`, the optimistic
version: the clock at the write, which may stand still or step back between two
writes (`Reading`). Secrets and settings have transactions (`UpsertSecret`, ...) and handlers
that take no semaphore. `Stop`, `Replace` and `Start` are the life of the process
under the panel updater: default profiles are inserted one statement at a time and
their batch marked after them, then adapter configurations are migrated.

Two things are excepted by history variables: a build that lacks the adapter of an
enabled profile skips that profile in the listener check (`blind`), and a profile
written at a time not later than the write before, also to a deleted profile of that
name, has versions that do not tell its rows apart (`stood`).

### Adapters, TlsMaterial, Frontends, RuntimePlans, Inventory

`Adapters` has both halves of the contract as operators over records: `Proxy` is
what `render_client` gives a client, `Fragment` what `render_server` gives a core,
`Compose` the configuration a core makes of its fragments, `ObserveUsers` what it
reads back. A capability is a pair of a base protocol and a variant, a secret field
a name, a document a set of proxies or listeners. `Accepts` is the meaning both
halves have to share; it stands for the runtimes themselves.

`TlsMaterial` answers the one question whether the certificate pair is ready in
two ways: the worker looks at the files and asks openssl, the panel may not look
into the directory and believes the report the worker last wrote. `Frontends` has
the two adapters that are no proxy core: which hosts ask for them, and what a host
must have for them to stage and to be healthy.

`RuntimePlans` puts time in between. `Load` reads rows, users, settings and
generation and publishes the report, `ReadSecrets` the secrets later and from two
places (`secret`, the database, and `file`, root-only files), `Apply` plans with the
host as it is (`Select`, `Plan`) and `Observe` plans again. Meanwhile forms are
saved, the manager stores files, a stored value is adopted, runtimes come and go,
the pair expires or loses a file (`material`), names change hands (`known`) and
services die (`down`). Three things are excepted: secrets whose two places disagree
or that changed behind the panel (`OddSecrets`), VLESS REALITY TCP on sing-box,
whose server has no vision flow (`WithoutVision`), and the users of a profile whose
move to another core could not be applied (`NotYetMoved`).

`Inventory` adds no state: `ProfileState`, `RuntimeState`, `AdapterState` and
`FrontendState` are what `build_inventory` makes of rows, probes and units, with its
own selection of the runtime of a profile (`ShownRuntime`). For a profile that is
bound to no runtime that selection may name another one than the one that serves
it, so `PageTellsTruth` speaks of the runtime itself where a profile is bound, and
of some runtime where it is not.

### ClientDocuments

`Generate` is the document of a policy and `Topology` with `Inspect` the page about
it; each follows its own functions, down to which profiles they resolve selectors
over. `ReadProfiles`, `ReadSecrets`, `ReadSets` and `ReadPolicy` are the reads of a
subscription (`fetch`), between which forms commit. Of secrets only their presence is
kept (`stored`): one that was deleted under a profile makes `render_client` fail, and
with it the document. The DNS policy is not in it, because `load_dns_policy`
validates what it returns (`storage.rs:4187`), before the subscription and before the
page alike, so that the second validation (`mihomo.rs:141`) refuses nothing. Sets and inline rules are looked at
in one order, the sets first; a rule is known by its place in it (`Places`), so a
document maps places to targets, and the first match is the least place. A line of a rule is the domains it
matches, with a mark whether the page can tell. Excepted are rule sets whose own row changed
between the reads (`torn`), whose pool was switched off under them (`loose`) or
that name a built-in target nobody created (`BuiltIn`), and what the page does not
look at (`Unseen`). `PageIsSound` has two halves: the target the page names for a
domain is the one the client will use (`InspectionIsSound`), and a policy without
issues is one that can be generated, but for what the page does not look at
(`PageForetells`).

### Startup

An action is one transaction or one statement outside of any. The panel and the
tool run the same steps (`Step`) on one database: tables, columns, the twelve
versioned migrations in the order of the code, settings, the keyed batch of
default rows, the two one-time changes of the routing policy, the count of
administrators. `Init` ranges over a new database and those of every earlier
version. `kept` is what a start must leave alone; `excepted` names what it cannot:
a tool that seeds after the panel finished (`overlap`), a database from before the
DNS policy (`noDns`), and an edit between the two one-time changes of a policy
from which the second makes one that does not validate (`meddled`): it puts
SMART-AUTO in place of the pools that go, which may be gone itself, or be led back
to itself through a pool that referred to one of them.

### Routing

A form of the policy reads pools (`SubmitPolicy`), then members and rules
(`Loaded`, when it is edited), and writes all rows anew (`CommitPolicy`); a form of
a rule set checks (`Prepare`) and commits (`CommitSet`). Between any two of those
another form may commit. `stale` marks a request whose reads are outdated, `raced`
the sets such a request writes to (`Touched`: its own, and those that other forms
gave the entries and sources it believes to be free) and the copies that are made
of them later, for a clone checks nothing; `unchecked` a rule deletion that saved the
halves of two policies (or a policy already left so), the one save that is not
validated; the next form that is validated clears it. `Valid` is what `validate()`
demands of pools and rules among themselves. That their profiles are there, and that
every pool has members left, depends on the profiles of the moment, which change
without the policy: the subscription asks it of each document (`ClientDocuments`). A refresh reads the
row (`Begin`), asks the server (`Fetch`), and writes back by id (`WriteBack`);
`Dated` addresses answer with `Last-Modified` instead of an `ETag`.

### ModuleUpdates

An action is one command of the script that changes the host, so that `Kill` falls
between any two. `link` is what `current` leads to, `version` the version file,
`unit` the service. The worker goes through the passes of `run_due`; `upd` holds
the locals of `install_release_module`. Beside it act the panel (`Ask`, through its
forms, and `AutoForm` and `CheckAll` for the schedule), the terminal manager (`ControlByHand`, `UpdateByHand`), an upgrade
of the panel that synchronises manifests with other pins, and the reconciler. What
the code cannot promise because these do not exclude each other is named by history
variables: `torn` (an installation did not reach its end), `disturbed` (others
changed the unit during an update), `raced` (a removal overlapped a
reconciliation).

### PanelUpdate

`run` is the updater: forward from `Check` over backups, checkout, build and the
two artifacts to `Publish`, backward from `StopPanel` to `Report`. `Kill` and
`Reboot` cut it off anywhere; the next `Check` starts from what is on disk. The ref
moves forward or back (`Push`). A run is wanted for a request, or when the minute of
the day at which it asks (`now`) has reached the schedule the panel wrote into its
policy file (`Wanted`). `behind` remembers that what an undone update put back was
older than what the cores had applied, until something is applied again.

## 3. The runs

| Run | Instance | Shows |
|---|---|---|
| `reconciler` | 2 cores, 3 fragments on 2 listeners, 3 generations out of 5 contents, 2 faults anywhere but in `rollback()`, weak fairness of the worker | an unapplied generation leaves the host as it was (`UnappliedIsUntouched`), an applied one is served as a whole (`AppliedIsServed`), compensation is durable and never blocked (`UndoIsDurable`, `UndoNeverBlocked`), the refinement `AppliesAtomically`, `Convergence` |
| `control` | 2 generations, empty and invalid contents, 2 faults anywhere, 1 restore of any copy | `RowTellsTheTruth`, `WakeupIsKept`, `StatusConverges`, `SyncConverges` |
| `users` | 1 user, 2 names, a deadline, a clock with a tick and a step back, readings up to a tick old, 1 operation, 1 fault | `AppliedIsCurrent`, `NoGenerationStorm`, `VersionIdentifiesRow`, `BoundedScanSuffices`, `OutboxIsRequested`, `AccessConverges` |
| `profiles` | 2 profiles of one transport, 2 tabs, 2 builds with different adapters and schemas, either installed at first; 2 pages, a write that does not move the clock, and 3 requests, or 2 with one event elsewhere (a stop, a secret, a setting, a routing form) | `NoListenerConflict`, `SavesReplaceWhatWasSeen`, `GenerationTellsRuntime` |
| `routing` | 2 pools, 2 rule sets, 2 sources and addresses, 2 handlers; five mixes of forms | `PolicyHolds`, `SetsAreServable`, `SourceConverges` |
| `runtime_plans` | each of the 26 capabilities once with one change and one run, four pairs of profiles with two of each; 2 users, 2 ports, 3 secret names with 2 values, 3 hosts (local, public, one with a port), 6 states of the certificate pair | `ServedAsPromised`, `PageTellsTruth`, `SyncedRevokes` |
| `client_documents` | 3 profiles, two of which share a capability, a role and a secret, 2 pools, 2 rule sets, 2 inline rules, 2 domains; 2 forms, 1 change of the runtimes, 1 subscription | `DocumentIsClosed`, `PageIsSound` |
| `startup` | a new database and those of versions 0 to 12 with five policies; 2 kills, 1 run of the tool, 2 edits, 2 setup forms | `UpIsUsable`, `RestartsKeepRows`, `OneOwner`, `StartConverges` |
| `module_updates` | 1 module, 2 versions, 2 requests, one upgrade, fault and reconciliation each | `NeededRuntimeStays`, `RunningIsCurrent`, `MarkerAgrees`, `RemovedStaysOut`, `FailedUpdateIsUndone`, `RequestsEnd` |
| `panel_update` | 3 commits, 2 pushes, 2 kills, a failure, an edit, a request (or 1 push, 1 kill, 2 edits), schedules of 23:45 and 23:46 | `CurrentIsInstalled`, `FailedRunsTheOldPanel`, `UpdateConverges` |

The runs that expect a violation are the findings of section 4.

**Why the bounds are enough.** Two cores are the smallest instance in which one
core fails after another was changed, a listener changes hands, and order
matters. The contents start a core, change its users on the same listener,
move a listener in either direction, stop everything and collide. Three
generations let one build on another that was undone, retried or adopted (in
`ControlPlane`, where only numbers and reports matter, two are enough for an
outcome to meet a newer row, and all safety properties are proved for any
number). Two faults let compensation itself fail.
One user is enough where rows do not depend on each other (a name taken by
another row only disables actions, a checkpoint sees only its row), and the
properties of forms, checkpoints and requests are proved for any number. One
handler and the checker are two concurrent publishers. Two profiles of one
transport and two tabs are the smallest conflict; three requests let a form be
overtaken and come back. In `Routing` two forms overlap in every combination of
policy and set that shares data; entries beyond three and sources beyond two add
nothing a form reads. One module is enough because passes treat modules one after
the other and share nothing but the lock; two versions are the previous and the
pinned one. Three commits give two updates in a row, so that a run can be cut off,
the ref moved back, and the next run be about another commit. In `RuntimePlans`
profiles meet in ports, in cores and in secrets, all of them pairwise; every
capability occurs with every runtime that offers it; the three hosts are the three
answers the frontends have for one, the six materials each way not to be ready. In `ClientDocuments` two of
each kind of row give a reference, its replacement and a rule before another, and
with the third profile a capability has another profile when its first is disabled; the
page and the document are compared in every state, so only a torn read needs time.
In `Startup` every version occurs, with every policy where the two meet (before
the policy was seeded, between the two changes); one of the policies has a pool
that refers to another that goes (`Between`), which takes two edits and a restart
to break.

**Names of the bounds.** `MaxGen` generations, `MaxFaults` failures of the host,
failed runs, lost publications and crashes, `MaxRestores` restores, `MaxTime` and
`MaxBack` for the clock, `MaxEdits` operations of administrators; the later
modules have one function `Limits` (in `Routing` part of a scenario, in `Profiles` and
`PanelUpdate` a choice of several) with a budget per kind of event. Each is the guard of the action it bounds.

**Deadlock** is checked in the runs of `Reconciler`, `ControlPlane` and
`UserLifecycle`: an idle worker may always start again. In the other modules the
system rests when its budgets are spent, so their configurations say
`CHECK_DEADLOCK FALSE`.

**Fairness.** `WF(WorkerStep)`: `infiproxy-reconcile.path` starts the worker
while a request exists, `infiproxy-reconcile.timer` two minutes after boot and
five minutes after each end (`OnBootSec`, `OnUnitInactiveSec`), and a process
that runs goes on. `WF(CheckerStep)`: `spawn_checker` loops over a 30-second
interval. `ModuleUpdates`: the path unit and a timer start the worker while there
is work. `PanelUpdate`: the path unit starts the updater for a request, the timer
every fifteen minutes, for the last time of a day at 23:45 (`SF(Check(LastQuarter))`:
a schedule up to then is found due once a day, a later one need never be), and the
panel refreshes its state every two hours.
`Routing`: the scheduler runs a pass per tick, and each enabled source is due in
one of them again and again (`SF(Pass(On))`). Nothing is assumed of
administrators, of handlers (a handler may be dropped half way) or of faults, and
faults are finite because liveness is only promised once they end.
`Startup`: the unit of the panel has `Restart=on-failure`, and a start goes on
(`WF(StartPanel \/ Step("panel"))`); the tool is owed nothing.

**No wakeup is assumed.** In `ControlPlane` and `UserLifecycle` the timer alone
carries liveness; `WakeupIsKept` and `OutboxIsRequested` are the safety side of
the path unit, that a request is still there whenever it is needed.

## 4. What the runs found

Each finding quotes the documentation in `PROJECT.json`.

1. `reconciler_crash_in_rollback`: `rollback()` writes status `Failed` before it
   restores the first core, and `recover()` takes `Failed` for settled. A worker
   that dies in between leaves cores with the failed generation, and the next
   start deletes their snapshots. (`UnappliedIsUntouched`)
2. `user_swallowed_expiry`: an edit of a user whose deadline has passed, but was
   not scanned yet, records the crossing in the checkpoint without a generation;
   the runtimes authorize the user until something else changes.
   (`ExpiriesConverge`)

The models reach other states that a reader may not expect. No run is about
them; a premise or a history variable excepts them from the properties they
would break:

| Behaviour | Excepted by |
|---|---|
| Cores are activated in the order of their identifiers (`reconcile.rs:303`). A listener that moves from a later core to an earlier one is still held when the earlier one starts; the generation is rolled back, and fails again on every retry. | `ActivationOrdered` in `Convergence` |
| The check that the generation is still desired reads a marker that only the worker itself writes (`reconcile.rs:285`): a newer commit is never noticed. | nothing; harmless to what is applied |
| `load_desired_state` and every operation on users read the clock before their transaction (`storage.rs:2606`). The checker can commit the crossing of a deadline in between, and the worker applies that generation with the expired user; or an operation finds no change of access where there is one, and commits no generation. | `missed` in `AppliedIsCurrent` and `AccessConverges` |
| After a restore, edits whose numbers were applied before are ignored until they pass the old one (`infiproxy-reconcile.rs:215`). | the premise `NeverRestored` |
| The observation of the loaded generation replaces the pending marks of a newer commit (`storage.rs:1359`), and the page of users says synced of a row the runtimes do not serve yet; if that row cannot be planned, it says so until something else changes. | `overtaken` in `SyncedIsServed`; `SyncConverges` says that it ends if the row can be applied |
| The version of a profile is the bare wall clock (`storage.rs:2718`), without what `next_user_updated_at` does for users. After two writes at one time, or a clock that went back, an old tab may overwrite a newer change, or a new profile of the same name. | `stood` in `SavesReplaceWhatWasSeen` |
| A worker killed between the switch of the link and `remember_version` leaves a core that `compatible()` refuses, though every later update reports success (`module-update.sh:405`). | `torn` |
| A removal reads `applied.json` while a generation that needs the core is between activation and publication (`module-update.sh:518`). | `raced` |
| An outcome is reported only by the run that produced it. If the worker dies just before, the row stays `pending` although the generation is applied (`infiproxy-reconcile.rs:217`). | `lost` in `StatusConverges` |
| A registration whose core installer fails ends as done, because `if (update_module ...)` suspends `set -e` (`module-update.sh:567`). | nothing; no property speaks of the catalogue |
| A failed update puts the database of before the build back while the reconciler goes on (`panel-update.sh:325`); later edits do not reach the cores before their generation is beyond the applied one. | `behind` in `UpdateConverges` |
| The settings form takes any minute as the time of automatic updates (`main.rs:1517`) and the page announces it (`update.rs:419`), but the timer fires at quarter hours and the time is compared with minutes of the same day (`panel-update.sh:392`): an update scheduled for 23:46 to 23:59 is found due only by a run that happens to be late. | `LastQuarter` in `UpdateConverges` |
| An update cut off between the checkout of the previous commit and its binaries (`panel-update.sh:505`) leaves the newer panel installed under the older checkout. If it migrates the database and the next update, to a ref that moved back, fails after a later one was saved, no installed panel reads the database. | `torn` in `CurrentIsInstalled` and `FailedRunsTheOldPanel` |
| A tool that seeds after the panel of the same start finished may restore a default row that an operator deleted in between (`storage.rs:3677`). | `overlap` in `RestartsKeepRows` |
| A database from before migration 4 never gets a DNS policy: the migration that introduces the keys marks the batch that would seed it as done. | `noDns` in `UpIsUsable` |
| The second one-time change puts SMART-AUTO in place of the pools that go and looks at nothing else (`storage.rs:3767`). If SMART-AUTO was deleted after the first change, or a pool it falls back to refers to one that goes, the policy does not validate afterwards, until an operator edits it. | `meddled` in `UpIsUsable` |
| A rule set that a race left with nothing to compile can be cloned, and the copy is enabled like it (`storage.rs:3036`). | `raced` in `SetsAreServable` |
| The inventory selects the runtime of a profile that is bound to none in another way than the worker (`inventory.rs:545`), and may show the state of a runtime that does not serve it. | the bound profiles in `PageTellsTruth` |
| The panel believes the last report on the certificate pair as long as it may not look itself (`tls.rs:554`); a pair that expired since is called ready until the next run. | nothing; the worker asks again |
| A shared secret is read from its file if there is one, else from the database; the manager changes files without a generation. | `OddSecrets` in `ServedAsPromised` |
| sing-box serves VLESS REALITY TCP without the vision flow (`cores.rs:810`) that clients are told to use (`protocols.rs:252`). | `WithoutVision` in `ServedAsPromised` |
| A subscription reads rule sets and policy apart (`main.rs:758`); a rule set may name a group its document lacks, also after its pool was switched off (`storage.rs:3919`) or when it names a built-in target nobody created. | `torn`, `loose`, `BuiltIn` in `DocumentIsClosed` |
| A pool by role that resolves to nothing (`policy.rs:318`), a profile without an installed runtime, and one whose client secret was deleted (`mihomo.rs:129`; the deletion asks for no profile, `main.rs:3195`), make the document fail while the page shows no issue. | `Unseen` in `PageIsSound` |
| The users of a profile are read back from the core it is planned for (`cores.rs:651`). If a profile moves to another core and the run fails (`reconcile.rs:617`), it may be called synced by the new core, which never had it, while the old one still serves it to a user who lost access. | `NotYetMoved` in `SyncedRevokes` |
| The deletion of a rule saves a policy that was loaded in two halves, unvalidated (`storage.rs:3857`); the subscription then answers 503 until a validated form mends it. | `unchecked` in `PolicyHolds` |
| A changed address keeps the `Last-Modified` of the old one, so the new one may answer 304 for ever (`storage.rs:3499`). | `Misled` |

## 5. What is proved

All theorems hold for every value of the constants that satisfies the named
assumptions of the module: numbers are numbers, tables have entries of their
types, `None` and `Gone` are no value of the sets they extend, later commits have no
older schema, what an earlier build left is a policy that validates with keys of its
version, and what `Routing`, `RuntimePlans` and `ClientDocuments` start with passed its
forms (`ScenariosAssumption`, `RuntimePlansAssumption`, `StartsAssumption`). TLC
evaluates the assumptions on every run.
`GenerationsInOrder`, `NoOpMeansApplied`, `SyncedIsServed` and the statements without a name of a run's
property (`RunsEnd`, `RunsAreNeverStuck`, `SilentRunsHaveTold`, `WorkerAppliesAtomically`,
`ServerAccepts`, `PlansInvariant`) are proved and no run checks them: they are what other
properties rest on, or lie beyond what fits beside them in a run.

| Theorem | States |
|---|---|
| `ReconcilerProofs!TypeCorrect` | `TypeOK` |
| `ReconcilerProofs!WriteAhead` | `UndoIsDurable` |
| `ReconcilerProofs!FailureLeavesNoTrace` | `UnappliedIsUntouched`, if `CrashInRollback = FALSE` |
| `ReconcilerProofs!SuccessIsServed` | `AppliedIsServed`, if `CrashInRollback = FALSE` |
| `ReconcilerProofs!UndoGoesOn` | `UndoNeverBlocked`, if `CrashInRollback = FALSE` |
| `ReconcilerProofs!TransactionsAreAtomic` | `AppliesAtomically`, if `CrashInRollback = FALSE` |
| `ReconcilerProofs!RunsEnd` | every step of a run raises `RunRank`, which is at most `MaxRank` |
| `ReconcilerProofs!RunsAreNeverStuck` | a run has a next step (`GoesOn`) |
| `PanelProofs!ControlTypeCorrect` | `TypeOK` |
| `PanelProofs!RowIsInOrder` | `GenerationsInOrder` |
| `PanelProofs!ReportsAreTrue` | `RowTellsTheTruth` |
| `PanelProofs!SyncIsTrue` | `SyncedIsServed`, which no run checks |
| `PanelProofs!NoOpIsSafe` | `NoOpMeansApplied` |
| `PanelProofs!WakeupSurvives` | `WakeupIsKept` |
| `PanelProofs!SilentRunsHaveTold` | `SilenceIsRight` |
| `PanelProofs!WorkerAppliesAtomically` | `ControlPlane` implements `AtomicApply` but for `Restore` |
| `PanelProofs!DocumentsAreClosed` | `DocumentIsClosed` |
| `PanelProofs!PagesAreSound` | `PageIsSound` |
| `AccessProofs!UserTypeCorrect` | `TypeOK` |
| `AccessProofs!FormsAreCurrent` | `VersionIdentifiesRow` |
| `AccessProofs!ScanIsComplete` | `BoundedScanSuffices` |
| `AccessProofs!NoRequestIsLost` | `OutboxIsRequested` |
| `AccessProofs!GrantsAreCurrent` | `AppliedIsCurrent` |
| `AccessProofs!DeadlinesCostOnce` | `NoGenerationStorm`, if `Users` is finite |
| `AccessProofs!ServerAccepts` | a composed listener accepts the proxy rendered from the same row and secrets |
| `AccessProofs!SyncedMeansRevoked` | `SyncedRevokes` |
| `AccessProofs!PlansInvariant` | `PlansInv` |
| `AccessProofs!PromisesAreKept` | `ServedAsPromised` |
| `AccessProofs!PagesAreTrue` | `PageTellsTruth` |
| `ProfilesProofs!ProfilesTypeCorrect` | `TypeOK` |
| `ProfilesProofs!ListenersAreUnique` | `NoListenerConflict` |
| `ProfilesProofs!OldTabsOverwriteNothing` | `SavesReplaceWhatWasSeen` |
| `ProfilesProofs!GenerationsTellRuntime` | `GenerationTellsRuntime` |
| `RoutingProofs!Typing` | `TypeOK` |
| `RoutingProofs!SavedPoliciesValidate` | `PolicyHolds` |
| `RoutingProofs!SetsStayServable` | `SetsAreServable` |
| `StartupProofs!Typing` | `TypeOK` |
| `StartupProofs!AnsweringPanelsAreUsable` | `UpIsUsable` |
| `StartupProofs!OperatorsKeepTheirRows` | `RestartsKeepRows` |
| `StartupProofs!ThereIsOneOwner` | `OneOwner` |
| `ModuleUpdatesProofs!Typing` | `TypeOK` |
| `ModuleUpdatesProofs!NeededRuntimeIsKept` | `NeededRuntimeStays` |
| `ModuleUpdatesProofs!RunningStaysCurrent` | `RunningIsCurrent` |
| `ModuleUpdatesProofs!MarkersAgree` | `MarkerAgrees` |
| `ModuleUpdatesProofs!RemovedModulesStayOut` | `RemovedStaysOut` |
| `ModuleUpdatesProofs!FailedUpdatesAreUndone` | `FailedUpdateIsUndone` |
| `PanelUpdateProofs!CurrentIsTrue` | `CurrentIsInstalled` |
| `PanelUpdateProofs!FailureGoesBack` | `FailedRunsTheOldPanel` |

**Write-ahead.** `UndoIsDurable` says that as long as a transaction may have to be
undone, every changed core is marked in the durable journal and has its snapshot.
It is not inductive alone: a step could change a core under a journal that is
already settled, or restore one the journal does not name. `WriteAheadInv` adds
that a transaction starts without resources (`NothingJournaledYet`), that its
durable status is `Applying` from staging to its end (`ApplyingWhileActive`), and
that compensation touches marked cores only (`UndoesMutatedOnly`). The proof has
one step per action, crashes at every step included.

**Transaction.** The host a transaction ends with depends on what it found, so
`TransactionInv` adds the history to `WriteAheadInv`: at the start of a
transaction every core runs its own file with what is served (`HostFits`,
`CoresFollow`), so a snapshot holds all there is to restore; cores are changed in
their order (`MutatedInOrder`), and one that needs a listener that a later one still
holds does not start, so until publication no core binds what a later one had
(`Yields`), and compensation in reverse order finds every listener free; and a core
no longer in `todo` of a rollback is as the snapshot says (`UndoneSoFar`). `applied.gen = journal.gen` decides which side of the point of no
return a crash was on (`StatusFits`, `OwnGeneration`): before it the host owes what
was served, after it the plan. From that follow the two outcomes, that
compensation never meets a listener held by another core, and the step simulation
of `AtomicApply` (`RefinementStep`): the write of `applied.json` is the one step
that is not a stutter. The premise is finding 1, and cannot be dropped: the run
`reconciler_crash_in_rollback` violates `UnappliedIsUntouched` without it.

**The end of a run.** What `Convergence` adds to safety under fairness needs ENABLED, but
what it rests on is proved. `RunRank` is one number for three: the stage of the run
(a recovery that restores is before the transaction, `rollback()` after it, which the
durable status tells apart), how many cores the loop of that stage has still to come
to, and where it is with the current one. Every step raises it (`RunStepAdvances`, one
step per action), a crash to its end, and `MaxRank` is `64 * (NumCores + 1)`; an edit
leaves it. `RunsAreNeverStuck` has the guards of the steps that depend on a core:
sets of cores have a first and a last one (`CoresHaveEnds`), and a core is current from
`MarkStarted` to `Verify` (`OneIsCurrent`). Neither needs a premise about crashes.

**Reports.** `OrderInv` follows the generation from the load to the row: an
interrupted journal or an unreported outcome is never behind `applied.json`
(`JournalLeads`), a transaction is about the loaded generation
(`Transaction`), and every copy of the row is in order (`RowsInOrder`); a restore
brings back such a copy, so `GenerationsInOrder` needs no premise. `TruthInv`
holds until a restore. It adds that no loaded or applied generation is newer than
the row and that equal numbers mean equal contents (`RowLeads`), which is exactly
what a restore breaks, that an outcome `applied` waits for its report only while
it is true (`AppliedOutcome`), that what is called synced by a run nobody overtook is
about the row, as is every run loaded since (`ObservedLeads`), and that what was requested was committed
(`RequestsLead`). `NeverRestored => TruthInv` is inductive, and gives the safety
properties with that premise.

**Untold outcomes.** `StatusConverges` excepts generations whose outcome was never
reported (`lost`). `SilenceIsRight` is its safety half: a run that finds nothing to do
reports nothing, and the row says `applied` already or a worker died with the report.
`OutcomeIsKept` says what the journal knows of a published generation until then: its
status is `Applied`, or recovery will adopt it because it has a plan, or it is lost; and
that a transaction begins from a settled journal only. `OutcomeIsTold` says so of the
row, as long as the applied generation is the latest. A crash may overwrite `lost`, but
while the applied generation is the latest only with that same one (`JournalLeads`,
`RowLeads`).

**Worker.** `WorkerAppliesAtomically` maps the row, what the worker loaded and
`applied.json` to the variables of `AtomicApply`, for a host whose fragments are one
set. `Commit`, `Load` and `Publish` are its three actions, every other step stutters:
reports keep number and contents of a row, and recoveries, refusals and crashes leave
`applied.json` alone. `Transaction` gives the guard of `Apply`. A restore is none of
these actions and is named in the theorem instead of being excluded from it. That the
runtimes serve the contents of `applied.json` is what `ControlPlane` takes over from
`Reconciler`; here it is part of the mapping.

**Users.** `UserInv` has one part per theorem. `FormIsOlder`: a form is not newer
than its row and equal to it at equal versions, because every operation increases
the version whatever the clock says (lemma `VersionGrows`). `MarksFollowRows`:
from the startup repair on, each row has a checkpoint of its current version.
`RequestsReach`: what is about to be acknowledged was requested or read, and no
mark is ahead of the generation. Operations are first shown to end in `Save`
(`OperationSaves`), so that one lemma covers them all.

**Access.** `GrantsAreCurrent` and `DeadlinesCostOnce` add what holds while the clock
runs forward. `MarksForesee`: whoever is allowed now was allowed at the last
checkpoint, since time only takes access away (`AccessEnds`). `ViewsCover`: a view
of the latest generation, read or applied, holds whoever is allowed now and nobody
whom a checkpoint saw blocked, but for the users in `missed`. An operation without a
generation keeps that for a user it judged as checkpoint and clock do
(`SameAccess`), a scan without one finds the checkpoints as they are; there is no
premise on the age of a reading. `StormIsPaid`: a deadline that may still cost a
generation is a user whose checkpoint is missing or allowed (`MayCross`); a scan that
makes a generation takes one of them away for good. One that works with an old
reading may first find allowed again whom an operation saw blocked since (`Ahead`),
which costs two; an operation brings one user into the one set or the other, or pays
the generation itself. `ReadingIsPast`: without a step back no reading of the checker
is ahead of the clock.

**Plans.** `PlansInv` follows one generation from the rows to the runtimes. Rows are
such as the forms accept (`PlansTyping`). A job has loaded no later generation than the
panel is at, and the rows, users, settings and secrets of just that generation if the
panel has not moved on (`JobFits`, `Loaded`); a store holds what would be read now, but
for the `quiet` secrets that changed without a generation (`Fits`). While the applied
generation is that of the panel, the site answers for the host of the settings, and for
each enabled profile a runtime that offers its capability, and to which it is bound if it
is bound at all, has the listener composed from its row, the present users and such a
store (`HostFits`, `Carried`). What remains is the contract
of the adapters: `ServerAccepts` shows, capability by capability, that the listener of
such a fragment accepts the proxy a client is given for the same row, for every core
that offers the capability and every user with access. `ServedAsPromised` is the two
together, `PageTellsTruth` the same for a
profile that the pages call active.

`SyncedRevokes` is about every core. In the planned one it is the comparison of `Observe`:
the users read back are the loaded ones, so no listener lets anybody else in. In the
others it takes history (`RevokedInv`): a core that has listeners is among those
applied, so the next plan has it too, even without a fragment (`ApplyKeepsRevoked`), and
while the applied generation is the loaded one no listener anywhere serves a
user it did not load (`ServesOnly`). What remains is a run that could not apply what it
loaded; there the exception `NotYetMoved` begins.

**Profiles.** `ProfilesInv` is one invariant for the three properties of the forms.
`Alone`: at most one handler works, only while the panel is up, and it holds the
semaphore. `Seen`: a page of a profile that never `stood` is no newer than its name, and
if it has the revision of that name it shows its row, because every other write, a
migration included, took a later time (`StampKeepsSeen`). `Built`: what a handler is about to
write is for the profile of its page, with its revision, and has the schema of the
row it is built upon. `Checked`: a candidate that passed its check still fits; no
row changes between check and commit since the handler is alone. From `Alone` and
`Checked` follows `NoListenerConflict` (lemma `WriteKeepsListeners`), from `Seen`
and `Built` that a save replaces what was seen. Lemma `WriteTellsRuntime` relates
one written row to the desired state; with the equal schemas of `Built` it gives
`GenerationTellsRuntime`.

**Routing.** The properties are about tables, and what threatens them are requests
that read those tables earlier. So the invariant says of every request in flight
what its commit will leave, as a condition on explicit tables (`JobFits`): what a
form of the policy will save validates, or is the one unchecked deletion, loaded in
two halves or from a policy that was left so (`PolicyFits`), and moves the targets of enabled sets to pools that will be there
(`SetsFollow`); what a form of a set will leave compiles and can be reached, and the
rows it writes are of its set (`SetFits`, `WritesItsSet`). This holds of requests
that nobody overtook, and a commit that changes what another request read marks
it `stale`; one that is stale pays with its `raced` sets. A request that writes other rows of
a table leaves the conditions of the others as they were. Sources add
`RowsSound` and `AnswerSound`: validators never come without a payload, so a source
that answers 304 still has something to compile. The first attempt failed on two
steps that TLC confirms on a slightly larger instance, the clone and the rows taken
from another set; both are now part of `raced`.

**Documents and the page.** `DocumentIsClosed` is about a document made of several
reads, so it is part of its own invariant: `DocumentsInv` says that pools are without
cycles whatever forms were saved (`Acyclic`, which a deletion keeps although it replaces
references), that a set leads to a pool that is there or is `loose` (`SetsLead`), and
that what was served is closed. When the last read is made, the policy validates or
nothing is served, the members of every group it has are groups and proxies it has
(`MembersAreKnown`), and a rule set that neither changed since its read nor is loose
leads to one of them (`TargetIsKnown`). `PageIsSound` compares two resolutions of the
same rules. The inspection stops at the first place whose lines may match; where it
names a target, every place before is one that certainly does not match, so
that place is also the least one the client hits (`StopsCoverHits`,
`InspectionAgrees`); the least of a set of places exists because they are natural
numbers (`EarliestIsThere`). A policy without issues resolves every pool and target
(`ResolvedIsValid`), hence can be generated if nothing is `Unseen` (`ForetoldIsServed`).

**Start.** A start is cut off anywhere and another one goes on, so nothing but the
database tells how far it came. `KeysOK` puts the keys of the batches in order,
`StagesOK` says which keys and migrations a starter has behind it. `DnsOK` has the
one way to miss a DNS policy, `DirectOK` what every writer of custom-direct keeps. The
policy needs to look ahead: between the two one-time changes it is not enough that it
validates, so would what the second change makes of it (`PolicyOK`, over
`DailyRouting(db)`); forms and default rows in between are shown to keep that, and a form
that does not is `meddled`. In the same way rows of operators are compared as the last
change will leave them (`KeptOK`, over `Upgraded(db)`), and before that change only
rows that no default can replace are looked at (`DomainsOK`). Each change of the tables
is described once, row by row (`SmartRows`, `DailyRows`, `WithoutLegacyRows`), and
shown to give a policy without cycles (`SmartIsValid`, `ShippedIsValid`,
`DefaultThenDaily`). The second kind of `meddled` was found by this proof.

**Modules.** `WorkerOK` ties the locals of the script to its place: a release is
resolved before the host is sampled, and the sampled binary is the link it will
put back. `RemovalOK`: from its check on, a removal is of a module that is neither
applied nor wanted by a reconciliation under way, or is known to have raced.
`UnitOK` follows the process of a unit nobody else touched: the sampled binary or
nothing while the link is ahead, nothing once a removal stopped it, otherwise what
the link leads to. `MarkerOK` does so for the version file, which stays that of
the link before until `RememberVersion`. `DroppedOK`: a removed module is disabled
until it is registered again. From `WorkerOK` and `UnitOK` follows that an update
that is given up was undone; all of it holds with the worker killed at every step
and any number of modules, releases and requests.

**Updates.** `UpdateInv` follows a run of `panel-update.sh`. `RunFits`: the marker
never passes the checkout, and a run is about a commit above the marker, so a
checkout that equals the marker was not left by a run on its way forward. From
that, `PublishedIsInstalled`: what is published and checked out is installed, and
so is what a run saved if it found that. `DatabaseIsReadable`: the installed panel
is not newer than the checkout, what was saved is not newer than what is
installed, and each reads its database, because schemas never go back. All of it
survives a kill at any step but one, between the checkout of the previous commit
and its binaries; the theorems except what happens after that (`torn`, until the
next commit is published), and section 4 says what does.

**Only model-checked.** Liveness (`Convergence`, `StatusConverges`, `AccessConverges`,
`SourceConverges`, `RequestsEnd`, `UpdateConverges`, `StartConverges`): the prover has
neither ENABLED nor fairness. Every invariant and every action property of the runs
that pass is stated by a theorem. `Spec` of the theorems has no fairness, so they hold
for the `FairSpec` of the runs too.

## 6. What is not modelled

- **Data.** Text, ports and host names in protocol configurations, the syntax of
  rules, DNS policies, templates. `Adapters` and `ClientDocuments` keep what the two
  sides of a contract have to agree on; in `Reconciler` a configuration is a set of
  fragments, and what validation decides is a choice (`Fail...`) or a property of
  the contents (`ListenersDistinct`, `Invalid`).
- **The configuration editor** (`ops.rs`), a validated atomic replacement with
  retained backups.
- **Files of nginx and of the certificate agent.** `Frontends` and `TlsMaterial` have what
  is asked of them and what follows, not their text, links and backups; the
  validation of a certificate by openssl is two Booleans.
- **Units that act on their own.** A service that restarts itself or is stopped by
  hand, and a reboot of the host, do not occur in `Reconciler`: it assumes that
  only the worker changes a core while a transaction is open. The module updater
  breaks this assumption; `ModuleUpdates` has the two next to each other.
- **A second worker.** systemd does not start a `oneshot` unit twice. The lock of
  `Reconciler` in the code is a mutex of the process; a worker started by hand
  would not be excluded by it.
- **File system errors** other than an end of the process at that place; torn
  files do not occur because every durable file is replaced by rename.
- **Audit rows, subscription tokens, sessions.** They are not part of what the
  runtimes depend on. Of administrators, the creation of the first is in `Startup`.
- **The configurations of the cores in a restore.** `Restore` of `ControlPlane`
  brings back the database only.

The components table of `PROJECT.json` gives the reason for each part left out.

## 7. Plan

Next theorems: for the other workers what `RunsEnd` is for the transaction, a number that
each step of a run raises, first for `ModuleUpdates` (the passes of `run_due`) and
`PanelUpdate`.

Next module: the configuration editor.

## 8. Running the checks

    tlc -workers 2 -config Reconciler.cfg MCReconciler.tla
    tlapm ReconcilerProofs.tla

The other runs and proof modules work alike; `PROJECT.json` pairs each
configuration with its module. The longest runs take about two minutes on two
cores, the proofs a few minutes.
