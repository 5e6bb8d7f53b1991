---------------------------- MODULE ModuleUpdates ----------------------------
(***************************************************************************)
(* The root worker of the runtime modules, deploy/module-update.sh, with   *)
(* the core installer it calls, the panel that leaves request files for it *)
(* (stealthhub-panel/src/modules.rs), the bundled manifests an upgrade of  *)
(* the panel synchronises (deploy/install.sh), and the reconciler, which   *)
(* starts, stops and refuses the same cores without knowing of the worker. *)
(*                                                                         *)
(* An action is one command of the script that changes the host, so that   *)
(* Kill can fall between any two.  Every product module is a pinned        *)
(* release; a version is its rank, 0 stands for "none".  Rejected request  *)
(* files (owner, mode, size) and the retired modules are left out.         *)
(***************************************************************************)
EXTENDS Integers

CONSTANTS
    Modules,        \* identifiers of the bundled modules
    None,           \* no module
    MaxVersion,     \* pins and versions are 1..MaxVersion
    Limits          \* how often each bounded kind of event may happen

Kinds == {"request", "fault", "upgrade", "apply"}

ASSUME ConstantsAssumption ==
    /\ None \notin Modules
    /\ MaxVersion \in Nat \ {0}
    /\ Limits \in [Kinds -> Nat]

VARIABLES
    pin,        \* per module: the release its bundled manifest names
    active,     \* modules with a manifest in infiproxy-modules.d
    available,  \* modules with a manifest in infiproxy-modules.available.d
    disabled,   \* modules with a marker in module-disabled
    link,       \* per module: the version `current` leads to
    version,    \* per module: what its .version file says
    unit,       \* per module: is the service enabled, what does it run
    requests,   \* request files: pairs of an extension and a module
    policy,     \* SQLite: modules with automatic updates
    mirror,     \* state files that say AUTO_ENABLED and INSTALLED
    due,        \* the automatic updates of the day are not done
    upd,        \* the worker
    applied,    \* active_core_ids of applied.json
    rec,        \* the reconciler
    left,       \* what is left of Limits
    torn,       \* history: the last installation did not reach its end
    disturbed,  \* history: the unit was changed by others during an update
    raced,      \* history: a removal overlapped a reconciliation
    dropped     \* history: modules whose removal ended, none between its steps

manifests == <<pin, active, available, disabled>>
host      == <<link, version, unit>>
panel     == <<policy, mirror>>
reconcile == <<applied, rec>>
history   == <<torn, disturbed, raced, dropped>>
vars == <<pin, active, available, disabled, link, version, unit, requests,
          policy, mirror, due, upd, applied, rec, left, torn,
          disturbed, raced, dropped>>

-----------------------------------------------------------------------------
(* Data *)

Versions   == 1..MaxVersion
Installed  == 0..MaxVersion
Extensions == {"register", "remove", "start", "stop", "restart", "request"}
Service    == [enabled : BOOLEAN, running : Installed]

(* run_due: the passes of one run, in their order.                          *)
Passes == <<"register", "remove", "start", "stop", "restart", "request", "auto">>
PCs == {"idle", "scan", "check", "sample", "install", "restore", "rollback",
        "remember", "done", "fail", "incomplete", "stop", "tree",
        "unlist", "files", "mark"}

(* The locals of install_release_module and of the pass that called it:     *)
(* was_enabled, was_active, previous_target and the resolved tag.           *)
Worker == [pc : PCs, pass : 1..7, todo : SUBSET Modules,
           mod : Modules \cup {None}, manual : BOOLEAN, enabled : BOOLEAN,
           active : BOOLEAN, prev : Installed, tag : Installed,
           failed : BOOLEAN]
Reconcile == [pc : {"idle", "activate", "verify", "publish", "undo"},
              want : SUBSET Modules, snap : [Modules -> Service]]

Idle == [pc |-> "idle", pass |-> 1, todo |-> {}, mod |-> None,
         manual |-> FALSE, enabled |-> FALSE, active |-> FALSE, prev |-> 0,
         tag |-> 0, failed |-> FALSE]
Quiet == [pc |-> "idle", want |-> {},
          snap |-> [m \in Modules |-> [enabled |-> FALSE, running |-> 0]]]

Running(m) == unit[m].running # 0
Spend(kind) == left[kind] > 0 /\ left' = [left EXCEPT ![kind] = @ - 1]

(* installed_version: the target of `current` if its binary is there, else  *)
(* the version file, else unknown (0).                                      *)
InstalledVersion(m) == IF link[m] # 0 THEN link[m] ELSE version[m]

(* The modules a pass goes through.  register, remove and the lifecycle     *)
(* passes expand a glob when they begin, the last two list the manifests.   *)
TodoOf(pass, dir) ==
    CASE pass = "request" -> active
      [] pass = "auto"    -> IF due THEN active ELSE {}
      [] OTHER            -> {m \in Modules : <<pass, m>> \in dir}

(* The step ends the work on the current module of the pass.                *)
NextModule(bad) ==
    upd' = IF upd.manual THEN Idle
           ELSE [Idle EXCEPT !.pc = "scan", !.pass = upd.pass,
                             !.todo = upd.todo \ {upd.mod},
                             !.failed = upd.failed \/ bad]

Step(from, to) == upd.pc = from /\ upd' = [upd EXCEPT !.pc = to]
Take(ext, m) == requests' = requests \ {<<ext, m>>}

(* mv -f "$request" "${request}.failed": nobody reads the .failed file.     *)
Reject(ext, m) == Take(ext, m)

(* systemctl start, stop or restart: what the unit runs afterwards.         *)
Controlled(ext, m) ==
    CASE ext = "start" -> IF Running(m) THEN unit[m].running ELSE link[m]
      [] ext = "stop"  -> 0
      [] OTHER         -> link[m]

(* Others that change the unit of the module under update disturb it.       *)
Updating == {"install", "restore", "rollback", "tree", "stop"}
UnderUpdate == IF upd.pc \in Updating THEN {upd.mod} ELSE {}

-----------------------------------------------------------------------------
(* A host whose modules are registered; some are installed, some run.       *)
Init ==
    /\ pin \in [Modules -> Versions]
    /\ active = Modules /\ available = Modules /\ disabled = {}
    /\ link \in {f \in [Modules -> Installed] : \A m \in Modules : f[m] \in {0, pin[m]}}
    /\ version = link
    /\ \E S \in SUBSET {m \in Modules : link[m] # 0} :
          /\ unit = [m \in Modules |-> [enabled |-> m \in S,
                                        running |-> IF m \in S THEN link[m] ELSE 0]]
          /\ applied = S
    /\ requests = {}
    /\ policy = Modules
    /\ mirror = {m \in policy : link[m] # 0}
    /\ due = TRUE
    /\ upd = Idle /\ rec = Quiet /\ left = Limits
    /\ torn = {} /\ disturbed = {} /\ raced = {}
    /\ dropped = {}

-----------------------------------------------------------------------------
(* The panel, the operator, the calendar and the installer *)

(* request_lifecycle: install needs a catalog entry that is not active, the *)
(* other actions an active one; write_request replaces the file.            *)
Ask(ext, m) ==
    /\ IF ext = "register" THEN m \in available \ active ELSE m \in active
    /\ <<ext, m>> \notin requests
    /\ Spend("request")
    /\ requests' = requests \cup {<<ext, m>>}
    /\ UNCHANGED <<manifests, host, panel, due, upd, reconcile, history>>

(* The handlers of the page.  The removal first asks the inventory whether  *)
(* an enabled resource is on the module; profiles are no part of this       *)
(* model and may change before the worker comes, so that check hides        *)
(* nothing from it.  The audit record is left out.                          *)
RegisterForm(m) == Ask("register", m)
RemoveForm(m) == Ask("remove", m)
UpdateForm(m) == Ask("request", m)
ServiceForm(ext, m) == Ask(ext, m)
StartForm(m) == ServiceForm("start", m)
StopForm(m) == ServiceForm("stop", m)
RestartForm(m) == ServiceForm("restart", m)

(* state_file_content: what the state files say, were they all rewritten.   *)
StateFiles(auto) == {m \in auto : link[m] # 0}

(* set_auto_update: the setting and the state file of the module.           *)
SetAuto(m, on) ==
    /\ policy' = IF on THEN policy \cup {m} ELSE policy \ {m}
    /\ mirror' = (mirror \ {m}) \cup ({m} \cap StateFiles(policy'))
AutoForm(m, on) ==
    /\ m \in active
    /\ Spend("request")
    /\ SetAuto(m, on)
    /\ UNCHANGED <<manifests, host, requests, due, upd, reconcile, history>>

(* load_statuses: the page rewrites the state file of every active module.  *)
LoadPage ==
    /\ mirror' = (mirror \ active) \cup (active \cap StateFiles(policy))
    /\ mirror' # mirror
    /\ UNCHANGED <<manifests, host, requests, policy, due, upd, reconcile, left, history>>

(* refresh_with_client: the panel asks upstream for a module, and rewrites  *)
(* its state file with what it finds.  refresh_all does so for one module   *)
(* after the other and goes on where upstream does not answer.              *)
Refresh(S) == mirror' = (mirror \ S) \cup (S \cap StateFiles(policy))
CheckModule(m) ==
    /\ m \in active
    /\ Refresh({m})
    /\ mirror' # mirror
    /\ UNCHANGED <<manifests, host, requests, policy, due, upd, reconcile, left, history>>

(* check_all_modules_action, and the checker of every two hours.            *)
CheckAll ==
    /\ \E answered \in SUBSET active : Refresh(answered)
    /\ mirror' # mirror
    /\ UNCHANGED <<manifests, host, requests, policy, due, upd, reconcile, left, history>>

(* infiproxy-module-update --update: under the lock, and with errexit on.   *)
UpdateByHand(m) ==
    /\ upd.pc = "idle"
    /\ Spend("request")
    /\ upd' = [Idle EXCEPT !.pc = "check", !.mod = m, !.manual = TRUE]
    /\ UNCHANGED <<manifests, host, requests, panel, due, reconcile, history>>

(* module-start, -stop, -restart of the terminal manager: systemctl itself. *)
ControlByHand(ext, m) ==
    /\ m \in active /\ link[m] # 0
    /\ Spend("request")
    /\ unit' = [unit EXCEPT ![m].running = Controlled(ext, m)]
    /\ disturbed' = IF m \in UnderUpdate THEN disturbed \cup {m}
                    ELSE IF unit'[m].running \in {0, link[m]} THEN disturbed \ {m}
                    ELSE disturbed
    /\ UNCHANGED <<manifests, link, version, requests, panel, due, upd, reconcile,
                   torn, raced, dropped>>

(* The day never changes under a run of the worker.                         *)
NextDay ==
    /\ upd.pc = "idle" /\ ~due
    /\ due' = TRUE
    /\ UNCHANGED <<manifests, host, requests, panel, upd, reconcile, left, history>>

(* The installer synchronises the bundled manifests, with other pins; it    *)
(* takes no lock of the worker.                                             *)
Upgrade ==
    /\ Spend("upgrade")
    /\ available' = Modules
    /\ active' = Modules \ disabled
    /\ pin' \in [Modules -> Versions]
    /\ UNCHANGED <<disabled, host, requests, panel, due, upd, reconcile, history>>

-----------------------------------------------------------------------------
(* The worker: the passes *)

StartRun ==
    /\ upd.pc = "idle"
    /\ requests # {} \/ due
    /\ upd' = [Idle EXCEPT !.pc = "scan", !.todo = TodoOf(Passes[1], requests)]
    /\ UNCHANGED <<manifests, host, requests, panel, due, reconcile, left, history>>

NextPass ==
    /\ upd.pc = "scan" /\ upd.todo = {} /\ upd.pass < 7
    /\ upd' = [Idle EXCEPT !.pc = "scan", !.pass = upd.pass + 1,
                           !.todo = TodoOf(Passes[upd.pass + 1], requests)]
    /\ UNCHANGED <<manifests, host, requests, panel, due, reconcile, left, history>>

(* The day marker is written only if no automatic update failed.            *)
EndRun ==
    /\ upd.pc = "scan" /\ upd.todo = {} /\ upd.pass = 7
    /\ due' = (due /\ upd.failed)
    /\ upd' = Idle
    /\ UNCHANGED <<manifests, host, requests, panel, reconcile, left, history>>

InPass(pass, m) == upd.pc = "scan" /\ Passes[upd.pass] = pass /\ m \in upd.todo

(* The item of the pass is rejected: its request becomes a .failed file.    *)
RejectItem(ext, m) ==
    /\ Reject(ext, m)
    /\ upd' = [upd EXCEPT !.todo = @ \ {m}]
    /\ UNCHANGED <<manifests, panel, due, reconcile>>

Work(m, to) == upd' = [upd EXCEPT !.pc = to, !.mod = m]

RegisterRejected(m) ==
    /\ InPass("register", m)
    /\ m \in active \/ m \notin available
    /\ RejectItem("register", m)
    /\ UNCHANGED <<host, left, history>>

RegisterBegin(m) ==
    /\ InPass("register", m)
    /\ m \in available \ active
    /\ active' = active \cup {m}
    /\ disabled' = disabled \ {m}
    /\ dropped' = dropped \ {m}
    /\ Work(m, "check")
    /\ UNCHANGED <<pin, available, host, requests, panel, due, reconcile, left,
                   torn, disturbed, raced>>

(* grep for the id in active_core_ids, or no such module.                   *)
RemoveRejected(m) ==
    /\ InPass("remove", m)
    /\ m \notin active \/ m \in applied
    /\ RejectItem("remove", m)
    /\ UNCHANGED <<host, left, history>>

(* Mutant: the removal does not look at applied.json.                       *)
RemoveAnyway(m) ==
    /\ InPass("remove", m)
    /\ m \in active
    /\ available' = available \cup {m}
    /\ raced' = raced \cup ({m} \cap rec.want)
    /\ Work(m, "stop")
    /\ UNCHANGED <<pin, active, disabled, host, requests, panel, due, reconcile,
                   left, torn, disturbed, dropped>>

RemoveBegin(m) ==
    /\ InPass("remove", m)
    /\ m \in active \ applied
    /\ available' = available \cup {m}
    /\ raced' = raced \cup ({m} \cap rec.want)
    /\ Work(m, "stop")
    /\ UNCHANGED <<pin, active, disabled, host, requests, panel, due, reconcile,
                   left, torn, disturbed, dropped>>

(* systemctl disable --now ... || true                                      *)
RemoveStop ==
    /\ Step("stop", "tree")
    /\ \/ unit' = [unit EXCEPT ![upd.mod] = [enabled |-> FALSE, running |-> 0]]
          /\ UNCHANGED <<left, disturbed>>
       \/ Spend("fault") /\ disturbed' = disturbed \cup {upd.mod} /\ UNCHANGED unit
    /\ UNCHANGED <<manifests, link, version, requests, panel, due, reconcile, torn,
                   raced, dropped>>

RemoveTree ==
    /\ Step("tree", "unlist")
    /\ link' = [link EXCEPT ![upd.mod] = 0]
    /\ UNCHANGED <<manifests, version, unit, requests, panel, due, reconcile, left,
                   torn, disturbed, raced, dropped>>

(* One rm takes the manifest first, then what belongs to it.                *)
RemoveManifest ==
    /\ Step("unlist", "files")
    /\ active' = active \ {upd.mod}
    /\ UNCHANGED <<pin, available, disabled, host, requests, panel, due, reconcile,
                   left, history>>

RemoveFiles ==
    /\ Step("files", "mark")
    /\ version' = [version EXCEPT ![upd.mod] = 0]
    /\ mirror' = mirror \ {upd.mod}
    /\ Take("remove", upd.mod)
    /\ UNCHANGED <<manifests, link, unit, policy, due, reconcile, left, history>>

(* Mutant: a removal leaves no disabled marker.                             *)
RemoveWithoutMark ==
    /\ upd.pc = "mark"
    /\ dropped' = dropped \cup ({upd.mod} \ active)
    /\ NextModule(FALSE)
    /\ UNCHANGED <<manifests, host, requests, panel, due, reconcile, left, torn,
                   disturbed, raced>>

RemoveMark ==
    /\ upd.pc = "mark"
    /\ disabled' = disabled \cup {upd.mod}
    /\ dropped' = dropped \cup ({upd.mod} \ active)
    /\ NextModule(FALSE)
    /\ UNCHANGED <<pin, active, available, host, requests, panel, due, reconcile,
                   left, torn, disturbed, raced>>

ControlRejected(ext, m) ==
    /\ InPass(ext, m)
    /\ m \notin active \/ link[m] = 0
    /\ RejectItem(ext, m)
    /\ UNCHANGED <<host, left, history>>

Control(ext, m) ==
    /\ InPass(ext, m)
    /\ m \in active /\ link[m] # 0
    /\ unit' = [unit EXCEPT ![m].running = Controlled(ext, m)]
    /\ Take(ext, m)
    /\ disturbed' = IF unit'[m].running \in {0, link[m]} THEN disturbed \ {m}
                                                         ELSE disturbed
    /\ upd' = [upd EXCEPT !.todo = @ \ {m}]
    /\ UNCHANGED <<manifests, link, version, panel, due, reconcile, left, torn,
                   raced, dropped>>

(* A failed start or restart leaves the unit down, a failed stop up.        *)
ControlFails(ext, m) ==
    /\ InPass(ext, m)
    /\ m \in active /\ link[m] # 0
    /\ ext = "start" => ~Running(m)
    /\ Spend("fault")
    /\ unit' = IF ext = "stop" THEN unit ELSE [unit EXCEPT ![m].running = 0]
    /\ RejectItem(ext, m)
    /\ UNCHANGED <<link, version, history>>

RequestUpdate(m) ==
    /\ InPass("request", m)
    /\ <<"request", m>> \in requests
    /\ Work(m, "check")
    /\ UNCHANGED <<manifests, host, requests, panel, due, reconcile, left, history>>

AutoUpdate(m) ==
    /\ InPass("auto", m)
    /\ m \in mirror
    /\ Work(m, "check")
    /\ UNCHANGED <<manifests, host, requests, panel, due, reconcile, left, history>>

Skip(m) ==
    /\ \/ InPass("request", m) /\ <<"request", m>> \notin requests
       \/ InPass("auto", m) /\ m \notin mirror
    /\ upd' = [upd EXCEPT !.todo = @ \ {m}]
    /\ UNCHANGED <<manifests, host, requests, panel, due, reconcile, left, history>>

-----------------------------------------------------------------------------
(* The worker: install_release_module *)

Pinned == pin[upd.mod]
AllowDowngrade == upd.manual \/ Passes[upd.pass] # "auto"

(* The manifest cannot be loaded, the release cannot be resolved, the       *)
(* archive cannot be downloaded or is not what its digest says: die.        *)
CheckFails ==
    /\ Step("check", "fail")
    /\ IF upd.mod \in active THEN Spend("fault") ELSE UNCHANGED left
    /\ UNCHANGED <<manifests, host, requests, panel, due, reconcile, history>>

AlreadyCurrent ==
    /\ Step("check", "done")
    /\ upd.mod \in active
    /\ link[upd.mod] = Pinned
    /\ UNCHANGED <<manifests, host, requests, panel, due, reconcile, left, history>>

DowngradeRefused ==
    /\ Step("check", "done")
    /\ upd.mod \in active
    /\ link[upd.mod] # Pinned
    /\ InstalledVersion(upd.mod) > Pinned /\ ~AllowDowngrade
    /\ UNCHANGED <<manifests, host, requests, panel, due, reconcile, left, history>>

Download ==
    /\ upd.pc = "check"
    /\ upd.mod \in active
    /\ link[upd.mod] # Pinned
    /\ InstalledVersion(upd.mod) > Pinned => AllowDowngrade
    /\ upd' = [upd EXCEPT !.pc = "sample", !.tag = Pinned]
    /\ UNCHANGED <<manifests, host, requests, panel, due, reconcile, left, history>>

(* is-enabled, is-active, the backup of the configuration, previous_target. *)
Sample ==
    /\ upd.pc = "sample"
    /\ \/ upd' = [upd EXCEPT !.pc = "install",
                             !.enabled = unit[upd.mod].enabled,
                             !.active = Running(upd.mod),
                             !.prev = link[upd.mod]]
          /\ UNCHANGED left
       \/ Spend("fault") /\ upd' = [upd EXCEPT !.pc = "fail"]
    /\ UNCHANGED <<manifests, host, requests, panel, due, reconcile, history>>

(* The core installer switches the link after its smoke test.               *)
Install ==
    /\ Step("install", "restore")
    /\ link' = [link EXCEPT ![upd.mod] = upd.tag]
    /\ UNCHANGED <<manifests, version, unit, requests, panel, due, reconcile, left, history>>

(* When it fails, `set -e` ends an update by hand, but is suspended in the  *)
(* conditions that run the other updates: they go on with the old link.     *)
InstallFails ==
    /\ upd.pc = "install"
    /\ Spend("fault")
    /\ upd' = [upd EXCEPT !.pc = IF upd.manual THEN "fail" ELSE "restore"]
    /\ torn' = IF upd.manual THEN torn ELSE torn \cup {upd.mod}
    /\ UNCHANGED <<manifests, host, requests, panel, due, reconcile, disturbed,
                   raced, dropped>>

(* restore_service_state: enable what was enabled, restart what was active. *)
Restart(m, v) == [unit EXCEPT ![m].running = IF upd.active THEN v ELSE @]

(* Mutant: the service is started, not restarted, which an active one is.   *)
RestoreStarts ==
    /\ Step("restore", "remember")
    /\ UNCHANGED <<manifests, host, requests, panel, due, reconcile, left, history>>

Restore ==
    /\ Step("restore", "remember")
    /\ upd.active => link[upd.mod] # 0
    /\ unit' = [Restart(upd.mod, link[upd.mod]) EXCEPT
                  ![upd.mod].enabled = @ \/ upd.enabled]
    /\ disturbed' = IF upd.active THEN disturbed \ {upd.mod} ELSE disturbed
    /\ UNCHANGED <<manifests, link, version, requests, panel, due, reconcile, left,
                   torn, raced, dropped>>

RestoreFails ==
    /\ Step("restore", "rollback")
    /\ IF upd.active /\ link[upd.mod] = 0 THEN UNCHANGED left ELSE Spend("fault")
    /\ unit' \in {unit, Restart(upd.mod, 0)}
    /\ UNCHANGED <<manifests, link, version, requests, panel, due, reconcile, history>>

(* Mutant: the link goes back and the service keeps what it runs.           *)
RollbackLinkOnly ==
    /\ Step("rollback", "fail")
    /\ upd.prev # 0
    /\ link' = [link EXCEPT ![upd.mod] = upd.prev]
    /\ UNCHANGED <<manifests, version, unit, requests, panel, due, reconcile, left,
                   history>>

(* rollback_symlink: without a previous target it fails at once; what kept  *)
(* the unit from coming up may keep it down with the previous binary.       *)
Rollback ==
    /\ Step("rollback", "fail")
    /\ upd.prev # 0
    /\ link' = [link EXCEPT ![upd.mod] = upd.prev]
    /\ unit' = Restart(upd.mod, upd.prev)
    /\ disturbed' = IF upd.active THEN disturbed \ {upd.mod} ELSE disturbed
    /\ UNCHANGED <<manifests, version, requests, panel, due, reconcile, left, torn,
                   raced, dropped>>

RollbackIncomplete ==
    /\ Step("rollback", "incomplete")
    /\ \/ /\ upd.prev = 0
          /\ torn' = torn \cup {upd.mod}
          /\ UNCHANGED <<link, unit>>
       \/ /\ upd.prev # 0 /\ upd.active
          /\ link' = [link EXCEPT ![upd.mod] = upd.prev]
          /\ unit' = Restart(upd.mod, 0)
          /\ UNCHANGED torn
    /\ UNCHANGED <<manifests, version, requests, panel, due, reconcile, left,
                   disturbed, raced, dropped>>

(* Mutant: the version file is written by nobody after its first version.   *)
RememberFirstVersion ==
    /\ Step("remember", "done")
    /\ version' = [version EXCEPT ![upd.mod] = IF @ = 0 THEN upd.tag ELSE @]
    /\ torn' = IF link[upd.mod] = upd.tag THEN torn \ {upd.mod} ELSE torn
    /\ UNCHANGED <<manifests, link, unit, requests, panel, due, reconcile, left,
                   disturbed, raced, dropped>>

RememberVersion ==
    /\ Step("remember", "done")
    /\ version' = [version EXCEPT ![upd.mod] = upd.tag]
    /\ torn' = IF link[upd.mod] = upd.tag THEN torn \ {upd.mod} ELSE torn
    /\ UNCHANGED <<manifests, link, unit, requests, panel, due, reconcile, left,
                   disturbed, raced, dropped>>

(* What the pass does with the outcome of (update_module ...).              *)
Ext == IF upd.manual THEN "manual" ELSE Passes[upd.pass]

(* Mutant: an update that finds the module current keeps its request.       *)
DoneKeepsRequest ==
    /\ upd.pc = "done"
    /\ IF upd.tag = 0 THEN UNCHANGED requests ELSE Take(Ext, upd.mod)
    /\ NextModule(FALSE)
    /\ UNCHANGED <<manifests, host, panel, due, reconcile, left, torn, disturbed,
                   raced, dropped>>

Done ==
    /\ upd.pc = "done"
    /\ Take(Ext, upd.mod)
    /\ NextModule(FALSE)
    /\ UNCHANGED <<manifests, host, panel, due, reconcile, left, torn, disturbed,
                   raced, dropped>>

Fail ==
    /\ upd.pc \in {"fail", "incomplete"}
    /\ active' = IF Ext = "register" THEN active \ {upd.mod} ELSE active
    /\ IF Ext \in {"register", "request"} THEN Reject(Ext, upd.mod)
                                          ELSE UNCHANGED requests
    /\ NextModule(TRUE)
    /\ UNCHANGED <<pin, available, disabled, host, panel, due, reconcile, left, history>>

(* The worker ends where it stands; the lock goes with its descriptor.      *)
Kill ==
    /\ upd.pc # "idle"
    /\ Spend("fault")
    /\ upd' = Idle
    /\ torn' = IF upd.pc \in {"restore", "rollback", "remember"}
               THEN torn \cup {upd.mod} ELSE torn
    /\ disturbed' = IF upd.pc \in {"restore", "rollback"}
                    THEN disturbed \cup {upd.mod} ELSE disturbed
    /\ UNCHANGED <<manifests, host, requests, panel, due, reconcile, raced,
                   dropped>>

-----------------------------------------------------------------------------
(* The reconciler, which takes another lock (module Reconciler has all of   *)
(* it; here it is what it does to the units that the worker handles too).   *)

(* compatible(): the binary answers with the validated version, and so does *)
(* the version file, if there is one.                                       *)
Compatible(m) == link[m] = pin[m] /\ version[m] \in {0, pin[m]}

Removing == IF upd.pc \in {"stop", "tree", "unlist", "files", "mark"}
            THEN {upd.mod} ELSE {}

Plan(S) ==
    /\ rec.pc = "idle" /\ S # applied
    /\ \A m \in S : Compatible(m)
    /\ Spend("apply")
    /\ rec' = [pc |-> "activate", want |-> S, snap |-> unit]
    /\ raced' = (raced \ S) \cup (S \cap Removing)
    /\ UNCHANGED <<manifests, host, requests, panel, due, upd, applied, torn,
                   disturbed, dropped>>

Touched == rec.want \cup applied
Disturb(S) == disturbed' = (disturbed \ S) \cup (S \cap UnderUpdate)

(* enable and restart the wanted cores, disable --now the others.           *)
Activate ==
    /\ rec.pc = "activate"
    /\ \A m \in rec.want : link[m] # 0
    /\ unit' = [m \in Modules |->
                  IF m \in rec.want THEN [enabled |-> TRUE, running |-> link[m]]
                  ELSE IF m \in applied THEN [enabled |-> FALSE, running |-> 0]
                  ELSE unit[m]]
    /\ Disturb(Touched)
    /\ rec' = [rec EXCEPT !.pc = "verify"]
    /\ UNCHANGED <<manifests, link, version, requests, panel, due, upd, applied,
                   left, torn, raced, dropped>>

ActivateFails ==
    /\ rec.pc = "activate"
    /\ IF \E m \in rec.want : link[m] = 0 THEN UNCHANGED left ELSE Spend("fault")
    /\ rec' = [rec EXCEPT !.pc = "undo"]
    /\ UNCHANGED <<manifests, host, requests, panel, due, upd, applied, history>>

Verify ==
    /\ rec.pc = "verify"
    /\ rec' = [rec EXCEPT !.pc =
                 IF \A m \in rec.want : Running(m) THEN "publish" ELSE "undo"]
    /\ UNCHANGED <<manifests, host, requests, panel, due, upd, applied, left, history>>

PublishApplied ==
    /\ rec.pc = "publish"
    /\ applied' = rec.want
    /\ rec' = Quiet
    /\ UNCHANGED <<manifests, host, requests, panel, due, upd, left, history>>

(* rollback_config: the unit returns to what the snapshot saw.              *)
Undo ==
    /\ rec.pc = "undo"
    /\ unit' = [m \in Modules |->
                  IF m \in Touched
                  THEN [enabled |-> rec.snap[m].enabled,
                        running |-> IF rec.snap[m].running # 0 THEN link[m] ELSE 0]
                  ELSE unit[m]]
    /\ Disturb(Touched)
    /\ rec' = Quiet
    /\ UNCHANGED <<manifests, link, version, requests, panel, due, upd, applied,
                   left, torn, raced, dropped>>

-----------------------------------------------------------------------------
Outside ==
    \/ \E m \in Modules : \/ RegisterForm(m) \/ RemoveForm(m) \/ UpdateForm(m)
                          \/ StartForm(m) \/ StopForm(m) \/ RestartForm(m)
                          \/ \E on \in BOOLEAN : AutoForm(m, on)
                          \/ UpdateByHand(m) \/ CheckModule(m)
                          \/ \E ext \in {"start", "stop", "restart"} :
                                ControlByHand(ext, m)
    \/ LoadPage \/ CheckAll \/ NextDay \/ Upgrade \/ Kill

ReconcilerStep ==
    \/ \E S \in SUBSET Modules : Plan(S)
    \/ Activate \/ ActivateFails \/ Verify \/ PublishApplied \/ Undo

ScanItem(m) ==
    \/ RegisterRejected(m) \/ RegisterBegin(m)
    \/ RemoveRejected(m) \/ RemoveBegin(m)
    \/ \E ext \in {"start", "stop", "restart"} :
          ControlRejected(ext, m) \/ Control(ext, m) \/ ControlFails(ext, m)
    \/ RequestUpdate(m) \/ AutoUpdate(m) \/ Skip(m)

WorkerStep ==
    \/ NextPass \/ EndRun
    \/ \E m \in Modules : ScanItem(m)
    \/ RemoveStop \/ RemoveTree \/ RemoveManifest \/ RemoveFiles \/ RemoveMark
    \/ CheckFails \/ AlreadyCurrent \/ DowngradeRefused \/ Download
    \/ Sample \/ Install \/ InstallFails \/ Restore \/ RestoreFails
    \/ Rollback \/ RollbackIncomplete \/ RememberVersion \/ Done \/ Fail

Next == Outside \/ ReconcilerStep \/ StartRun \/ WorkerStep

Spec == Init /\ [][Next]_vars

(* The path unit and the quarter-hourly timer start the worker whenever     *)
(* there is work and it does not run; a run goes on.                        *)
FairSpec == Spec /\ WF_vars(StartRun) /\ WF_vars(WorkerStep)

-----------------------------------------------------------------------------
(* Properties *)

(* Every variable keeps its type.                                           *)
TypeOK ==
    /\ pin \in [Modules -> Versions]
    /\ active \subseteq Modules /\ available \subseteq Modules
    /\ disabled \subseteq Modules
    /\ link \in [Modules -> Installed] /\ version \in [Modules -> Installed]
    /\ unit \in [Modules -> Service]
    /\ requests \subseteq Extensions \X Modules
    /\ policy \subseteq Modules /\ mirror \subseteq Modules
    /\ due \in BOOLEAN /\ upd \in Worker
    /\ applied \subseteq Modules /\ rec \in Reconcile
    /\ left \in [Kinds -> Nat]
    /\ \A set \in {torn, disturbed, raced, dropped} : set \subseteq Modules

(* The removal worker (module-update.sh:518) refuses what applied.json      *)
(* names: the runtime of an applied core stays, unless the removal had      *)
(* begun, or a reconciliation that wants the core was under way then.       *)
NeededRuntimeStays == \A m \in applied : link[m] # 0 \/ m \in raced

(* A unit that is up runs what `current` leads to whenever no update of it  *)
(* is under way: the link and the process change together, or change back   *)
(* together (restore_service_state, rollback_symlink).  Excepted is a unit  *)
(* that the reconciler or the end of the worker reached in the middle.      *)
RunningIsCurrent ==
    \A m \in Modules \ disturbed :
        upd.mod # m /\ Running(m) => unit[m].running = link[m]

(* The version file, which compatible() of the reconciler requires to       *)
(* agree, agrees with the link after every installation that came to its    *)
(* end, the failed ones that were rolled back included.                     *)
MarkerAgrees ==
    \A m \in Modules \ torn :
        upd.mod # m /\ link[m] # 0 => version[m] \in {0, link[m]}

(* An update that is given up leaves the runtime as it was: the link is     *)
(* back, and a service that was up is up with the previous binary, unless   *)
(* the log says that the rollback was incomplete.                           *)
GivesUp == upd.pc # "fail" /\ upd'.pc = "fail" /\ upd'.prev # 0
FailedUpdateIsUndone ==
    [][GivesUp => /\ link'[upd.mod] = upd.prev
                  /\ upd.active /\ upd.mod \notin disturbed' =>
                         unit'[upd.mod].running = upd.prev]_vars

(* A removed module stays out of the registry until it is registered        *)
(* again, through every later upgrade of the panel (install.sh:420).        *)
RemovedStaysOut == dropped \cap active = {}

(* Every request file is consumed, by success or as .failed; an update of a *)
(* module that is no longer registered is the exception, nobody reads it.   *)
RequestsEnd ==
    \A m \in Modules, ext \in Extensions :
        <<ext, m>> \in requests ~>
            \/ <<ext, m>> \notin requests
            \/ ext = "request" /\ m \notin active
=============================================================================
