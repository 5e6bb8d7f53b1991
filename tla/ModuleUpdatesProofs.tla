------------------------- MODULE ModuleUpdatesProofs -------------------------
(* Proofs about ModuleUpdates, for every set of modules, every number of    *)
(* releases and every budget of events.                                     *)
EXTENDS ModuleUpdates, TLAPS

-----------------------------------------------------------------------------
(* The inductive invariant *)

(* Of the worker: it has a module exactly while it works on one, an update  *)
(* resolved its release before it samples the host, and what it sampled is  *)
(* the link it will put back.                                               *)
AtRest    == {"idle", "scan"}
Resolved  == {"sample", "install", "restore", "rollback", "remember"}
Unsampled == {"idle", "scan", "check", "sample"}

WorkerOK ==
    /\ upd.mod = None <=> upd.pc \in AtRest
    /\ upd.pc \in Resolved => upd.tag # 0
    /\ upd.pc \in Unsampled => upd.prev = 0
    /\ upd.pc = "install" => upd.prev = link[upd.mod]

(* Of a removal: once begun, its module is neither applied nor about to be  *)
(* without the race being known.                                            *)
RemovalPCs == {"stop", "tree", "unlist", "files", "mark"}
RemovalOK ==
    /\ upd.pc \in RemovalPCs => upd.mod \notin applied \cup rec.want \/ upd.mod \in raced
    /\ \A m \in applied \cup rec.want : link[m] # 0 \/ m \in raced

(* Of units nobody else changed: the one of the module that is worked on    *)
(* runs what was sampled, or nothing, until the service is restored, and    *)
(* nothing once it is stopped; any other runs what its link leads to.       *)
Swapped == {"restore", "rollback"}
Sampled == IF upd.active THEN upd.prev ELSE 0
UnitOK ==
    \A m \in Modules \ disturbed :
        /\ m = upd.mod /\ upd.pc = "install" => unit[m].running = Sampled
        /\ m = upd.mod /\ upd.pc \in Swapped => unit[m].running \in {0, Sampled}
        /\ m = upd.mod /\ upd.pc = "tree" => unit[m].running = 0
        /\ (m = upd.mod /\ upd.pc \in Swapped) \/ unit[m].running \in {0, link[m]}

(* Of version files, but after an installation that did not reach its end:  *)
(* while the link is ahead, the file is the one of the link before.         *)
MarkerOK ==
    \A m \in Modules \ torn :
        /\ m = upd.mod /\ upd.pc \in Swapped \cup {"remember"} => link[m] = upd.tag
        /\ m = upd.mod /\ upd.pc \in Swapped /\ upd.prev # 0 => version[m] \in {0, upd.prev}
        /\ \/ m = upd.mod /\ upd.pc \in Swapped \cup {"remember"}
           \/ link[m] = 0 \/ version[m] \in {0, link[m]}

(* Of removed modules: a marker keeps each from coming back.                *)
DroppedOK == dropped \subseteq disabled /\ dropped \cap active = {}

IInv == TypeOK /\ WorkerOK /\ RemovalOK /\ UnitOK /\ MarkerOK /\ DroppedOK

-----------------------------------------------------------------------------
(* Data *)

LEMMA IdleIs ==
    /\ Idle \in Worker /\ Idle.pc = "idle" /\ Idle.mod = None
    /\ Idle.prev = 0 /\ Idle.tag = 0 /\ Idle.todo = {} /\ Idle.manual = FALSE
  BY ConstantsAssumption DEF Idle, Worker, PCs, Installed

LEMMA VersionsAre == 0 \in Installed /\ Versions \subseteq Installed /\ 0 \notin Versions
  BY ConstantsAssumption DEF Installed, Versions

LEMMA TodoIs == ASSUME TypeOK, NEW p PROVE TodoOf(p, requests) \in SUBSET Modules
  BY DEF TypeOK, TodoOf

LEMMA QuietIs == Quiet \in Reconcile /\ Quiet.want = {} /\ Quiet.pc = "idle"
<1>1. [m \in Modules |-> [enabled |-> FALSE, running |-> 0]] \in [Modules -> Service]
  BY VersionsAre DEF Service
<1>2. QED
  BY <1>1 DEF Quiet, Reconcile

LEMMA SpendIs == ASSUME TypeOK, NEW kind \in Kinds, Spend(kind) PROVE left' \in [Kinds -> Nat]
  BY DEF TypeOK, Spend

LEMMA RestartIs ==
    ASSUME unit \in [Modules -> Service], upd.mod \in Modules, NEW v \in Installed
    PROVE  /\ Restart(upd.mod, v) \in [Modules -> Service]
           /\ Restart(upd.mod, v)[upd.mod].running = IF upd.active THEN v ELSE unit[upd.mod].running
           /\ \A m \in Modules : m # upd.mod => Restart(upd.mod, v)[m] = unit[m]
  BY DEF Restart, Service

LEMMA ControlledIs ==
    ASSUME TypeOK, NEW ext, NEW m \in Modules
    PROVE  Controlled(ext, m) \in Installed
  BY VersionsAre DEF TypeOK, Controlled, Service

-----------------------------------------------------------------------------
(* Types *)

(* The worker's own record, and what it may rely on.                        *)
LEMMA WorkerStepOK ==
    ASSUME TypeOK, WorkerOK, [Next]_vars
    PROVE  upd' \in Worker /\ WorkerOK'
<1> USE DEF WorkerOK, AtRest, Resolved, Unsampled
<1> DEFINE Goal == upd' \in Worker /\ WorkerOK'
<1>0. upd \in Worker /\ link \in [Modules -> Installed] /\ pin \in [Modules -> Versions]
      /\ unit \in [Modules -> Service] /\ None \notin Modules /\ active \subseteq Modules
  BY ConstantsAssumption DEF TypeOK
<1>1. CASE UNCHANGED <<upd, link>>
  BY <1>0, <1>1
<1>2. ASSUME NEW m \in Modules, UpdateByHand(m) PROVE Goal
  BY <1>0, <1>2, IdleIs DEF UpdateByHand, Worker, PCs, host
<1>3. CASE StartRun
  BY <1>0, <1>3, IdleIs, TodoIs DEF StartRun, Worker, PCs
<1>4. CASE NextPass
  <2> DEFINE todo == TodoOf(Passes[upd.pass + 1], requests)
  <2>1. upd.pass \in 1..7
    BY <1>0 DEF Worker
  <2>2. upd.pass + 1 \in 1..7 /\ todo \in SUBSET Modules
    BY <1>4, <2>1, TodoIs DEF NextPass
  <2>3. upd' = [Idle EXCEPT !.pc = "scan", !.pass = upd.pass + 1, !.todo = todo] /\ UNCHANGED link
    BY <1>4 DEF NextPass, host
  <2> HIDE DEF todo
  <2>4. QED
    BY <1>0, <2>2, <2>3, IdleIs DEF Worker, PCs
<1>5. CASE EndRun
  BY <1>0, <1>5, IdleIs DEF EndRun
<1>6. ASSUME NEW m \in Modules, ScanItem(m) PROVE Goal
  <2>1. CASE upd' = [upd EXCEPT !.todo = @ \ {m}] /\ UNCHANGED link
    BY <1>0, <2>1 DEF Worker
  <2>2. CASE UNCHANGED link /\ upd.pc = "scan" /\ \E pc \in {"check", "stop"} : upd' = [upd EXCEPT !.pc = pc, !.mod = m]
    BY <1>0, <2>2 DEF Worker, PCs
  <2>3. QED
    BY <1>6, <2>1, <2>2 DEF ScanItem, RegisterRejected, RegisterBegin, RemoveRejected, RemoveBegin,
       ControlRejected, Control, ControlFails, RequestUpdate, AutoUpdate, Skip, RejectItem, Work, InPass, host
<1>7. CASE RemoveStop
  BY <1>0, <1>7 DEF RemoveStop, Step, Worker, PCs
<1>8. CASE RemoveTree
  BY <1>0, <1>8 DEF RemoveTree, Step, Worker, PCs
<1>9. CASE RemoveManifest \/ RemoveFiles
  BY <1>0, <1>9 DEF RemoveManifest, RemoveFiles, Step, Worker, PCs, host
<1>10. CASE CheckFails \/ AlreadyCurrent \/ DowngradeRefused
  BY <1>0, <1>10 DEF CheckFails, AlreadyCurrent, DowngradeRefused, Step, Worker, PCs, host
<1>11. CASE Download
  <2>1. Pinned # 0 /\ Pinned \in Installed
    BY <1>0, <1>11, VersionsAre DEF Download, Pinned
  <2>2. QED
    BY <1>0, <1>11, <2>1 DEF Download, Worker, PCs, host
<1>12. CASE Sample
  <2>1. upd.pc = "sample" /\ upd.mod \in Modules /\ link[upd.mod] \in Installed /\ UNCHANGED link
    BY <1>0, <1>12 DEF Sample, Worker, host
  <2>2. unit[upd.mod].enabled \in BOOLEAN /\ Running(upd.mod) \in BOOLEAN
    BY <1>0, <2>1 DEF Running, Service
  <2>3. \/ \E e, a \in BOOLEAN :
               upd' = [upd EXCEPT !.pc = "install", !.enabled = e, !.active = a, !.prev = link[upd.mod]]
        \/ upd' = [upd EXCEPT !.pc = "fail"]
    BY <1>12, <2>2, Zenon DEF Sample
  <2>4. upd' \in Worker
    BY <1>0, <2>1, <2>3 DEF Worker, PCs
  <2>5. WorkerOK'
    BY <1>0, <2>1, <2>3 DEF Worker
  <2>6. QED
    BY <2>4, <2>5
<1>13. CASE Install \/ InstallFails \/ Restore \/ RestoreFails
  BY <1>0, <1>13 DEF Install, InstallFails, Restore, RestoreFails, Step, Worker, PCs, host
<1>14. CASE Rollback \/ RollbackIncomplete \/ RememberVersion
  BY <1>0, <1>14 DEF Rollback, RollbackIncomplete, RememberVersion, Step, Worker, PCs
<1>15. ASSUME NEW bad \in BOOLEAN, NextModule(bad), UNCHANGED link PROVE Goal
  BY <1>0, <1>15, IdleIs DEF NextModule, Worker, PCs
<1>16. CASE RemoveMark \/ Done \/ Fail
  BY <1>15, <1>16 DEF RemoveMark, Done, Fail, host
<1>17. CASE Kill
  BY <1>0, <1>17, IdleIs DEF Kill
<1>18. CASE Outside
  BY <1>1, <1>2, <1>17, <1>18 DEF Outside, RegisterForm, RemoveForm, UpdateForm, StartForm, StopForm,
     RestartForm, ServiceForm, Ask, AutoForm, CheckModule, ControlByHand, LoadPage, CheckAll, NextDay,
     Upgrade, host
<1>19. CASE ReconcilerStep
  BY <1>1, <1>19 DEF ReconcilerStep, Plan, Activate, ActivateFails, Verify, PublishApplied, Undo, host
<1>20. CASE WorkerStep
  BY <1>4, <1>5, <1>6, <1>7, <1>8, <1>9, <1>10, <1>11, <1>12, <1>13, <1>14, <1>16, <1>20 DEF WorkerStep
<1>21. QED
  BY <1>1, <1>3, <1>18, <1>19, <1>20 DEF Next, vars

(* The type of everything but the worker.                                   *)
Sets == {torn, disturbed, raced, dropped}
HostOK ==
    /\ pin \in [Modules -> Versions]
    /\ link \in [Modules -> Installed] /\ version \in [Modules -> Installed]
    /\ unit \in [Modules -> Service]
RestOK ==
    /\ active \subseteq Modules /\ available \subseteq Modules
    /\ disabled \subseteq Modules
    /\ requests \subseteq Extensions \X Modules
    /\ policy \subseteq Modules /\ mirror \subseteq Modules
    /\ due \in BOOLEAN
    /\ applied \subseteq Modules /\ rec \in Reconcile
    /\ left \in [Kinds -> Nat]
    /\ torn \subseteq Modules /\ disturbed \subseteq Modules
    /\ raced \subseteq Modules /\ dropped \subseteq Modules

LEMMA TypeParts == TypeOK <=> HostOK /\ RestOK /\ upd \in Worker
  BY DEF TypeOK, HostOK, RestOK

LEMMA HostStepOK ==
    ASSUME TypeOK, WorkerOK, [Next]_vars
    PROVE  HostOK'
<1>0. HostOK /\ upd \in Worker /\ None \notin Modules /\ rec \in Reconcile
  BY ConstantsAssumption, TypeParts DEF RestOK
<1>1. CASE UNCHANGED <<pin, host>>
  BY <1>0, <1>1 DEF HostOK, host
<1>2. ASSUME NEW m \in Modules, NEW ext, NEW v \in Installed, UNCHANGED <<pin, link, version>>,
             unit' = [unit EXCEPT ![m].running = v]
      PROVE  HostOK'
  BY <1>0, <1>2 DEF HostOK, Service
<1>3. ASSUME NEW m \in Modules, NEW ext, ControlByHand(ext, m) \/ Control(ext, m) \/ ControlFails(ext, m)
      PROVE  HostOK'
  BY <1>1, <1>2, <1>3, ControlledIs, VersionsAre
     DEF ControlByHand, Control, ControlFails, RejectItem, manifests, host
<1>4. CASE Upgrade
  BY <1>0, <1>4 DEF Upgrade, HostOK, host
<1>5. ASSUME NEW m \in Modules, ScanItem(m) PROVE HostOK'
  BY <1>1, <1>3, <1>5 DEF ScanItem, RegisterRejected, RegisterBegin, RemoveRejected, RemoveBegin,
       ControlRejected, RequestUpdate, AutoUpdate, Skip, RejectItem, manifests, host
<1>6. CASE upd.pc \notin AtRest /\ WorkerStep
  <2>1. upd.mod \in Modules
    BY <1>0, <1>6 DEF WorkerOK, AtRest, Worker
  <2>2. CASE RemoveStop
    <3>1. [enabled |-> FALSE, running |-> 0] \in Service
      BY VersionsAre DEF Service
    <3>2. UNCHANGED <<pin, link, version>>
          /\ (UNCHANGED unit \/ unit' = [unit EXCEPT ![upd.mod] = [enabled |-> FALSE, running |-> 0]])
      BY <2>2 DEF RemoveStop, manifests
    <3>3. QED
      BY <1>0, <2>1, <3>1, <3>2 DEF HostOK
  <2>3. CASE RemoveTree \/ Install
    BY <1>0, <2>1, <2>3, VersionsAre DEF RemoveTree, Install, HostOK, Worker, manifests
  <2>4. CASE RemoveFiles \/ RememberVersion
    BY <1>0, <2>1, <2>4, VersionsAre DEF RemoveFiles, RememberVersion, HostOK, Worker, manifests
  <2>5. CASE Restore
    <3>1. DEFINE r == Restart(upd.mod, link[upd.mod])
    <3>2. r \in [Modules -> Service]
      BY <1>0, <2>1, RestartIs DEF HostOK
    <3>3. unit' = [r EXCEPT ![upd.mod].enabled = @ \/ upd.enabled] /\ UNCHANGED <<pin, link, version>>
      BY <2>5 DEF Restore, manifests
    <3> HIDE DEF r
    <3>4. QED
      BY <1>0, <2>1, <3>2, <3>3 DEF HostOK, Service, Worker
  <2>6. CASE RestoreFails
    BY <1>0, <2>1, <2>6, RestartIs, VersionsAre DEF RestoreFails, HostOK, manifests
  <2>7. CASE Rollback
    BY <1>0, <2>1, <2>7, RestartIs DEF Rollback, HostOK, manifests, Worker
  <2>8. CASE RollbackIncomplete
    BY <1>0, <2>1, <2>8, RestartIs, VersionsAre DEF RollbackIncomplete, HostOK, manifests, Worker
  <2>9. QED
    BY <1>1, <1>5, <1>6, <2>2, <2>3, <2>4, <2>5, <2>6, <2>7, <2>8
       DEF WorkerStep, NextPass, EndRun, RemoveManifest, RemoveMark, CheckFails, AlreadyCurrent,
           DowngradeRefused, Download, Sample, InstallFails, Done, Fail, manifests, host
<1>7. CASE upd.pc \in AtRest /\ WorkerStep
  BY <1>1, <1>5, <1>7
     DEF AtRest, WorkerStep, NextPass, EndRun, RemoveStop, RemoveTree, RemoveManifest, RemoveFiles, RemoveMark,
         CheckFails, AlreadyCurrent, DowngradeRefused, Download, Sample, Install, InstallFails, Restore,
         RestoreFails, Rollback, RollbackIncomplete, RememberVersion, Done, Fail, Step, manifests, host
<1>8. CASE Activate
  BY <1>0, <1>8, VersionsAre DEF Activate, HostOK, Service, manifests
<1>9. CASE Undo
  <2>1. rec.snap \in [Modules -> Service]
    BY <1>0 DEF Reconcile
  <2>2. QED
    BY <1>0, <1>9, <2>1, VersionsAre DEF Undo, HostOK, Service, manifests
<1>10. CASE ReconcilerStep
  BY <1>1, <1>8, <1>9, <1>10 DEF ReconcilerStep, Plan, ActivateFails, Verify, PublishApplied, manifests, host
<1>11. CASE Outside
  BY <1>1, <1>3, <1>4, <1>11 DEF Outside, RegisterForm, RemoveForm, UpdateForm, StartForm, StopForm,
     RestartForm, ServiceForm, Ask, AutoForm, CheckModule, UpdateByHand, LoadPage, CheckAll, NextDay, Kill,
     manifests, host
<1>12. QED
  BY <1>1, <1>6, <1>7, <1>10, <1>11 DEF Next, StartRun, vars, manifests, host

LEMMA RestStepOK ==
    ASSUME TypeOK, WorkerOK, [Next]_vars
    PROVE  RestOK'
<1>0. RestOK /\ upd \in Worker /\ unit \in [Modules -> Service]
  BY TypeParts DEF HostOK
<1>1. \A kind \in Kinds : Spend(kind) => left' \in [Kinds -> Nat]
  BY SpendIs
<1>2. upd.pc \notin AtRest => upd.mod \in Modules
  BY <1>0 DEF WorkerOK, AtRest, Worker
<1>3. UnderUpdate \subseteq Modules /\ Removing \subseteq Modules
  BY <1>2 DEF UnderUpdate, Removing, Updating, AtRest
<1>4. \A ext, m : (Take(ext, m) \/ Reject(ext, m)) => requests' \subseteq Extensions \X Modules
  BY <1>0 DEF Take, Reject, RestOK
<1> USE DEF Kinds
<1>5. CASE Outside
  <2>1. ASSUME NEW ext \in Extensions, NEW m \in Modules, Ask(ext, m) PROVE RestOK'
    BY <1>0, <1>1, <2>1 DEF Ask, RestOK, manifests, panel, reconcile, history
  <2>2. ASSUME NEW m \in Modules, NEW on \in BOOLEAN, AutoForm(m, on) PROVE RestOK'
    BY <1>0, <1>1, <2>2 DEF AutoForm, SetAuto, StateFiles, RestOK, manifests, reconcile, history
  <2>3. ASSUME NEW m \in Modules, UpdateByHand(m) \/ CheckModule(m) PROVE RestOK'
    BY <1>0, <1>1, <2>3 DEF UpdateByHand, CheckModule, Refresh, StateFiles, RestOK, manifests, panel, reconcile, history
  <2>4. ASSUME NEW m \in Modules, NEW ext, ControlByHand(ext, m) PROVE RestOK'
    BY <1>0, <1>1, <2>4 DEF ControlByHand, RestOK, manifests, panel, reconcile
  <2>5. CASE LoadPage \/ CheckAll \/ NextDay
    BY <1>0, <2>5 DEF LoadPage, CheckAll, NextDay, Refresh, StateFiles, RestOK, manifests, panel, reconcile, history
  <2>6. CASE Upgrade
    BY <1>0, <1>1, <2>6 DEF Upgrade, RestOK, panel, reconcile, history
  <2>7. CASE Kill
    BY <1>0, <1>1, <1>2, <2>7 DEF Kill, RestOK, AtRest, manifests, panel, reconcile
  <2>8. QED
    BY <1>5, <2>1, <2>2, <2>3, <2>4, <2>5, <2>6, <2>7
       DEF Outside, RegisterForm, RemoveForm, UpdateForm, StartForm, StopForm, RestartForm, ServiceForm, Extensions
<1>6. CASE ReconcilerStep
  <2>1. ASSUME NEW S \in SUBSET Modules, Plan(S) PROVE RestOK'
    BY <1>0, <1>1, <1>3, <2>1 DEF Plan, Reconcile, RestOK, manifests, panel, reconcile
  <2>2. CASE Activate
    BY <1>0, <1>3, <2>2 DEF Activate, Disturb, Reconcile, RestOK, manifests, panel
  <2>3. CASE ActivateFails
    BY <1>0, <1>1, <2>3 DEF ActivateFails, Reconcile, RestOK, manifests, panel, history
  <2>4. CASE Verify
    BY <1>0, <2>4 DEF Verify, Reconcile, RestOK, manifests, panel, history
  <2>5. CASE PublishApplied
    BY <1>0, <2>5, QuietIs DEF PublishApplied, Reconcile, RestOK, manifests, panel, history
  <2>6. CASE Undo
    BY <1>0, <1>3, <2>6, QuietIs DEF Undo, Disturb, RestOK, manifests, panel
  <2>7. QED
    BY <1>6, <2>1, <2>2, <2>3, <2>4, <2>5, <2>6 DEF ReconcilerStep
<1>7. ASSUME NEW m \in Modules, ScanItem(m) PROVE RestOK'
  <2>1. CASE RegisterRejected(m) \/ RemoveRejected(m) \/ RequestUpdate(m) \/ AutoUpdate(m) \/ Skip(m)
    BY <1>0, <1>4, <2>1 DEF RegisterRejected, RemoveRejected, RequestUpdate, AutoUpdate, Skip, RejectItem,
       RestOK, manifests, panel, reconcile, history
  <2>2. CASE RegisterBegin(m) \/ RemoveBegin(m)
    BY <1>0, <2>2 DEF RegisterBegin, RemoveBegin, RestOK, panel, reconcile
  <2>3. ASSUME NEW ext, ControlRejected(ext, m) \/ Control(ext, m) \/ ControlFails(ext, m) PROVE RestOK'
    BY <1>0, <1>1, <1>4, <2>3 DEF ControlRejected, Control, ControlFails, RejectItem, RestOK, manifests,
       panel, reconcile, history
  <2>4. QED
    BY <1>7, <2>1, <2>2, <2>3 DEF ScanItem
<1>8. CASE WorkerStep
  <2>1. CASE NextPass \/ EndRun \/ RemoveTree \/ AlreadyCurrent \/ DowngradeRefused \/ Download
             \/ Install \/ RestoreFails
    BY <1>0, <1>1, <2>1 DEF NextPass, EndRun, RemoveTree, AlreadyCurrent, DowngradeRefused, Download, Install,
       RestoreFails, RestOK, manifests, panel, reconcile, history
  <2>2. CASE RemoveStop \/ RemoveManifest \/ RemoveFiles \/ RemoveMark
    BY <1>0, <1>1, <1>2, <1>4, <2>2 DEF RemoveStop, RemoveManifest, RemoveFiles, RemoveMark, Step, AtRest,
       RestOK, manifests, panel, reconcile, history
  <2>3. CASE CheckFails \/ Sample \/ InstallFails \/ Restore
    BY <1>0, <1>1, <1>2, <2>3 DEF CheckFails, Sample, InstallFails, Restore, Step, AtRest, RestOK, manifests,
       panel, reconcile, history
  <2>4. CASE Rollback \/ RollbackIncomplete \/ RememberVersion
    BY <1>0, <1>2, <2>4 DEF Rollback, RollbackIncomplete, RememberVersion, Step, AtRest, RestOK, manifests,
       panel, reconcile
  <2>5. CASE Done \/ Fail
    BY <1>0, <1>4, <2>5 DEF Done, Fail, RestOK, manifests, panel, reconcile, history
  <2>6. QED
    BY <1>7, <1>8, <2>1, <2>2, <2>3, <2>4, <2>5 DEF WorkerStep
<1>9. CASE StartRun \/ UNCHANGED vars
  BY <1>0, <1>9 DEF StartRun, RestOK, vars, manifests, panel, reconcile, history
<1>10. QED
  BY <1>5, <1>6, <1>8, <1>9 DEF Next

LEMMA TypeStepOK ==
    ASSUME TypeOK, WorkerOK, [Next]_vars
    PROVE  TypeOK' /\ WorkerOK'
<1>1. HostOK' /\ RestOK' /\ upd' \in Worker /\ WorkerOK'
  BY HostStepOK, RestStepOK, WorkerStepOK
<1>2. QED
  BY <1>1 DEF TypeOK, HostOK, RestOK

-----------------------------------------------------------------------------
(* Removals *)

(* What a record of the worker looks like after the steps that only move it *)
(* on, or that end the work on a module.                                    *)
LEMMA Moved ==
    ASSUME upd \in Worker, NEW pc \in PCs, upd' = [upd EXCEPT !.pc = pc]
    PROVE  /\ upd'.pc = pc /\ upd'.mod = upd.mod /\ upd'.prev = upd.prev /\ upd'.tag = upd.tag
           /\ upd'.active = upd.active /\ upd'.manual = upd.manual
  BY DEF Worker

LEMMA Ended ==
    ASSUME upd \in Worker, NEW bad \in BOOLEAN, NextModule(bad)
    PROVE  upd'.pc \in AtRest /\ upd'.mod = None
  BY IdleIs DEF NextModule, AtRest, Worker

LEMMA RemovalStepOK ==
    ASSUME TypeOK, WorkerOK, RemovalOK, [Next]_vars
    PROVE  RemovalOK'
<1> DEFINE Other == upd'.pc \in RemovalPCs => upd.pc \in RemovalPCs /\ upd'.mod = upd.mod
           Same == UNCHANGED <<applied, rec, raced>>
<1>0. /\ upd \in Worker /\ link \in [Modules -> Installed] /\ rec \in Reconcile
      /\ applied \subseteq Modules /\ raced \subseteq Modules /\ pin \in [Modules -> Versions]
      /\ upd.pc \notin AtRest => upd.mod \in Modules
  BY DEF TypeOK, WorkerOK, AtRest, Worker
<1> USE DEF RemovalPCs
<1>1. CASE Other /\ Same /\ UNCHANGED link
  BY <1>1 DEF RemovalOK
<1>2. ASSUME NEW m \in Modules, ScanItem(m) PROVE RemovalOK'
  <2>1. CASE RemoveBegin(m)
    BY <1>0, <2>1 DEF RemoveBegin, Work, RemovalOK, InPass, host, reconcile, Worker, PCs
  <2>2. CASE upd' = [upd EXCEPT !.todo = @ \ {m}] /\ Same /\ UNCHANGED link
    BY <1>0, <1>1, <2>2 DEF Worker
  <2>3. CASE upd' = [upd EXCEPT !.pc = "check", !.mod = m] /\ Same /\ UNCHANGED link
    BY <1>0, <1>1, <2>3 DEF Worker, PCs
  <2>4. QED
    BY <1>2, <2>1, <2>2, <2>3 DEF ScanItem, RegisterRejected, RegisterBegin, RemoveRejected, ControlRejected,
       Control, ControlFails, RequestUpdate, AutoUpdate, Skip, RejectItem, Work, host, reconcile, history
<1>3. CASE RemoveStop \/ RemoveManifest \/ RemoveFiles
  <2>1. Other
    BY <1>0, <1>3, Moved DEF RemoveStop, RemoveManifest, RemoveFiles, Step, PCs
  <2>2. QED
    BY <1>1, <1>3, <2>1 DEF RemoveStop, RemoveManifest, RemoveFiles, host, reconcile, history
<1>4. CASE RemoveTree
  <2>1. upd.pc = "tree" /\ Other /\ Same /\ link' = [link EXCEPT ![upd.mod] = 0]
    BY <1>0, <1>4, Moved DEF RemoveTree, Step, PCs, reconcile
  <2>2. QED
    BY <1>0, <2>1 DEF RemovalOK, AtRest
<1>5. CASE Install \/ Rollback \/ RollbackIncomplete
  <2>1. upd.mod \in Modules /\ upd'.pc \notin RemovalPCs /\ Same
    BY <1>0, <1>5, Moved DEF Install, Rollback, RollbackIncomplete, Step, AtRest, PCs, reconcile, history
  <2>2. UNCHANGED link \/ \E v \in Installed \ {0} : link' = [link EXCEPT ![upd.mod] = v]
    BY <1>0, <1>5 DEF Install, Rollback, RollbackIncomplete, Step, WorkerOK, Resolved, Worker
  <2>3. \A m \in Modules : link[m] # 0 => link'[m] # 0
    BY <1>0, <2>1, <2>2
  <2>4. QED
    BY <1>0, <2>1, <2>3 DEF RemovalOK, Reconcile
<1>6. CASE CheckFails \/ AlreadyCurrent \/ DowngradeRefused \/ Restore \/ RestoreFails \/ RememberVersion
  <2>1. Other
    BY <1>0, <1>6, Moved DEF CheckFails, AlreadyCurrent, DowngradeRefused, Restore, RestoreFails,
       RememberVersion, Step, PCs
  <2>2. QED
    BY <1>1, <1>6, <2>1 DEF CheckFails, AlreadyCurrent, DowngradeRefused, Restore, RestoreFails,
       RememberVersion, host, reconcile, history
<1>7. CASE Download \/ Sample \/ InstallFails
  BY <1>0, <1>1, <1>7 DEF Download, Sample, InstallFails, Worker, PCs, host, reconcile, history
<1>8. CASE RemoveMark \/ Done \/ Fail
  <2>1. Other
    BY <1>0, <1>8, Ended DEF RemoveMark, Done, Fail, AtRest
  <2>2. QED
    BY <1>1, <1>8, <2>1 DEF RemoveMark, Done, Fail, host, reconcile, history
<1>9. CASE NextPass \/ EndRun \/ StartRun \/ Kill
  BY <1>0, <1>1, <1>9, IdleIs DEF NextPass, EndRun, StartRun, Kill, Worker, PCs, host, reconcile, history
<1>10. ASSUME NEW m \in Modules, UpdateByHand(m) PROVE RemovalOK'
  BY <1>0, <1>1, <1>10, IdleIs DEF UpdateByHand, Worker, PCs, host, reconcile, history
<1>11. ASSUME NEW S \in SUBSET Modules, Plan(S) PROVE RemovalOK'
  <2>1. rec'.want = S /\ UNCHANGED <<applied, upd, link>> /\ raced' = (raced \ S) \cup (S \cap Removing)
    BY <1>11 DEF Plan, host
  <2>2. \A m \in S : link[m] # 0
    BY <1>0, <1>11, VersionsAre DEF Plan, Compatible
  <2>3. QED
    BY <1>0, <2>1, <2>2 DEF RemovalOK, Removing
<1>12. CASE Activate \/ ActivateFails \/ Verify
  <2>1. rec'.want = rec.want /\ UNCHANGED <<applied, upd, link, raced>>
    BY <1>0, <1>12 DEF Activate, ActivateFails, Verify, Reconcile, host, history
  <2>2. QED
    BY <2>1 DEF RemovalOK
<1>13. CASE PublishApplied
  BY <1>0, <1>13, QuietIs DEF PublishApplied, RemovalOK, host, history
<1>14. CASE Undo
  BY <1>0, <1>14, QuietIs DEF Undo, RemovalOK
<1>15. CASE ReconcilerStep
  BY <1>11, <1>12, <1>13, <1>14, <1>15 DEF ReconcilerStep
<1>16. CASE Outside
  BY <1>1, <1>9, <1>10, <1>16 DEF Outside, RegisterForm, RemoveForm, UpdateForm, StartForm, StopForm,
     RestartForm, ServiceForm, Ask, AutoForm, CheckModule, ControlByHand, LoadPage, CheckAll, NextDay,
     Upgrade, host, reconcile, history
<1>17. CASE WorkerStep
  BY <1>2, <1>3, <1>4, <1>5, <1>6, <1>7, <1>8, <1>9, <1>17 DEF WorkerStep
<1>18. QED
  BY <1>1, <1>9, <1>15, <1>16, <1>17 DEF Next, vars, host, reconcile, history

-----------------------------------------------------------------------------
(* Units *)

(* The states of the worker in which its module's unit is not what the link *)
(* says, or is known more exactly.                                          *)
Midway == {"install", "restore", "rollback", "tree"}

(* A step that leaves units and links alone and neither begins nor ends     *)
(* such a state.                                                            *)
LEMMA UnitsRest ==
    ASSUME UnitOK, UNCHANGED <<unit, link>>, disturbed \subseteq disturbed',
           upd' = upd \/ (upd'.pc \notin Midway /\ upd.pc \notin Swapped)
    PROVE  UnitOK'
  BY DEF UnitOK, Midway, Swapped, Sampled

(* Others set units to what the links say, to nothing or back, and what     *)
(* they reach in an update counts as disturbed.                             *)
LEMMA UnitsByOthers ==
    ASSUME TypeOK, UnitOK, UNCHANGED <<upd, link>>, NEW S \in SUBSET Modules,
           \A m \in Modules \ S : unit'[m].running = unit[m].running /\ (m \in disturbed => m \in disturbed'),
           \A m \in S : m \in disturbed' \/ (m \notin UnderUpdate /\ unit'[m].running \in {0, link[m]})
    PROVE  UnitOK'
  BY DEF UnitOK, UnderUpdate, Updating, Swapped, Sampled

LEMMA UnitStepOK ==
    ASSUME TypeOK, WorkerOK, UnitOK, [Next]_vars
    PROVE  UnitOK'
<1>0. /\ upd \in Worker /\ link \in [Modules -> Installed] /\ rec \in Reconcile
      /\ unit \in [Modules -> Service] /\ disturbed \subseteq Modules /\ applied \subseteq Modules
      /\ upd.pc \notin AtRest => upd.mod \in Modules
  BY DEF TypeOK, WorkerOK, AtRest, Worker
<1>1. CASE UNCHANGED <<unit, link, disturbed, upd>>
  BY <1>1, UnitsRest
<1>2. ASSUME UNCHANGED <<unit, link, disturbed>>, upd'.pc \notin Midway, upd.pc \notin Swapped
      PROVE  UnitOK'
  BY ONLY <1>0, <1>2, UnitOK, UnitsRest
<1>3. ASSUME NEW m \in Modules, NEW ext, ControlByHand(ext, m) PROVE UnitOK'
  <2>1. /\ unit' = [unit EXCEPT ![m].running = Controlled(ext, m)] /\ UNCHANGED <<upd, link>>
        /\ disturbed' = IF m \in UnderUpdate THEN disturbed \cup {m}
                        ELSE IF unit'[m].running \in {0, link[m]} THEN disturbed \ {m} ELSE disturbed
    BY <1>3 DEF ControlByHand
  <2>2. unit'[m].running = Controlled(ext, m) /\ \A o \in Modules \ {m} : unit'[o] = unit[o]
    BY <1>0, <2>1 DEF Service
  <2>3. Controlled(ext, m) \in {0, link[m], unit[m].running}
    BY DEF Controlled
  <2>4. CASE m \in UnderUpdate \/ unit'[m].running \in {0, link[m]}
    <3>1. \A o \in Modules \ {m} : unit'[o].running = unit[o].running /\ (o \in disturbed => o \in disturbed')
      BY <2>1, <2>2
    <3>2. m \in disturbed' \/ (m \notin UnderUpdate /\ unit'[m].running \in {0, link[m]})
      BY <2>1, <2>4
    <3>3. {m} \in SUBSET Modules
      OBVIOUS
    <3>4. QED
      BY <2>1, <3>1, <3>2, <3>3, UnitsByOthers
  <2>5. CASE m \notin UnderUpdate /\ unit'[m].running \notin {0, link[m]}
    <3>1. unit'[m].running = unit[m].running /\ disturbed' = disturbed
      BY <2>1, <2>2, <2>3, <2>5
    <3>2. QED
      BY <2>1, <2>2, <3>1 DEF UnitOK, Sampled
  <2>6. QED
    BY <2>4, <2>5
<1>4. ASSUME NEW m \in Modules, ScanItem(m) PROVE UnitOK'
  <2>0. upd.pc = "scan" /\ upd.mod = None /\ upd.mod # m
    BY <1>0, <1>4, ConstantsAssumption DEF ScanItem, RegisterRejected, RegisterBegin, RemoveRejected, RemoveBegin,
       ControlRejected, Control, ControlFails, RequestUpdate, AutoUpdate, Skip, InPass, WorkerOK, AtRest
  <2>1. CASE UNCHANGED <<unit, link, disturbed>> /\ upd'.pc \notin Midway
    BY <1>2, <2>0, <2>1 DEF Swapped
  <2>2. CASE upd' = [upd EXCEPT !.todo = @ \ {m}]
    <3>1. upd'.pc = "scan" /\ upd'.mod = None
      BY <1>0, <2>0, <2>2 DEF Worker
    <3>2. CASE UNCHANGED <<unit, link, disturbed>>
      BY <2>1, <3>1, <3>2 DEF Midway
    <3>3. ASSUME NEW ext, Control(ext, m) PROVE UnitOK'
      <4>1. unit' = [unit EXCEPT ![m].running = Controlled(ext, m)] /\ UNCHANGED link
            /\ disturbed' = IF unit'[m].running \in {0, link[m]} THEN disturbed \ {m} ELSE disturbed
        BY <3>3 DEF Control
      <4>2. unit'[m].running = Controlled(ext, m) /\ \A o \in Modules \ {m} : unit'[o] = unit[o]
        BY <1>0, <4>1 DEF Service
      <4>3. Controlled(ext, m) \in {0, link[m], unit[m].running}
        BY DEF Controlled
      <4>4. QED
        BY <2>0, <3>1, <4>1, <4>2, <4>3 DEF UnitOK, Swapped
    <3>4. ASSUME NEW ext, ControlFails(ext, m) PROVE UnitOK'
      <4>1. UNCHANGED <<link, disturbed>> /\ (UNCHANGED unit \/ unit' = [unit EXCEPT ![m].running = 0])
        BY <3>4 DEF ControlFails, history
      <4>2. \A o \in Modules : unit'[o].running \in {0, unit[o].running}
        BY <1>0, <4>1 DEF Service
      <4>3. QED
        BY <2>0, <3>1, <4>1, <4>2 DEF UnitOK, Swapped
    <3>5. QED
      BY <1>4, <2>2, <3>2, <3>3, <3>4 DEF ScanItem, RegisterRejected, RegisterBegin, RemoveRejected, RemoveBegin,
         ControlRejected, RequestUpdate, AutoUpdate, Skip, RejectItem, host, history
  <2>3. CASE \E pc \in {"check", "stop"} : upd' = [upd EXCEPT !.pc = pc, !.mod = m] /\ UNCHANGED <<unit, link, disturbed>>
    BY <1>0, <2>1, <2>3 DEF Worker, PCs, Midway
  <2>4. QED
    BY <1>4, <2>1, <2>2, <2>3 DEF ScanItem, RegisterRejected, RegisterBegin, RemoveRejected, RemoveBegin,
       ControlRejected, Control, ControlFails, RequestUpdate, AutoUpdate, Skip, RejectItem, Work, host, history
<1>5. CASE RemoveStop
  <2>1. upd'.mod = upd.mod /\ upd'.pc = "tree" /\ UNCHANGED link
    BY <1>0, <1>5, Moved DEF RemoveStop, Step, PCs
  <2>2. upd.pc = "stop" /\ upd.mod \in Modules
    BY <1>0, <1>5 DEF RemoveStop, Step, AtRest
  <2>3. CASE unit' = [unit EXCEPT ![upd.mod] = [enabled |-> FALSE, running |-> 0]] /\ UNCHANGED disturbed
    <3>1. unit'[upd.mod].running = 0 /\ \A m \in Modules \ {upd.mod} : unit'[m] = unit[m]
      BY <1>0, <2>2, <2>3
    <3>2. QED
      BY <2>1, <2>2, <2>3, <3>1 DEF UnitOK, Swapped
  <2>4. CASE disturbed' = disturbed \cup {upd.mod} /\ UNCHANGED unit
    BY <2>1, <2>2, <2>4 DEF UnitOK, Swapped
  <2>5. QED
    BY <1>5, <2>3, <2>4 DEF RemoveStop
<1>6. CASE RemoveTree
  <2>1. upd'.mod = upd.mod /\ upd'.pc = "unlist" /\ upd.pc = "tree" /\ UNCHANGED <<unit, disturbed>>
        /\ link' = [link EXCEPT ![upd.mod] = 0] /\ upd.mod \in Modules
    BY <1>0, <1>6, Moved DEF RemoveTree, Step, PCs, AtRest
  <2>2. QED
    BY <1>0, <2>1 DEF UnitOK, Swapped
<1>7. CASE Sample
  <2>1. UNCHANGED <<unit, link, disturbed>> /\ upd.pc = "sample" /\ upd.mod \in Modules
    BY <1>0, <1>7 DEF Sample, host, history, AtRest
  <2>2. CASE upd'.pc = "fail"
    BY <1>2, <2>1, <2>2 DEF Midway, Swapped
  <2>3. CASE upd' = [upd EXCEPT !.pc = "install", !.enabled = unit[upd.mod].enabled,
                                !.active = Running(upd.mod), !.prev = link[upd.mod]]
    <3>1. upd'.pc = "install" /\ upd'.mod = upd.mod /\ upd'.active = Running(upd.mod) /\ upd'.prev = link[upd.mod]
      BY <1>0, <2>3 DEF Worker
    <3>2. QED
      BY <2>1, <3>1 DEF UnitOK, Swapped, Sampled, Running
  <2>4. QED
    BY <1>0, <1>7, <2>2, <2>3, Moved DEF Sample, PCs
<1>8. CASE Install
  <2>1. /\ upd.pc = "install" /\ upd'.pc = "restore" /\ upd'.mod = upd.mod /\ upd'.prev = upd.prev
        /\ upd'.active = upd.active /\ UNCHANGED <<unit, disturbed>>
        /\ link' = [link EXCEPT ![upd.mod] = upd.tag] /\ upd.mod \in Modules
    BY <1>0, <1>8, Moved DEF Install, Step, PCs, AtRest, history
  <2>2. QED
    BY <1>0, <2>1 DEF UnitOK, Swapped, Sampled
<1>9. CASE InstallFails
  <2>1. /\ upd.pc = "install" /\ upd'.mod = upd.mod /\ upd'.prev = upd.prev /\ upd'.active = upd.active
        /\ upd'.pc \in {"fail", "restore"} /\ UNCHANGED <<unit, link, disturbed>>
    BY <1>0, <1>9, Moved DEF InstallFails, PCs, host
  <2>2. QED
    BY <2>1 DEF UnitOK, Swapped, Sampled
<1>10. CASE Restore
  <2>1. /\ upd.pc = "restore" /\ upd'.pc = "remember" /\ upd'.mod = upd.mod /\ upd.mod \in Modules
        /\ UNCHANGED link /\ disturbed' = IF upd.active THEN disturbed \ {upd.mod} ELSE disturbed
    BY <1>0, <1>10, Moved DEF Restore, Step, PCs, AtRest
  <2>2. /\ unit'[upd.mod].running = IF upd.active THEN link[upd.mod] ELSE unit[upd.mod].running
        /\ \A m \in Modules \ {upd.mod} : unit'[m] = unit[m]
    <3> DEFINE r == Restart(upd.mod, link[upd.mod])
    <3>1. /\ r \in [Modules -> Service] /\ \A m \in Modules \ {upd.mod} : r[m] = unit[m]
          /\ r[upd.mod].running = IF upd.active THEN link[upd.mod] ELSE unit[upd.mod].running
      BY <1>0, <2>1, RestartIs
    <3>2. unit' = [r EXCEPT ![upd.mod].enabled = @ \/ upd.enabled]
      BY <1>10 DEF Restore
    <3> HIDE DEF r
    <3>3. QED
      BY <2>1, <3>1, <3>2 DEF Service
  <2>3. QED
    BY <2>1, <2>2 DEF UnitOK, Swapped, Sampled
<1>11. CASE RestoreFails
  <2>1. /\ upd.pc = "restore" /\ upd'.pc = "rollback" /\ upd'.mod = upd.mod /\ upd.mod \in Modules
        /\ upd'.prev = upd.prev /\ upd'.active = upd.active /\ UNCHANGED <<link, disturbed>>
        /\ unit' \in {unit, Restart(upd.mod, 0)}
    BY <1>0, <1>11, Moved DEF RestoreFails, Step, PCs, AtRest, history
  <2>2. \A m \in Modules : unit'[m].running \in {0, unit[m].running} /\ (m # upd.mod => unit'[m] = unit[m])
    BY <1>0, <2>1, RestartIs, VersionsAre
  <2>3. QED
    BY <2>1, <2>2 DEF UnitOK, Swapped, Sampled
<1>12. CASE Rollback
  <2>1. /\ upd.pc = "rollback" /\ upd'.pc = "fail" /\ upd'.mod = upd.mod /\ upd.mod \in Modules
        /\ upd.prev \in Installed /\ link' = [link EXCEPT ![upd.mod] = upd.prev]
        /\ disturbed' = IF upd.active THEN disturbed \ {upd.mod} ELSE disturbed
        /\ unit' = Restart(upd.mod, upd.prev)
    BY <1>0, <1>12, Moved DEF Rollback, Step, PCs, AtRest, Worker
  <2>2. /\ unit'[upd.mod].running = IF upd.active THEN upd.prev ELSE unit[upd.mod].running
        /\ \A m \in Modules \ {upd.mod} : unit'[m] = unit[m]
    BY <1>0, <2>1, RestartIs
  <2>3. QED
    BY <1>0, <2>1, <2>2 DEF UnitOK, Swapped, Sampled
<1>13. CASE RollbackIncomplete
  <2>1. /\ upd.pc = "rollback" /\ upd'.pc = "incomplete" /\ upd'.mod = upd.mod /\ upd.mod \in Modules
        /\ UNCHANGED disturbed
    BY <1>0, <1>13, Moved DEF RollbackIncomplete, Step, PCs, AtRest
  <2>2. CASE upd.prev = 0 /\ UNCHANGED <<link, unit>>
    BY <2>1, <2>2 DEF UnitOK, Swapped, Sampled
  <2>3. CASE upd.active /\ link' = [link EXCEPT ![upd.mod] = upd.prev] /\ unit' = Restart(upd.mod, 0)
    <3>1. unit'[upd.mod].running = 0 /\ \A m \in Modules \ {upd.mod} : unit'[m] = unit[m]
      BY <1>0, <2>1, <2>3, RestartIs, VersionsAre
    <3>2. QED
      BY <1>0, <2>1, <2>3, <3>1 DEF UnitOK, Swapped
  <2>4. QED
    BY <1>13, <2>2, <2>3 DEF RollbackIncomplete
<1>14. CASE Kill
  <2>1. /\ upd'.pc = "idle" /\ upd'.mod = None /\ UNCHANGED <<unit, link>>
        /\ disturbed' = IF upd.pc \in Swapped THEN disturbed \cup {upd.mod} ELSE disturbed
    BY <1>14, IdleIs DEF Kill, Swapped, host
  <2>2. QED
    BY <2>1 DEF UnitOK, Swapped
<1>15. CASE CheckFails \/ AlreadyCurrent \/ DowngradeRefused \/ RememberVersion \/ RemoveManifest \/ RemoveFiles
  <2>1. UNCHANGED <<unit, link, disturbed>> /\ upd'.pc \notin Midway /\ upd.pc \notin Swapped
    BY <1>0, <1>15, Moved DEF CheckFails, AlreadyCurrent, DowngradeRefused, RememberVersion, RemoveManifest,
       RemoveFiles, Step, PCs, Midway, Swapped, host, history
  <2>2. QED
    BY <1>2, <2>1
<1>16. CASE RemoveMark \/ Done \/ Fail
  <2>1. UNCHANGED <<unit, link, disturbed>> /\ upd'.pc \notin Midway /\ upd.pc \notin Swapped
    BY <1>0, <1>16, Ended DEF RemoveMark, Done, Fail, AtRest, Midway, Swapped, host, history
  <2>2. QED
    BY <1>2, <2>1
<1>17. CASE NextPass \/ EndRun \/ StartRun \/ Download
  <2>1. UNCHANGED <<unit, link, disturbed>> /\ upd'.pc \notin Midway /\ upd.pc \notin Swapped
    BY <1>0, <1>17, IdleIs DEF NextPass, EndRun, StartRun, Download, Worker, PCs, Midway, Swapped, host, history
  <2>2. QED
    BY <1>2, <2>1
<1>18. ASSUME NEW m \in Modules, UpdateByHand(m) PROVE UnitOK'
  BY <1>0, <1>2, <1>18, IdleIs DEF UpdateByHand, Worker, PCs, Midway, Swapped, host, history
<1>19. CASE Activate
  <2>1. \A m \in Touched \cap Modules : unit'[m].running \in {0, link[m]}
    BY <1>19 DEF Activate, Touched
  <2>2. \A m \in Modules \ Touched : unit'[m] = unit[m]
    BY <1>19 DEF Activate, Touched
  <2>3. UNCHANGED <<upd, link>> /\ disturbed' = (disturbed \ Touched) \cup (Touched \cap UnderUpdate)
    BY <1>19 DEF Activate, Disturb
  <2>4. QED
    BY <2>1, <2>2, <2>3 DEF UnitOK, UnderUpdate, Updating, Swapped, Sampled
<1>20. CASE Undo
  <2>1. \A m \in Touched \cap Modules : unit'[m].running \in {0, link[m]}
    BY <1>20 DEF Undo
  <2>2. \A m \in Modules \ Touched : unit'[m] = unit[m]
    BY <1>20 DEF Undo
  <2>3. UNCHANGED <<upd, link>> /\ disturbed' = (disturbed \ Touched) \cup (Touched \cap UnderUpdate)
    BY <1>20 DEF Undo, Disturb
  <2>4. QED
    BY <2>1, <2>2, <2>3 DEF UnitOK, UnderUpdate, Updating, Swapped, Sampled
<1>21. CASE ReconcilerStep
  BY <1>1, <1>19, <1>20, <1>21 DEF ReconcilerStep, Plan, ActivateFails, Verify, PublishApplied, host, history
<1>22. CASE Outside
  BY <1>1, <1>3, <1>14, <1>18, <1>22 DEF Outside, RegisterForm, RemoveForm, UpdateForm, StartForm, StopForm,
     RestartForm, ServiceForm, Ask, AutoForm, CheckModule, LoadPage, CheckAll, NextDay, Upgrade, host, history
<1>23. CASE WorkerStep
  BY <1>4, <1>5, <1>6, <1>7, <1>8, <1>9, <1>10, <1>11, <1>12, <1>13, <1>15, <1>16, <1>17, <1>23 DEF WorkerStep
<1>24. QED
  BY <1>1, <1>17, <1>21, <1>22, <1>23 DEF Next, vars, host, history

-----------------------------------------------------------------------------
(* Version files *)

Ahead == Swapped \cup {"remember"}

(* A step that leaves links and version files alone and neither begins nor  *)
(* ends a state in which the link is ahead.                                 *)
LEMMA MarkersRest ==
    ASSUME MarkerOK, UNCHANGED <<link, version>>, torn \subseteq torn',
           upd' = upd \/ (upd'.pc \notin Ahead /\ upd.pc \notin Ahead)
    PROVE  MarkerOK'
  BY DEF MarkerOK, Ahead, Swapped

LEMMA MarkerStepOK ==
    ASSUME TypeOK, WorkerOK, MarkerOK, [Next]_vars
    PROVE  MarkerOK'
<1>0. /\ upd \in Worker /\ link \in [Modules -> Installed] /\ version \in [Modules -> Installed]
      /\ upd.pc \notin AtRest => upd.mod \in Modules
  BY DEF TypeOK, WorkerOK, AtRest, Worker
<1>1. CASE UNCHANGED <<link, version, torn, upd>>
  BY <1>1, MarkersRest
<1>2. ASSUME UNCHANGED <<link, version, torn>>, upd'.pc \notin Ahead, upd.pc \notin Ahead
      PROVE  MarkerOK'
  BY ONLY <1>2, MarkerOK, MarkersRest
<1>3. ASSUME NEW m \in Modules, ScanItem(m) PROVE MarkerOK'
  <2>1. CASE upd' = [upd EXCEPT !.todo = @ \ {m}]
    BY <1>0, <1>2, <1>3, <2>1 DEF ScanItem, RegisterRejected, RegisterBegin, RemoveRejected, RemoveBegin,
       ControlRejected, Control, ControlFails, RequestUpdate, AutoUpdate, Skip, RejectItem, InPass,
       Ahead, Swapped, Worker, host, history
  <2>2. CASE \E pc \in {"check", "stop"} : upd' = [upd EXCEPT !.pc = pc, !.mod = m]
    BY <1>0, <1>2, <1>3, <2>2 DEF ScanItem, RegisterRejected, RegisterBegin, RemoveRejected, RemoveBegin,
       ControlRejected, Control, ControlFails, RequestUpdate, AutoUpdate, Skip, RejectItem, InPass,
       Ahead, Swapped, Worker, PCs, host, history
  <2>3. QED
    BY <1>3, <2>1, <2>2 DEF ScanItem, RegisterRejected, RegisterBegin, RemoveRejected, RemoveBegin,
       ControlRejected, Control, ControlFails, RequestUpdate, AutoUpdate, Skip, RejectItem, Work
<1>4. CASE RemoveTree
  <2>1. /\ upd.pc = "tree" /\ upd'.pc = "unlist" /\ upd.mod \in Modules
        /\ link' = [link EXCEPT ![upd.mod] = 0] /\ UNCHANGED <<version, torn>>
    BY <1>0, <1>4, Moved DEF RemoveTree, Step, PCs, AtRest
  <2>2. QED
    BY <1>0, <2>1 DEF MarkerOK, Ahead, Swapped
<1>5. CASE RemoveFiles
  <2>1. /\ upd.pc = "files" /\ upd'.pc = "mark" /\ upd.mod \in Modules
        /\ version' = [version EXCEPT ![upd.mod] = 0] /\ UNCHANGED <<link, torn>>
    BY <1>0, <1>5, Moved DEF RemoveFiles, Step, PCs, AtRest, history
  <2>2. QED
    BY <1>0, <2>1 DEF MarkerOK, Ahead, Swapped
<1>6. CASE Install
  <2>1. /\ upd.pc = "install" /\ upd'.pc = "restore" /\ upd'.mod = upd.mod /\ upd'.prev = upd.prev
        /\ upd'.tag = upd.tag /\ upd.mod \in Modules /\ UNCHANGED <<version, torn>>
        /\ link' = [link EXCEPT ![upd.mod] = upd.tag] /\ upd.prev = link[upd.mod]
    BY <1>0, <1>6, Moved DEF Install, Step, PCs, AtRest, WorkerOK, history
  <2>2. QED
    BY <1>0, <2>1 DEF MarkerOK, Ahead, Swapped
<1>7. CASE InstallFails
  <2>1. CASE upd'.pc = "fail" /\ UNCHANGED torn
    BY <1>2, <1>7, <2>1 DEF InstallFails, Ahead, Swapped, host
  <2>2. CASE torn' = torn \cup {upd.mod}
    <3>1. upd.pc = "install" /\ upd'.mod = upd.mod /\ UNCHANGED <<link, version>>
      BY <1>0, <1>7, Moved DEF InstallFails, PCs, host
    <3>2. QED
      BY <2>2, <3>1 DEF MarkerOK, Ahead, Swapped
  <2>3. QED
    BY <1>0, <1>7, <2>1, <2>2, Moved DEF InstallFails, PCs
<1>8. CASE Restore \/ RestoreFails
  <2>1. /\ upd.pc = "restore" /\ upd'.pc \in {"remember", "rollback"} /\ upd'.mod = upd.mod
        /\ upd'.tag = upd.tag /\ upd'.prev = upd.prev /\ UNCHANGED <<link, version, torn>>
    BY <1>0, <1>8, Moved DEF Restore, RestoreFails, Step, PCs, history
  <2>2. QED
    BY <2>1 DEF MarkerOK, Ahead, Swapped
<1>9. CASE Rollback \/ RollbackIncomplete
  <2>1. /\ upd.pc = "rollback" /\ upd'.pc \in {"fail", "incomplete"} /\ upd'.mod = upd.mod
        /\ upd.mod \in Modules /\ UNCHANGED version
    BY <1>0, <1>9, Moved DEF Rollback, RollbackIncomplete, Step, PCs, AtRest
  <2>2. CASE upd.prev # 0 /\ link' = [link EXCEPT ![upd.mod] = upd.prev] /\ UNCHANGED torn
    BY <1>0, <2>1, <2>2 DEF MarkerOK, Ahead, Swapped
  <2>3. CASE torn' = torn \cup {upd.mod} /\ UNCHANGED link
    BY <2>1, <2>3 DEF MarkerOK, Ahead, Swapped
  <2>4. QED
    BY <1>9, <2>2, <2>3 DEF Rollback, RollbackIncomplete
<1>10. CASE RememberVersion
  <2>1. /\ upd.pc = "remember" /\ upd'.pc = "done" /\ upd'.mod = upd.mod /\ upd.mod \in Modules
        /\ version' = [version EXCEPT ![upd.mod] = upd.tag] /\ UNCHANGED link
        /\ torn' = IF link[upd.mod] = upd.tag THEN torn \ {upd.mod} ELSE torn
    BY <1>0, <1>10, Moved DEF RememberVersion, Step, PCs, AtRest
  <2>2. QED
    BY <1>0, <2>1 DEF MarkerOK, Ahead, Swapped
<1>11. CASE Kill
  <2>1. /\ upd'.pc = "idle" /\ UNCHANGED <<link, version>>
        /\ torn' = IF upd.pc \in Ahead THEN torn \cup {upd.mod} ELSE torn
    BY <1>11, IdleIs DEF Kill, Ahead, Swapped, host
  <2>2. QED
    BY <2>1 DEF MarkerOK, Ahead, Swapped
<1>12. CASE CheckFails \/ AlreadyCurrent \/ DowngradeRefused \/ RemoveStop \/ RemoveManifest
  <2>1. UNCHANGED <<link, version, torn>> /\ upd'.pc \notin Ahead /\ upd.pc \notin Ahead
    BY <1>0, <1>12, Moved DEF CheckFails, AlreadyCurrent, DowngradeRefused, RemoveStop, RemoveManifest,
       Step, PCs, Ahead, Swapped, host, history
  <2>2. QED
    BY <1>2, <2>1
<1>13. CASE RemoveMark \/ Done \/ Fail
  <2>1. UNCHANGED <<link, version, torn>> /\ upd'.pc \notin Ahead /\ upd.pc \notin Ahead
    BY <1>0, <1>13, Ended DEF RemoveMark, Done, Fail, AtRest, Ahead, Swapped, host, history
  <2>2. QED
    BY <1>2, <2>1
<1>14. CASE NextPass \/ EndRun \/ StartRun \/ Download \/ Sample
  <2>1. UNCHANGED <<link, version, torn>> /\ upd'.pc \notin Ahead /\ upd.pc \notin Ahead
    BY <1>0, <1>14, IdleIs DEF NextPass, EndRun, StartRun, Download, Sample, Worker, PCs, Ahead, Swapped, host, history
  <2>2. QED
    BY <1>2, <2>1
<1>15. ASSUME NEW m \in Modules, UpdateByHand(m) PROVE MarkerOK'
  BY <1>0, <1>2, <1>15, IdleIs DEF UpdateByHand, Worker, PCs, Ahead, Swapped, host, history
<1>16. CASE ReconcilerStep
  BY <1>1, <1>16 DEF ReconcilerStep, Plan, Activate, ActivateFails, Verify, PublishApplied, Undo, host, history
<1>17. CASE Outside
  BY <1>1, <1>11, <1>15, <1>17 DEF Outside, RegisterForm, RemoveForm, UpdateForm, StartForm, StopForm,
     RestartForm, ServiceForm, Ask, AutoForm, CheckModule, ControlByHand, LoadPage, CheckAll, NextDay,
     Upgrade, host, history
<1>18. CASE WorkerStep
  BY <1>3, <1>4, <1>5, <1>6, <1>7, <1>8, <1>9, <1>10, <1>12, <1>13, <1>14, <1>18 DEF WorkerStep
<1>19. QED
  BY <1>1, <1>14, <1>16, <1>17, <1>18 DEF Next, vars, host, history

-----------------------------------------------------------------------------
(* Removed modules *)

LEMMA DroppedStepOK ==
    ASSUME TypeOK, WorkerOK, DroppedOK, [Next]_vars
    PROVE  DroppedOK'
<1>1. CASE disabled' = disabled /\ dropped' = dropped /\ active' \subseteq active
  BY <1>1 DEF DroppedOK
<1>2. CASE Upgrade
  BY <1>2 DEF Upgrade, DroppedOK, history
<1>3. ASSUME NEW m \in Modules, RegisterBegin(m) PROVE DroppedOK'
  BY <1>3 DEF RegisterBegin, DroppedOK
<1>4. CASE RemoveMark
  BY <1>4 DEF RemoveMark, DroppedOK
<1>5. CASE Outside
  BY <1>1, <1>2, <1>5 DEF Outside, RegisterForm, RemoveForm, UpdateForm, StartForm, StopForm,
     RestartForm, ServiceForm, Ask, AutoForm, CheckModule, ControlByHand, LoadPage, CheckAll, NextDay,
     UpdateByHand, Kill, manifests, history
<1>6. CASE ReconcilerStep
  BY <1>1, <1>6 DEF ReconcilerStep, Plan, Activate, ActivateFails, Verify, PublishApplied, Undo, manifests, history
<1>7. ASSUME NEW m \in Modules, ScanItem(m) PROVE DroppedOK'
  BY <1>1, <1>3, <1>7 DEF ScanItem, RegisterRejected, RemoveRejected, RemoveBegin, ControlRejected, Control,
     ControlFails, RequestUpdate, AutoUpdate, Skip, RejectItem, manifests, history
<1>8. CASE WorkerStep
  BY <1>1, <1>4, <1>7, <1>8 DEF WorkerStep, NextPass, EndRun, RemoveStop, RemoveTree, RemoveManifest, RemoveFiles,
     CheckFails, AlreadyCurrent, DowngradeRefused, Download, Sample, Install, InstallFails, Restore, RestoreFails,
     Rollback, RollbackIncomplete, RememberVersion, Done, Fail, manifests, history
<1>9. QED
  BY <1>1, <1>5, <1>6, <1>8 DEF Next, StartRun, vars, manifests, history

-----------------------------------------------------------------------------
(* The theorems *)

LEMMA InitOK == Init => IInv
<1> SUFFICES ASSUME Init PROVE IInv
  OBVIOUS
<1> USE DEF Init
<1>1. PICK S \in SUBSET {m \in Modules : link[m] # 0} :
         /\ unit = [m \in Modules |-> [enabled |-> m \in S, running |-> IF m \in S THEN link[m] ELSE 0]]
         /\ applied = S
  OBVIOUS
<1>2. link \in [Modules -> Installed] /\ version = link /\ S \subseteq Modules
  OBVIOUS
<1>3. TypeOK
  <2>1. HostOK
    BY <1>1, <1>2, VersionsAre DEF HostOK, Service
  <2>2. RestOK
    BY <1>1, <1>2, QuietIs, ConstantsAssumption DEF RestOK
  <2>3. QED
    BY <2>1, <2>2, IdleIs, TypeParts
<1>4. WorkerOK
  BY IdleIs DEF WorkerOK, AtRest, Resolved, Unsampled
<1>5. RemovalOK
  BY <1>1, IdleIs, QuietIs DEF RemovalOK, RemovalPCs
<1>6. UnitOK
  BY <1>1, <1>2, IdleIs DEF UnitOK, Swapped
<1>7. MarkerOK
  BY <1>2, IdleIs DEF MarkerOK, Swapped
<1>8. DroppedOK
  BY DEF DroppedOK
<1>9. QED
  BY <1>3, <1>4, <1>5, <1>6, <1>7, <1>8 DEF IInv

LEMMA StepOK == IInv /\ [Next]_vars => IInv'
<1> SUFFICES ASSUME IInv, [Next]_vars PROVE IInv'
  OBVIOUS
<1>1. TypeOK /\ WorkerOK /\ RemovalOK /\ UnitOK /\ MarkerOK /\ DroppedOK
  BY DEF IInv
<1>2. QED
  BY <1>1, TypeStepOK, RemovalStepOK, UnitStepOK, MarkerStepOK, DroppedStepOK DEF IInv

(* In every reachable state the worker, the removals, the units, the        *)
(* version files and the markers are as described above.                    *)
THEOREM Invariance == Spec => []IInv
<1>1. QED
  BY InitOK, StepOK, PTL DEF Spec

(* Every variable keeps its type.                                           *)
THEOREM Typing == Spec => []TypeOK
<1>1. IInv => TypeOK
  BY DEF IInv
<1>2. QED
  BY <1>1, Invariance, PTL

(* The runtime of an applied core is removed by nobody, unless its removal  *)
(* overlapped the reconciliation that applied it (module-update.sh:518).    *)
THEOREM NeededRuntimeIsKept == Spec => []NeededRuntimeStays
<1>1. IInv => NeededRuntimeStays
  BY DEF IInv, RemovalOK, NeededRuntimeStays
<1>2. QED
  BY <1>1, Invariance, PTL

(* Outside updates a unit that is up runs what its link leads to: link and  *)
(* process change together or change back together.                         *)
THEOREM RunningStaysCurrent == Spec => []RunningIsCurrent
<1>1. IInv => RunningIsCurrent
  BY DEF IInv, UnitOK, RunningIsCurrent, Running
<1>2. QED
  BY <1>1, Invariance, PTL

(* Version files agree with the links, as compatible() wants them to, after *)
(* every installation that came to its end or was rolled back.              *)
THEOREM MarkersAgree == Spec => []MarkerAgrees
<1>1. IInv => MarkerAgrees
  BY DEF IInv, MarkerOK, MarkerAgrees
<1>2. QED
  BY <1>1, Invariance, PTL

(* No upgrade of the panel brings a removed module back (install.sh:420).   *)
THEOREM RemovedModulesStayOut == Spec => []RemovedStaysOut
<1>1. IInv => RemovedStaysOut
  BY DEF IInv, DroppedOK, RemovedStaysOut
<1>2. QED
  BY <1>1, Invariance, PTL

(* Where an update gives up, the link is back, and so is the process.       *)
LEMMA UndoneStep ==
    ASSUME IInv, [Next]_vars, GivesUp
    PROVE  /\ link'[upd.mod] = upd.prev
           /\ upd.active /\ upd.mod \notin disturbed' => unit'[upd.mod].running = upd.prev
<1> DEFINE Goal == /\ link'[upd.mod] = upd.prev
                   /\ upd.active /\ upd.mod \notin disturbed' => unit'[upd.mod].running = upd.prev
<1>0. /\ upd \in Worker /\ link \in [Modules -> Installed] /\ unit \in [Modules -> Service]
      /\ WorkerOK /\ UnitOK /\ upd.pc # "fail" /\ upd'.pc = "fail" /\ upd'.prev # 0
  BY DEF IInv, TypeOK, GivesUp
<1>1. CASE Rollback
  <2>1. /\ link' = [link EXCEPT ![upd.mod] = upd.prev] /\ unit' = Restart(upd.mod, upd.prev)
        /\ upd.mod \in Modules /\ upd.prev \in Installed
    BY <1>0, <1>1 DEF Rollback, Step, WorkerOK, AtRest, Worker
  <2>2. QED
    BY <1>0, <2>1, RestartIs
<1>2. CASE InstallFails
  <2>1. /\ upd.pc = "install" /\ upd.mod \in Modules /\ UNCHANGED <<link, unit, disturbed>>
    BY <1>0, <1>2 DEF InstallFails, WorkerOK, AtRest, Worker, host
  <2>2. QED
    BY <1>0, <2>1 DEF WorkerOK, UnitOK, Sampled
<1>3. ~(CheckFails \/ Sample)
  BY <1>0, Moved DEF CheckFails, Sample, Step, WorkerOK, Unsampled, PCs, Worker
<1>4. ASSUME NEW m \in Modules PROVE ~ScanItem(m)
  BY <1>0 DEF ScanItem, RegisterRejected, RegisterBegin, RemoveRejected, RemoveBegin,
     ControlRejected, Control, ControlFails, RequestUpdate, AutoUpdate, Skip, RejectItem, Work, InPass, Worker, PCs
<1>5. ~(RemoveStop \/ RemoveTree \/ RemoveManifest \/ RemoveFiles \/ AlreadyCurrent \/ DowngradeRefused
        \/ Install \/ Restore \/ RestoreFails \/ RollbackIncomplete \/ RememberVersion)
  BY <1>0, Moved DEF RemoveStop, RemoveTree, RemoveManifest, RemoveFiles, AlreadyCurrent, DowngradeRefused,
     Install, Restore, RestoreFails, RollbackIncomplete, RememberVersion, Step, PCs
<1>6. ~(RemoveMark \/ Done \/ Fail)
  BY <1>0, Ended DEF RemoveMark, Done, Fail, AtRest
<1>7. ~(StartRun \/ NextPass \/ EndRun \/ Download \/ Kill)
  BY <1>0, IdleIs DEF StartRun, NextPass, EndRun, Download, Kill, Worker, PCs
<1>8. ASSUME NEW m \in Modules PROVE ~UpdateByHand(m)
  BY <1>0, IdleIs DEF UpdateByHand, Worker, PCs
<1>9. ~(UNCHANGED upd)
  BY <1>0
<1>10. ~Outside
  BY <1>7, <1>8, <1>9 DEF Outside, RegisterForm, RemoveForm, UpdateForm, StartForm, StopForm,
     RestartForm, ServiceForm, Ask, AutoForm, CheckModule, ControlByHand, LoadPage, CheckAll, NextDay, Upgrade
<1>11. ~ReconcilerStep
  BY <1>9 DEF ReconcilerStep, Plan, Activate, ActivateFails, Verify, PublishApplied, Undo
<1>12. QED
  BY <1>1, <1>2, <1>3, <1>4, <1>5, <1>6, <1>7, <1>9, <1>10, <1>11 DEF Next, WorkerStep, vars

(* An update that gives up leaves the link and, unless others touched it,   *)
(* the running service at the previous release (rollback_symlink).          *)
THEOREM FailedUpdatesAreUndone == Spec => FailedUpdateIsUndone
<1>1. IInv /\ [Next]_vars
      => [GivesUp => /\ link'[upd.mod] = upd.prev
                     /\ upd.active /\ upd.mod \notin disturbed' => unit'[upd.mod].running = upd.prev]_vars
  BY UndoneStep
<1>2. QED
  BY <1>1, Invariance, PTL DEF Spec, FailedUpdateIsUndone
=============================================================================
