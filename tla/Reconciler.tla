------------------------------ MODULE Reconciler ------------------------------
(***************************************************************************)
(* The privileged transaction of stealthhub-core/src/reconcile.rs as the   *)
(* oneshot worker infiproxy-reconcile runs it: load a desired generation,  *)
(* recover what an interrupted run left behind, then apply the generation  *)
(* to every affected core or restore every core that was touched.          *)
(*                                                                         *)
(* An action performs one durable write (the journal, applied.json, the    *)
(* desired-generation marker) or one change of the host, so that Crash can *)
(* fall between any two of them; only the phases Installed and Activated,  *)
(* which recover() does not tell apart, are written with the change they   *)
(* record.  An I/O error that leaves reconcile() or recover() through `?`  *)
(* ends the process at that same place and is the same step as Crash.      *)
(*                                                                         *)
(* A core's configuration is the set of fragments it is composed of; core  *)
(* identifiers are numbers in the order of the BTreeMap that drives every  *)
(* loop of the transaction.                                                *)
(***************************************************************************)
EXTENDS Integers

CONSTANTS
    NumCores,         \* cores with a registered adapter
    Fragments,        \* server fragments (profile or infrastructure resource)
    Ports,            \* listener claims
    PortOf,           \* the listener each fragment claims
    Wants,            \* contents a desired generation may have
    MaxGen,           \* bound on desired generations
    MaxFaults,        \* bound on failures of the host and crashes of the worker
    CrashInRollback,  \* may the worker die while rollback() restores?
    None              \* no file, no process, no snapshot

Cores == 1..NumCores
Config == SUBSET Fragments

ASSUME ConstantsAssumption ==
    /\ NumCores \in Nat
    /\ PortOf \in [Fragments -> Ports]
    /\ Wants \subseteq [Cores -> Config]
    /\ MaxGen \in Nat
    /\ MaxFaults \in Nat
    /\ CrashInRollback \in BOOLEAN
    /\ \A config \in Config : config # None

VARIABLES
    desired,     \* SQLite: the committed generation and what it asks of each core
    marker,      \* desired-generation file
    applied,     \* applied.json
    journal,     \* journal.json
    snap,        \* snapshot directories of the journal's transaction
    svc,         \* per core: config file, unit enabled, what the process runs
    pc,          \* what the worker does next; "idle" when there is no process
    goal,        \* the desired state the worker loaded
    todo,        \* cores the current compensation has still to restore
    undoFailed,  \* some rollback_config of it failed
    faults,      \* failures and crashes so far
    before,      \* history: the host when the current transaction began
    servedWant   \* history: the contents of the applied generation

durable == <<marker, applied, journal, snap>>
memory  == <<goal, todo, undoFailed>>
history == <<before, servedWant>>
vars == <<desired, marker, applied, journal, snap, svc, pc, goal, todo,
          undoFailed, faults, before, servedWant>>

-----------------------------------------------------------------------------
(* Data *)

Statuses == {"None", "Pending", "Applying", "Applied", "Failed", "RolledBack",
             "Unsupported", "RecoveryRequired"}
(* Mutant: recover() takes RecoveryRequired for a settled transaction.      *)
TerminalWithRecoveryRequired ==
    {"Applied", "Failed", "RolledBack", "Unsupported", "RecoveryRequired"}

Terminal == {"Applied", "Failed", "RolledBack", "Unsupported"}

Phases == {"Prepared", "Staged", "Validated", "Snapshotted", "Installed",
           "Activated", "Healthy", "Publishing", "Published",
           "RollbackStarted", "RolledBack", "RecoveryRequired"}
PCs == {"idle", "marker", "recover", "ready", "plan", "stage", "validate",
        "snapshot", "fresh", "mutate", "install", "activate", "verify",
        "publish", "finish", "rollback", "undo"}

(* A JournalResource is absent until the core is snapshotted; then its two  *)
(* flags mutation_started and verified are set one after the other.         *)
Resource == {"absent", "snapshotted", "started", "verified"}
DesiredState == [gen : 0..MaxGen, want : [Cores -> Config]]
AppliedState == [gen : 0..MaxGen, active : SUBSET Cores]
JournalEntry == [gen : 0..MaxGen, prev : 0..MaxGen, prevActive : SUBSET Cores,
                 phase : Phases, status : Statuses, res : [Cores -> Resource]]
Service  == [file : {None} \cup Config, enabled : BOOLEAN,
             running : {None} \cup Config]
Snapshot == [file : {None} \cup Config, enabled : BOOLEAN, active : BOOLEAN]

ASSUME NoneIsNoSnapshot == None \notin Snapshot

NoWant      == [c \in Cores |-> {}]
NoSnapshots == [c \in Cores |-> None]
Untouched   == [c \in Cores |-> "absent"]

Listeners(config) == {PortOf[f] : f \in config}
ListenersOf(file) == IF file = None THEN {} ELSE Listeners(file)
Bound(c) == ListenersOf(svc[c].running)

(* A (re)started process can bind its listeners only if nobody holds them.  *)
PortsFree(c, config) ==
    \A d \in Cores \ {c} : Bound(d) \cap Listeners(config) = {}

SnapshotOf(s) == [file |-> s.file, enabled |-> s.enabled,
                  active |-> s.running # None]
RestoredFrom(b) == [file |-> b.file, enabled |-> b.enabled,
                    running |-> IF b.active THEN b.file ELSE None]

(* validate_listener_plan: no listener is claimed by two fragments.         *)
ListenersDistinct(want) ==
    \A c, d \in Cores : \A f \in want[c], g \in want[d] :
        PortOf[f] = PortOf[g] => c = d /\ f = g

(* Mutant: a core that lost its last fragment gets no plan.                 *)
PlannedWithFragments == {c \in Cores : goal.want[c] # {}}

(* build_plans: the cores with fragments and those that must lose theirs.   *)
Planned == {c \in Cores : goal.want[c] # {}} \cup journal.prevActive

(* Mutant: only verified resources are restored, not the one that failed.   *)
MutatedVerified(j) == {c \in Cores : j.res[c] = "verified"}

(* mutated_resources_in_rollback_order: resources are pushed in core order. *)
Mutated(j) == {c \in Cores : j.res[c] \in {"started", "verified"}}
(* Mutant: resources are restored in the order they were mutated.           *)
LastInMutationOrder(c, S) == c \in S /\ \A d \in S : c <= d

First(c, S) == c \in S /\ \A d \in S : c <= d

Last(c, S) == c \in S /\ \A d \in S : d <= c

Waiting == {c \in Planned : journal.res[c] = "snapshotted"}

Fault == faults < MaxFaults /\ faults' = faults + 1

(* cleanup_transaction_directory is best effort: its error is dropped.      *)
Cleanup == snap' \in {snap, NoSnapshots}

-----------------------------------------------------------------------------
Init ==
    /\ desired = [gen |-> 0, want |-> NoWant]
    /\ marker = None
    /\ applied = [gen |-> 0, active |-> {}]
    /\ journal = [gen |-> 0, prev |-> 0, prevActive |-> {}, phase |-> "Prepared",
                  status |-> "None", res |-> Untouched]
    /\ snap = NoSnapshots
    /\ svc = [c \in Cores |-> [file |-> None, enabled |-> FALSE, running |-> None]]
    /\ pc = "idle"
    /\ goal = [gen |-> 0, want |-> NoWant]
    /\ todo = {}
    /\ undoFailed = FALSE
    /\ faults = 0
    /\ before = svc
    /\ servedWant = NoWant

(* The panel commits domain rows and the generation bump in one transaction *)
(* at any time, also while the worker runs.                                 *)
Commit(want) ==
    /\ desired.gen < MaxGen
    /\ desired' = [gen |-> desired.gen + 1, want |-> want]
    /\ UNCHANGED <<durable, svc, pc, memory, faults, history>>

-----------------------------------------------------------------------------
(* The worker before the transaction *)

Load ==
    /\ pc = "idle"
    /\ pc' = "marker"
    /\ goal' = desired
    /\ UNCHANGED <<desired, durable, svc, todo, undoFailed, faults, history>>

PublishMarker ==
    /\ pc = "marker"
    /\ pc' = "recover"
    /\ marker' = goal.gen
    /\ UNCHANGED <<desired, applied, journal, snap, svc, memory, faults, history>>

RecoverNothing ==
    /\ pc = "recover"
    /\ journal.status \in Terminal \cup {"None"}
    /\ pc' = "ready"
    /\ IF journal.status = "None" THEN UNCHANGED snap ELSE Cleanup
    /\ UNCHANGED <<desired, marker, applied, journal, svc, memory, faults, history>>

(* recover() accepts a generation that reached applied.json when Published  *)
(* is durable or every mutated resource is verified.                        *)
ProvenPublished ==
    /\ applied.gen = journal.gen
    /\ \/ journal.phase = "Published"
       \/ /\ \E c \in Cores : journal.res[c] # "absent"
          /\ \A c \in Mutated(journal) : journal.res[c] = "verified"

Interrupted == journal.status \notin Terminal \cup {"None"}

RecoverAdopt ==
    /\ pc = "recover" /\ Interrupted /\ ProvenPublished
    /\ pc' = "ready"
    /\ journal' = [journal EXCEPT !.phase = "Published", !.status = "Applied"]
    /\ Cleanup
    /\ UNCHANGED <<desired, marker, applied, svc, memory, faults, history>>

RecoverDiscard ==
    /\ pc = "recover" /\ Interrupted /\ ~ProvenPublished
    /\ Mutated(journal) = {}
    /\ pc' = "ready"
    /\ journal' = [journal EXCEPT !.status = "Failed"]
    /\ Cleanup
    /\ UNCHANGED <<desired, marker, applied, svc, memory, faults, history>>

RecoverBegin ==
    /\ pc = "recover" /\ Interrupted /\ ~ProvenPublished
    /\ Mutated(journal) # {}
    /\ pc' = "undo"
    /\ journal' = [journal EXCEPT !.phase = "RollbackStarted", !.status = "Applying"]
    /\ todo' = Mutated(journal)
    /\ undoFailed' = FALSE
    /\ UNCHANGED <<desired, marker, applied, snap, svc, goal, faults, history>>

-----------------------------------------------------------------------------
(* Before the first live mutation *)

Done ==
    /\ pc = "ready"
    /\ goal.gen <= applied.gen
    /\ pc' = "idle"
    /\ UNCHANGED <<desired, durable, svc, memory, faults, history>>

Begin ==
    /\ pc = "ready"
    /\ goal.gen > applied.gen
    /\ IF journal.status \in {"Applying", "RecoveryRequired"}
       THEN pc' = "idle" /\ UNCHANGED <<journal, before>>
       ELSE /\ pc' = "plan"
            /\ journal' = [gen |-> goal.gen, prev |-> applied.gen,
                           prevActive |-> applied.active, phase |-> "Prepared",
                           status |-> "Pending", res |-> Untouched]
            /\ before' = svc
    /\ UNCHANGED <<desired, marker, applied, snap, svc, memory, faults, servedWant>>

Plan ==
    /\ pc = "plan"
    /\ ListenersDistinct(goal.want)
    /\ pc' = "stage"
    /\ journal' = [journal EXCEPT !.status = "Applying"]
    /\ snap' = NoSnapshots
    /\ UNCHANGED <<desired, marker, applied, svc, memory, faults, history>>

(* validate_graph finds no compatible adapter for a planned core.           *)
RefuseUnsupported ==
    /\ pc = "plan"
    /\ Planned # {}
    /\ Fault
    /\ pc' = "idle"
    /\ journal' = [journal EXCEPT !.status = "Unsupported"]
    /\ UNCHANGED <<desired, marker, applied, snap, svc, memory, history>>

(* fail_without_mutation, because two fragments claim one listener ...      *)
RefuseListeners ==
    /\ pc = "plan"
    /\ ~ListenersDistinct(goal.want)
    /\ pc' = "idle"
    /\ journal' = [journal EXCEPT !.status = "Failed"]
    /\ Cleanup
    /\ UNCHANGED <<desired, marker, applied, svc, memory, faults, history>>

(* ... or because rendering, staging, native validation or the snapshot of  *)
(* a core fails.                                                            *)
FailWithoutMutation ==
    /\ pc \in {"plan", "stage", "validate", "snapshot"}
    /\ Planned # {}
    /\ Fault
    /\ pc' = "idle"
    /\ journal' = [journal EXCEPT !.status = "Failed"]
    /\ Cleanup
    /\ UNCHANGED <<desired, marker, applied, svc, memory, history>>

Stage ==
    /\ pc = "stage"
    /\ pc' = "validate"
    /\ journal' = IF Planned = {} THEN journal ELSE [journal EXCEPT !.phase = "Staged"]
    /\ UNCHANGED <<desired, marker, applied, snap, svc, memory, faults, history>>

Validate ==
    /\ pc = "validate"
    /\ pc' = "snapshot"
    /\ journal' = [journal EXCEPT !.phase = "Validated"]
    /\ UNCHANGED <<desired, marker, applied, snap, svc, memory, faults, history>>

TakeSnapshot(c) ==
    /\ pc = "snapshot"
    /\ First(c, {d \in Planned : journal.res[d] = "absent"})
    /\ snap' = [snap EXCEPT ![c] = SnapshotOf(svc[c])]
    /\ journal' = [journal EXCEPT !.res[c] = "snapshotted"]
    /\ UNCHANGED <<desired, marker, applied, svc, pc, memory, faults, history>>

AllSnapshotted ==
    /\ pc = "snapshot"
    /\ \A c \in Planned : journal.res[c] # "absent"
    /\ pc' = "fresh"
    /\ journal' = [journal EXCEPT !.phase = "Snapshotted"]
    /\ UNCHANGED <<desired, marker, applied, snap, svc, memory, faults, history>>

(* desired_generation_is_current: a missing marker counts as current.       *)
MarkerIsCurrent == marker \in {None, journal.gen}

CheckFresh ==
    /\ pc = "fresh"
    /\ IF MarkerIsCurrent
       THEN pc' = "mutate" /\ UNCHANGED <<journal, snap>>
       ELSE /\ pc' = "idle"
            /\ journal' = [journal EXCEPT !.status = "Failed"]
            /\ Cleanup
    /\ UNCHANGED <<desired, marker, applied, svc, memory, faults, history>>

-----------------------------------------------------------------------------
(* Live mutation, one core after the other *)

(* Mutant: mutation_started is set in memory and saved with the next phase. *)
MarkStartedLate(c) ==
    /\ pc = "mutate"
    /\ First(c, Waiting)
    /\ pc' = "activate"
    /\ svc' = [svc EXCEPT ![c].file = goal.want[c]]
    /\ journal' = journal
    /\ UNCHANGED <<desired, marker, applied, snap, memory, faults, history>>

MarkStarted(c) ==
    /\ pc = "mutate"
    /\ First(c, Waiting)
    /\ pc' = "install"
    /\ journal' = [journal EXCEPT !.res[c] = "started"]
    /\ UNCHANGED <<desired, marker, applied, snap, svc, memory, faults, history>>

Current(c) == journal.res[c] = "started"

Install(c) ==
    /\ pc = "install" /\ Current(c)
    /\ pc' = "activate"
    /\ svc' = [svc EXCEPT ![c].file = goal.want[c]]
    /\ journal' = [journal EXCEPT !.phase = "Installed"]
    /\ UNCHANGED <<desired, marker, applied, snap, memory, faults, history>>

(* install_config may fail before or after its rename.                      *)
InstallFails(c) ==
    /\ pc = "install" /\ Current(c) /\ Fault
    /\ pc' = "rollback"
    /\ svc' \in {svc, [svc EXCEPT ![c].file = goal.want[c]]}
    /\ UNCHANGED <<desired, durable, memory, history>>

(* systemctl enable + restart, or disable --now for a core that lost its    *)
(* last fragment.  A process that cannot bind its listeners exits.          *)
Activated(c) ==
    IF goal.want[c] = {}
    THEN [svc[c] EXCEPT !.enabled = FALSE, !.running = None]
    ELSE [svc[c] EXCEPT !.enabled = TRUE,
                        !.running = IF PortsFree(c, svc[c].file) THEN svc[c].file
                                                                 ELSE None]

Activate(c) ==
    /\ pc = "activate" /\ Current(c)
    /\ pc' = "verify"
    /\ svc' = [svc EXCEPT ![c] = Activated(c)]
    /\ journal' = [journal EXCEPT !.phase = "Activated"]
    /\ UNCHANGED <<desired, marker, applied, snap, memory, faults, history>>

ActivateFails(c) ==
    /\ pc = "activate" /\ Current(c) /\ Fault
    /\ pc' = "rollback"
    /\ \E e \in {svc[c].enabled, Activated(c).enabled},
          r \in {svc[c].running, None, Activated(c).running} :
          svc' = [svc EXCEPT ![c].enabled = e, ![c].running = r]
    /\ UNCHANGED <<desired, durable, memory, history>>

(* healthcheck and verify_listeners: the required listeners belong to the   *)
(* core's process, and what only the previous config listened on is gone.   *)
Healthy(c) ==
    LET required  == Listeners(goal.want[c])
        forbidden == ListenersOf(snap[c].file) \ required
    IN /\ goal.want[c] # {} => svc[c].running # None
       /\ required \subseteq Bound(c)
       /\ \A d \in Cores : Bound(d) \cap forbidden = {}

Verify(c) ==
    /\ pc = "verify" /\ Current(c) /\ Healthy(c)
    /\ pc' = "mutate"
    /\ journal' = [journal EXCEPT !.res[c] = "verified", !.phase = "Healthy"]
    /\ UNCHANGED <<desired, marker, applied, snap, svc, memory, faults, history>>

(* The evidence is not there ...                                            *)
VerifyRejects(c) ==
    /\ pc = "verify" /\ Current(c) /\ ~Healthy(c)
    /\ pc' = "rollback"
    /\ UNCHANGED <<desired, durable, svc, memory, faults, history>>

(* ... or a check of health, listeners or observed users fails by itself.   *)
VerifyFails(c) ==
    /\ pc = "verify" /\ Current(c) /\ Healthy(c) /\ Fault
    /\ pc' = "rollback"
    /\ UNCHANGED <<desired, durable, svc, memory, history>>

-----------------------------------------------------------------------------
(* Publication *)

(* Mutant: the generation is published once the first core is verified.     *)
BeginPublishEarly ==
    /\ pc = "mutate"
    /\ \E c \in Cores : journal.res[c] = "verified"
    /\ pc' = "publish"
    /\ journal' = [journal EXCEPT !.phase = "Publishing"]
    /\ UNCHANGED <<desired, marker, applied, snap, svc, memory, faults, history>>

BeginPublish ==
    /\ pc = "mutate"
    /\ Waiting = {}
    /\ IF MarkerIsCurrent
       THEN pc' = "publish" /\ journal' = [journal EXCEPT !.phase = "Publishing"]
       ELSE pc' = "rollback" /\ UNCHANGED journal
    /\ UNCHANGED <<desired, marker, applied, snap, svc, memory, faults, history>>

(* compare_and_set_applied *)
Publish ==
    /\ pc = "publish"
    /\ IF applied.gen = journal.prev
       THEN /\ pc' = "finish"
            /\ applied' = [gen |-> goal.gen,
                           active |-> {c \in Planned : goal.want[c] # {}}]
            /\ servedWant' = goal.want
       ELSE pc' = "rollback" /\ UNCHANGED <<applied, servedWant>>
    /\ UNCHANGED <<desired, marker, journal, snap, svc, memory, faults, before>>

Finish ==
    /\ pc = "finish"
    /\ pc' = "idle"
    /\ journal' = [journal EXCEPT !.phase = "Published", !.status = "Applied"]
    /\ Cleanup
    /\ UNCHANGED <<desired, marker, applied, svc, memory, faults, history>>

-----------------------------------------------------------------------------
(* Compensation: rollback() marks the journal Failed and recover() marks it *)
(* Applying before the first core is restored.                              *)

RollbackBegin ==
    /\ pc = "rollback"
    /\ pc' = "undo"
    /\ journal' = [journal EXCEPT !.phase = "RollbackStarted", !.status = "Failed"]
    /\ todo' = Mutated(journal)
    /\ undoFailed' = FALSE
    /\ UNCHANGED <<desired, marker, applied, snap, svc, goal, faults, history>>

(* rollback_config needs the snapshot and, for a core that was active, a    *)
(* file to start from and its listeners.                                    *)
Restorable(c) ==
    /\ snap[c] # None
    /\ snap[c].active => snap[c].file # None /\ PortsFree(c, snap[c].file)

Restore(c) ==
    /\ pc = "undo" /\ Last(c, todo) /\ Restorable(c)
    /\ svc' = [svc EXCEPT ![c] = RestoredFrom(snap[c])]
    /\ todo' = todo \ {c}
    /\ UNCHANGED <<desired, durable, pc, goal, undoFailed, faults, history>>

(* How far rollback_config can get before it reports an error.              *)
PartlyRestored(c) ==
    {svc[c]} \cup
    IF snap[c] = None THEN {}
    ELSE {[svc[c] EXCEPT !.file = snap[c].file],
          [svc[c] EXCEPT !.file = snap[c].file, !.enabled = snap[c].enabled],
          [RestoredFrom(snap[c]) EXCEPT !.running = None]}
         \cup (IF Restorable(c) THEN {RestoredFrom(snap[c])} ELSE {})

RestoreError(c) ==
    /\ pc = "undo" /\ Last(c, todo)
    /\ \E s \in PartlyRestored(c) : svc' = [svc EXCEPT ![c] = s]
    /\ todo' = todo \ {c}
    /\ undoFailed' = TRUE
    /\ UNCHANGED <<desired, durable, pc, goal, history>>

RestoreRejects(c) == ~Restorable(c) /\ RestoreError(c) /\ UNCHANGED faults
RestoreFails(c)   == Restorable(c) /\ RestoreError(c) /\ Fault

UndoOutcome ==
    IF undoFailed \/ (journal.status = "Applying"
                        /\ applied.gen \notin {journal.gen, journal.prev})
    THEN "RecoveryRequired" ELSE "RolledBack"

(* recover() would also put a published but unproven generation back; no    *)
(* generation is published before it is verified, so this never happens.    *)
(* After recover() the worker goes on to the desired generation; after      *)
(* rollback(), or when recovery needs an operator, the process ends.        *)
UndoEnd ==
    /\ pc = "undo" /\ todo = {}
    /\ applied' = IF ~undoFailed /\ journal.status = "Applying"
                     /\ applied.gen = journal.gen
                  THEN [gen |-> journal.prev, active |-> journal.prevActive]
                  ELSE applied
    /\ journal' = [journal EXCEPT !.phase = UndoOutcome, !.status = UndoOutcome]
    /\ pc' = IF journal.status = "Applying" /\ UndoOutcome = "RolledBack"
             THEN "ready" ELSE "idle"
    /\ IF UndoOutcome = "RolledBack" THEN Cleanup ELSE UNCHANGED snap
    /\ undoFailed' = FALSE
    /\ UNCHANGED <<desired, marker, svc, goal, todo, faults, history>>

(* The process dies and its memory is lost.  rollback() restores under a    *)
(* journal that already says Failed.                                        *)
InRollback == pc = "undo" /\ journal.status = "Failed"

Crash ==
    /\ pc # "idle"
    /\ Fault
    /\ InRollback => CrashInRollback
    /\ pc' = "idle"
    /\ todo' = {}
    /\ undoFailed' = FALSE
    /\ UNCHANGED <<desired, durable, svc, goal, history>>

-----------------------------------------------------------------------------
WorkerStep ==
    \/ Load \/ PublishMarker
    \/ RecoverNothing \/ RecoverAdopt \/ RecoverDiscard \/ RecoverBegin
    \/ Done \/ Begin \/ Plan \/ RefuseListeners \/ Stage \/ Validate
    \/ AllSnapshotted \/ CheckFresh \/ BeginPublish \/ Publish \/ Finish
    \/ RollbackBegin \/ UndoEnd
    \/ \E c \in Cores :
           \/ TakeSnapshot(c) \/ MarkStarted(c) \/ Install(c) \/ Activate(c)
           \/ Verify(c) \/ VerifyRejects(c)
           \/ Restore(c) \/ RestoreRejects(c)

HostFault ==
    \/ RefuseUnsupported \/ FailWithoutMutation
    \/ \E c \in Cores : \/ InstallFails(c) \/ ActivateFails(c)
                        \/ VerifyFails(c) \/ RestoreFails(c)

Panel == \E want \in Wants : Commit(want)

Next == WorkerStep \/ HostFault \/ Panel \/ Crash

Spec == Init /\ [][Next]_vars

(* The path unit and the five-minute timer start the worker again and again *)
(* and a running worker goes on; nothing else is owed to anybody.           *)
FairSpec == Spec /\ WF_vars(WorkerStep)

-----------------------------------------------------------------------------
(* Properties *)

TypeOK ==
    /\ desired \in DesiredState
    /\ marker \in {None} \cup (0..MaxGen)
    /\ applied \in AppliedState
    /\ journal \in JournalEntry
    /\ snap \in [Cores -> {None} \cup Snapshot]
    /\ svc \in [Cores -> Service]
    /\ pc \in PCs
    /\ goal \in DesiredState
    /\ todo \in SUBSET Cores
    /\ undoFailed \in BOOLEAN
    /\ faults \in 0..MaxFaults
    /\ before \in [Cores -> Service]
    /\ servedWant \in [Cores -> Config]

AsBefore(c) == svc[c] = before[c]

(* While a transaction can still have to be undone, every core that is not  *)
(* as the transaction found it is marked mutated in the durable journal and *)
(* every journaled core has the snapshot it was found in (reconcile() saves *)
(* mutation_started before install_config, and keeps the transaction's      *)
(* directory until the status is terminal), whenever the worker dies.       *)
UndoIsDurable ==
    (journal.status \in {"Pending", "Applying", "RecoveryRequired"} \/ pc = "undo") =>
        \A c \in Cores :
            /\ ~AsBefore(c) => c \in Mutated(journal)
            /\ journal.res[c] # "absent" => snap[c] = SnapshotOf(before[c])

(* A generation reported RolledBack, Failed or Unsupported left every core  *)
(* as it was: file, unit state and process (rollback(), recover(),          *)
(* fail_without_mutation).                                                  *)
UnappliedIsUntouched ==
    journal.status \in {"RolledBack", "Failed", "Unsupported"} /\ pc # "undo" =>
        \A c \in Cores : AsBefore(c)

(* A generation reported Applied is what runs: each core with fragments     *)
(* runs exactly them, enabled for the next boot, and every other core is    *)
(* stopped and disabled, whatever was applied, undone or interrupted before.*)
Serves(c, config) ==
    IF config = {} THEN ~svc[c].enabled /\ svc[c].running = None
    ELSE svc[c] = [file |-> config, enabled |-> TRUE, running |-> config]

AppliedIsServed ==
    journal.status = "Applied" => \A c \in Cores : Serves(c, servedWant[c])

(* Compensation never defeats itself: as long as no rollback_config of it   *)
(* failed, the next core's snapshot is there and the listeners it needs     *)
(* have been given back by the cores restored before it (reverse order).    *)
UndoNeverBlocked ==
    pc = "undo" /\ ~undoFailed => \A c \in todo : Last(c, todo) => Restorable(c)

(* What the host can be relied on for: while a transaction is open, that is *)
(* what compensation gives back; otherwise it is what runs.                 *)
TransactionOpen ==
    /\ journal.status \in {"Pending", "Applying", "RecoveryRequired"} \/ pc = "undo"
    /\ applied.gen # journal.gen

Serving(c) ==
    LET s == IF TransactionOpen THEN before[c] ELSE svc[c]
    IN [enabled |-> s.enabled, running |-> s.running]

Atomic == INSTANCE AtomicApply WITH
              loaded    <- goal,
              published <- [gen |-> applied.gen, want |-> servedWant],
              serving   <- [c \in Cores |-> Serving(c)]

(* The transaction implements the abstract specification: whatever fails or *)
(* is interrupted, a generation is served as a whole from the step that     *)
(* publishes it, or leaves nothing behind (reconcile(), recover()).         *)
AppliesAtomically == Atomic!Spec

(* Cores are activated in their order: a listener that a later core still   *)
(* holds cannot be taken over by an earlier one (activate_all, reconcile()).*)
ActivationOrdered(want) ==
    \A c, d \in Cores : c < d => Listeners(want[c]) \cap Bound(d) = {}

(* The worker converges: once commits and failures are over, the desired    *)
(* generation is the applied one unless its own listeners collide or one of *)
(* them would move to an earlier core, and an interrupted or unrecovered    *)
(* transaction does not block it for ever.                                  *)
Convergence ==
    <>[](ListenersDistinct(desired.want) /\ ActivationOrdered(desired.want)
            => applied.gen = desired.gen)

=============================================================================
