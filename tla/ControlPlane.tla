------------------------------ MODULE ControlPlane -----------------------------
(***************************************************************************)
(* What an administrator is told about the reconciler.  The panel commits  *)
(* edits with a new desired generation and asks for a run through a request*)
(* file; the oneshot worker infiproxy-reconcile claims the request, loads  *)
(* the desired state, recovers, reconciles and reports into the rows       *)
(* reconcile_state and runtime_user_sync, whose status the panel shows.    *)
(*                                                                         *)
(* The transaction of Reconciler is reduced to what AtomicApply promises:  *)
(* it publishes the loaded generation as a whole or ends with a failure,   *)
(* and what it asks of the cores is one set of fragments.                  *)
(***************************************************************************)
EXTENDS Integers, Absent

CONSTANTS
    Fragments,          \* server fragments
    Wants,              \* contents a desired generation may have
    Invalid,            \* those that no validation lets through
    MaxGen,             \* bound on desired generations
    MaxFaults,          \* bound on failed runs and crashes of the worker
    MaxRestores         \* bound on database restores

ASSUME ConstantsAssumption ==
    /\ Invalid \subseteq Wants
    /\ Wants \subseteq SUBSET Fragments
    /\ MaxGen \in Nat /\ MaxFaults \in Nat /\ MaxRestores \in Nat
    /\ None \notin Nat

VARIABLES
    row,        \* reconcile_state, with the contents of the domain rows
    sync,       \* the status in runtime_user_sync, which has no generation; "off":
                \* drifted, or nothing that can be read
    backup,     \* a copy of the database
    request,    \* reconcile.request
    published,  \* history: the largest generation ever requested
    journal,    \* journal.json
    applied,    \* applied.json, with the contents that were applied
    pc,         \* what the worker does next; "idle" and "died": no process
    held,       \* the claimed request
    goal,       \* the desired state the worker loaded
    faults,     \* failures so far
    restores,   \* restores so far
    lost,       \* history: the generation whose outcome was never reported
    overtaken   \* history: "synced" was found for a generation older than the row's

database == <<row, sync, backup>>
bridge == <<request, published>>
bounds == <<faults, restores, lost, overtaken>>
vars == <<row, sync, backup, request, published, journal, applied, pc, held,
          goal, faults, restores, lost, overtaken>>

-----------------------------------------------------------------------------
Gens == 0..MaxGen
Failures == {"failed", "rolled-back", "unsupported", "recovery-required"}
Statuses == {"none", "pending", "applying", "applied"} \cup Failures
SyncStatuses == {"none", "pending", "synced", "off"}
PCs == {"idle", "died", "claimed", "recover", "recovered", "reconcile", "apply",
        "published", "report", "observe", "end"}

Content == [gen : Gens, want : SUBSET Fragments]
Row == [gen : Gens, want : SUBSET Fragments, applied : Gens, status : Statuses]

Desired == [gen |-> row.gen, want |-> row.want]
Fault == faults < MaxFaults /\ faults' = faults + 1
NoProcess == pc \in {"idle", "died"}

Init ==
    /\ row = [gen |-> 0, want |-> {}, applied |-> 0, status |-> "applied"]
    /\ sync = "none"
    /\ backup = [row |-> row, sync |-> sync]
    /\ request = None
    /\ published = 0
    /\ journal = [gen |-> 0, status |-> "none", planned |-> FALSE]
    /\ applied = [gen |-> 0, want |-> {}]
    /\ pc = "idle"
    /\ held = None
    /\ goal = applied
    /\ faults = 0
    /\ restores = 0
    /\ lost = None
    /\ overtaken = FALSE

-----------------------------------------------------------------------------
(* The panel                                                                *)

(* bump_desired_generation marks the rows of runtime_user_sync there are.    *)
Commit(want) ==
    /\ row.gen < MaxGen
    /\ row' = [row EXCEPT !.gen = @ + 1, !.want = want, !.status = "pending"]
    /\ sync' = IF sync = "none" THEN "none" ELSE "pending"
    /\ overtaken' = FALSE
    /\ UNCHANGED <<backup, bridge, journal, applied, pc, held, goal, faults, restores, lost>>

(* Every handler and the checker publish a generation they read before, and *)
(* may overwrite a request that is newer than theirs.                       *)
Request(g) ==
    /\ g <= row.gen
    /\ request' = g
    /\ published' = IF g > published THEN g ELSE published
    /\ UNCHANGED <<database, journal, applied, pc, held, goal, bounds>>

-----------------------------------------------------------------------------
(* The operator restores the database; both units of the worker are stopped.*)

Backup ==
    /\ restores < MaxRestores
    /\ backup' = [row |-> row, sync |-> sync]
    /\ UNCHANGED <<row, sync, bridge, journal, applied, pc, held, goal, bounds>>

Restore ==
    /\ NoProcess
    /\ restores < MaxRestores
    /\ restores' = restores + 1
    /\ row' = backup.row
    /\ sync' = backup.sync
    /\ UNCHANGED <<backup, bridge, journal, applied, pc, held, goal, faults, lost, overtaken>>

-----------------------------------------------------------------------------
(* The worker.  The path unit starts it when there is a request, the timer  *)
(* when there is none.                                                      *)

Start ==
    /\ NoProcess
    /\ pc' = "claimed"
    /\ held' = request
    /\ request' = None
    /\ UNCHANGED <<database, published, journal, applied, goal, bounds>>

(* A request from before a restore may be ahead of the desired state.       *)
Load ==
    /\ pc = "claimed"
    /\ goal' = Desired
    /\ pc' = IF held # None /\ held > row.gen THEN "end" ELSE "recover"
    /\ UNCHANGED <<database, bridge, journal, applied, held, bounds>>

(* No TLS material, or a secret that cannot be resolved.                    *)
Bail ==
    /\ pc \in {"recover", "reconcile"}
    /\ Fault
    /\ pc' = "end"
    /\ UNCHANGED <<database, bridge, journal, applied, held, goal, restores, lost, overtaken>>

Settled == journal.status \notin {"applying", "recovery-required"}

RecoverNothing ==
    /\ pc = "recover" /\ Settled
    /\ pc' = "reconcile"
    /\ UNCHANGED <<database, bridge, journal, applied, held, goal, bounds>>

(* Only a generation that planned something is adopted; whatever else was   *)
(* interrupted is failed or rolled back.                                    *)
RecoveryOutcomes ==
    IF ~journal.planned THEN {"failed"}
    ELSE IF applied.gen = journal.gen THEN {"applied"}
    ELSE IF journal.status = "applying" THEN {"failed", "rolled-back"}
    ELSE {"rolled-back"}

Recover ==
    /\ pc = "recover" /\ ~Settled
    /\ pc' = "recovered"
    /\ \E status \in RecoveryOutcomes : journal' = [journal EXCEPT !.status = status]
    /\ UNCHANGED <<database, bridge, applied, held, goal, bounds>>

RecoverFails ==
    /\ pc = "recover" /\ ~Settled
    /\ "rolled-back" \in RecoveryOutcomes
    /\ Fault
    /\ pc' = "recovered"
    /\ journal' = [journal EXCEPT !.status = "recovery-required"]
    /\ UNCHANGED <<database, bridge, applied, held, goal, restores, lost, overtaken>>

(* Mutant: the result is written whatever generation the row is at.         *)
PersistAlways ==
    row' = [row EXCEPT !.applied = applied.gen, !.status = journal.status]

(* persist_status: the row takes the outcome of its own generation only.    *)
Persist ==
    row' = IF row.gen = journal.gen
           THEN [row EXCEPT !.applied = applied.gen, !.status = journal.status]
           ELSE row

(* Mutant: what recover() found out is not reported.                        *)
DropRecovery ==
    /\ pc = "recovered"
    /\ pc' = IF journal.status = "recovery-required" THEN "end" ELSE "reconcile"
    /\ UNCHANGED <<database, bridge, journal, applied, held, goal, bounds>>

ReportRecovery ==
    /\ pc = "recovered"
    /\ Persist
    /\ pc' = IF journal.status = "recovery-required" THEN "end" ELSE "reconcile"
    /\ UNCHANGED <<sync, backup, bridge, journal, applied, held, goal, bounds>>

(* Mutant: users are observed only where something was applied.             *)
NothingToObserve ==
    /\ pc = "reconcile"
    /\ goal.gen <= applied.gen
    /\ pc' = "end"
    /\ UNCHANGED <<database, bridge, journal, applied, held, goal, bounds>>

NothingToDo ==
    /\ pc = "reconcile"
    /\ goal.gen <= applied.gen
    /\ pc' = "observe"
    /\ UNCHANGED <<database, bridge, journal, applied, held, goal, bounds>>

(* A plan is empty when nothing is wanted and nothing was active.           *)
Begin ==
    /\ pc = "reconcile"
    /\ goal.gen > applied.gen
    /\ pc' = "apply"
    /\ journal' = [gen |-> goal.gen, status |-> "applying",
                   planned |-> goal.want \cup applied.want # {}]
    /\ UNCHANGED <<database, bridge, applied, held, goal, bounds>>

Refuse ==
    /\ pc = "apply" /\ goal.want \in Invalid
    /\ pc' = "report"
    /\ journal' = [journal EXCEPT !.status = "failed"]
    /\ UNCHANGED <<database, bridge, applied, held, goal, bounds>>

Fail ==
    /\ pc = "apply" /\ journal.planned
    /\ Fault
    /\ pc' = "report"
    /\ \E status \in Failures : journal' = [journal EXCEPT !.status = status]
    /\ UNCHANGED <<database, bridge, applied, held, goal, restores, lost, overtaken>>

Publish ==
    /\ pc = "apply" /\ goal.want \notin Invalid
    /\ pc' = "published"
    /\ applied' = goal
    /\ UNCHANGED <<database, bridge, journal, held, goal, bounds>>

Finish ==
    /\ pc = "published"
    /\ pc' = "report"
    /\ journal' = [journal EXCEPT !.status = "applied"]
    /\ UNCHANGED <<database, bridge, applied, held, goal, bounds>>

Report ==
    /\ pc = "report"
    /\ Persist
    /\ pc' = "observe"
    /\ UNCHANGED <<sync, backup, bridge, journal, applied, held, goal, bounds>>

(* What the cores run, compared with what was loaded; no users, no rows.    *)
Observation ==
    IF goal.want = {} THEN "none"
    ELSE IF applied.want = goal.want THEN "synced" ELSE "off"

Replace(status) ==
    /\ sync' = status
    /\ overtaken' = (status = "synced" /\ goal.gen # row.gen)

(* observe_user_sync compares the loaded users with the running ones, and   *)
(* replace_runtime_user_sync writes the result over whatever the rows say,  *)
(* also over the marks of a commit the worker has not seen.  What cannot be *)
(* planned cannot be observed: the rows stay.                               *)
Observe ==
    /\ pc = "observe"
    /\ pc' = "end"
    /\ \/ Replace(Observation)
       \/ goal.want \in Invalid /\ UNCHANGED <<sync, overtaken>>
    /\ UNCHANGED <<row, backup, bridge, journal, applied, held, goal, faults, restores, lost>>

(* The plan fails for once, or a runtime does not answer.                   *)
ObserveFails ==
    /\ pc = "observe"
    /\ Fault
    /\ pc' = "end"
    /\ \/ Replace("off")
       \/ UNCHANGED <<sync, overtaken>>
    /\ UNCHANGED <<row, backup, bridge, journal, applied, held, goal, restores, lost>>

(* Mutant: the request file, and not the claimed one, is removed.           *)
EndRemovesRequest ==
    /\ pc = "end"
    /\ pc' = "idle"
    /\ held' = None
    /\ request' = None
    /\ UNCHANGED <<database, published, journal, applied, goal, bounds>>

End ==
    /\ pc = "end"
    /\ pc' = "idle"
    /\ held' = None
    /\ UNCHANGED <<database, bridge, journal, applied, goal, bounds>>

(* The process dies, or an error of SQLite or the file system ends it.  A   *)
(* claimed request is under another name then and nobody reads it again.    *)
Reporting == pc \in {"recovered", "report"}

(* An outcome that no later run reports: the journal is settled, or an      *)
(* applied generation without a plan, which recovery takes for a failed one.*)
Unreported == Reporting \/ (pc = "published" /\ ~journal.planned)

Crash ==
    /\ ~NoProcess
    /\ Fault
    /\ pc' = "died"
    /\ held' = None
    /\ lost' = IF Unreported THEN journal.gen ELSE lost
    /\ UNCHANGED <<database, bridge, journal, applied, goal, restores, overtaken>>

-----------------------------------------------------------------------------
Panel == (\E want \in Wants : Commit(want)) \/ (\E g \in 1..MaxGen : Request(g))

WorkerStep ==
    \/ Start \/ Load \/ RecoverNothing \/ Recover \/ ReportRecovery
    \/ NothingToDo \/ Begin \/ Refuse \/ Publish \/ Finish
    \/ Report \/ Observe \/ End

Failure == Bail \/ RecoverFails \/ Fail \/ ObserveFails \/ Crash

Next == Panel \/ Backup \/ Restore \/ WorkerStep \/ Failure

Spec == Init /\ [][Next]_vars

(* The timer starts the worker again five minutes after it ended, whether   *)
(* or not there is a request, and a worker that runs goes on.               *)
FairSpec == Spec /\ WF_vars(WorkerStep)

-----------------------------------------------------------------------------
(* Properties                                                               *)

TypeOK ==
    /\ row \in Row
    /\ sync \in SyncStatuses
    /\ backup \in [row : Row, sync : SyncStatuses]
    /\ request \in {None} \cup Gens
    /\ published \in Gens
    /\ journal \in [gen : Gens, status : Statuses, planned : BOOLEAN]
    /\ applied \in Content
    /\ pc \in PCs
    /\ held \in {None} \cup Gens
    /\ goal \in Content
    /\ faults \in 0..MaxFaults
    /\ restores \in 0..MaxRestores
    /\ lost \in {None} \cup Gens
    /\ overtaken \in BOOLEAN

(* Generation numbers identify contents until an older database comes back:  *)
(* applied.json and the runtimes are not part of what a restore brings back. *)
NeverRestored == restores = 0

(* A row that says applied is about the desired state it stands next to,    *)
(* and that is what the cores run: mark_reconcile_result does not label a   *)
(* generation with the outcome of another one that was committed before.    *)
RowTellsTheTruth ==
    NeverRestored /\ row.status = "applied"
        => row.applied = row.gen /\ applied = Desired

(* Users that are called synced are those the cores run, unless a commit    *)
(* overtook the run that says so: replace_runtime_user_sync does not look   *)
(* at the generation, and writes the answer about the older one over the    *)
(* marks of the newer one.  The page cannot tell.                           *)
SyncedIsServed ==
    NeverRestored /\ sync = "synced" /\ ~overtaken => applied.want = row.want

(* The worker has nothing to do only where the loaded desired state is the  *)
(* applied one (the comparison of generations in process()).                *)
NoOpMeansApplied ==
    NeverRestored /\ pc = "reconcile" /\ goal.gen <= applied.gen
        => applied.want = goal.want

(* No wakeup is lost: a run that was not killed has loaded every generation *)
(* requested so far, or a request is waiting for the next run, which the    *)
(* path unit starts (claim_request renames the file before the load).       *)
WakeupIsKept ==
    NeverRestored /\ pc \notin {"claimed", "died"}
        => request # None \/ published <= goal.gen

(* The applied generation of the row is never ahead of its desired one      *)
(* (generation_relationship_valid of a database snapshot), restored or not. *)
GenerationsInOrder == row.applied <= row.gen

(* In the end the row reports what has become of the last edit: applied, or *)
(* failed where its contents are refused by every validation.               *)
StatusTellsOutcome ==
    IF row.want \in Invalid THEN row.status = "failed" ELSE row.status = "applied"

(* So it is for a database that was not restored and a worker that did not  *)
(* die between the outcome of the last generation and its report to the row *)
(* (a run that finds its generation applied reports nothing).               *)
StatusConverges == <>[](StatusTellsOutcome \/ lost = row.gen \/ ~NeverRestored)

(* In the end runtime_user_sync is about the last edit, for a restored      *)
(* database too: every run observes, the one that has nothing to do as well,*)
(* and puts right what a run that was overtaken by a commit wrote over its  *)
(* marks.  Except where the last edit cannot be planned: what was written   *)
(* over the marks of such an edit stays.                                    *)
SyncTellsOutcome ==
    row.want \notin Invalid =>
        sync = IF row.want = {} THEN "none"
               ELSE IF applied.want = row.want THEN "synced" ELSE "off"
SyncConverges == <>[]SyncTellsOutcome

=============================================================================
