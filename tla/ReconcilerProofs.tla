--------------------------- MODULE ReconcilerProofs ---------------------------
(* Theorems about the reconcile transaction for every number of cores, every  *)
(* set of fragments and every bound on generations and failures.              *)
EXTENDS Reconciler, TLAPS, FiniteSetTheorems, WellFoundedInduction

(* What activation leaves of a core is again a service.                       *)
LEMMA ActivatedType ==
    ASSUME svc \in [Cores -> Service], NEW c \in Cores
    PROVE  Activated(c) \in Service
  BY DEF Activated, Service

(* What a goal asks of a core is a configuration.                             *)
LEMMA WantType ==
    ASSUME goal \in DesiredState, NEW c \in Cores
    PROVE  goal.want[c] \in {None} \cup Config
  BY DEF DesiredState

(* Replacing one core's file leaves services.                                 *)
LEMMA InstalledType ==
    ASSUME svc \in [Cores -> Service], NEW c \in Cores, NEW f \in {None} \cup Config
    PROVE  [svc EXCEPT ![c].file = f] \in [Cores -> Service]
<1>1. svc[c] \in Service
  OBVIOUS
<1>2. [svc[c] EXCEPT !.file = f] \in Service
  BY <1>1 DEF Service
<1>3. QED
  BY <1>2

(* So does changing one core's unit and process.                              *)
LEMMA SwitchedType ==
    ASSUME svc \in [Cores -> Service], NEW c \in Cores,
           NEW e \in BOOLEAN, NEW r \in {None} \cup Config
    PROVE  [svc EXCEPT ![c].enabled = e, ![c].running = r] \in [Cores -> Service]
<1>1. svc[c] \in Service
  OBVIOUS
<1>2. [svc[c] EXCEPT !.enabled = e, !.running = r] \in Service
  BY <1>1 DEF Service
<1>3. [svc EXCEPT ![c].enabled = e, ![c].running = r]
        = [svc EXCEPT ![c] = [svc[c] EXCEPT !.enabled = e, !.running = r]]
  OBVIOUS
<1>4. QED
  BY <1>2, <1>3

(* What a snapshot gives back is a service.                                   *)
LEMMA RestoredType ==
    ASSUME NEW b \in Snapshot
    PROVE  RestoredFrom(b) \in Service
  BY DEF RestoredFrom, Snapshot, Service

(* Wherever rollback_config stops, it leaves a service.                       *)
LEMMA PartlyRestoredType ==
    ASSUME svc \in [Cores -> Service], snap \in [Cores -> {None} \cup Snapshot],
           NEW c \in Cores
    PROVE  PartlyRestored(c) \subseteq Service
<1>1. CASE snap[c] = None
  BY <1>1 DEF PartlyRestored
<1>2. CASE snap[c] # None
  <2>1. snap[c] \in Snapshot /\ svc[c] \in Service
    BY <1>2
  <2>2. RestoredFrom(snap[c]) \in Service
    BY <2>1, RestoredType
  <2>3. /\ [svc[c] EXCEPT !.file = snap[c].file] \in Service
        /\ [svc[c] EXCEPT !.file = snap[c].file, !.enabled = snap[c].enabled] \in Service
    BY <2>1 DEF Service, Snapshot
  <2>4. [RestoredFrom(snap[c]) EXCEPT !.running = None] \in Service
    BY <2>2 DEF Service
  <2>5. QED
    BY <2>1, <2>2, <2>3, <2>4 DEF PartlyRestored
<1>3. QED
  BY <1>1, <1>2

(* The program starts, on an empty state directory, with well-typed state.    *)
LEMMA TypeInitially == Init => TypeOK
<1> USE ConstantsAssumption DEF TypeOK, DesiredState, AppliedState, JournalEntry
<1>1. NoWant \in [Cores -> Config] /\ NoSnapshots \in [Cores -> {None} \cup Snapshot]
  BY DEF NoWant, NoSnapshots, Config
<1>2. Untouched \in [Cores -> Resource]
  BY DEF Untouched, Resource
<1>3. [c \in Cores |-> [file |-> None, enabled |-> FALSE, running |-> None]]
        \in [Cores -> Service]
  BY DEF Service
<1>4. /\ [gen |-> 0, want |-> NoWant] \in DesiredState
      /\ [gen |-> 0, active |-> {}] \in AppliedState
  BY <1>1
<1>5. [gen |-> 0, prev |-> 0, prevActive |-> {}, phase |-> "Prepared",
       status |-> "None", res |-> Untouched] \in JournalEntry
  BY <1>2 DEF Statuses, Phases
<1>6. 0 \in 0..MaxFaults /\ "idle" \in PCs
  BY DEF PCs
<1>7. QED
  BY <1>1, <1>3, <1>4, <1>5, <1>6 DEF Init

(* Every step of the worker, the panel and the host keeps the types.          *)
LEMMA TypePreserved == ASSUME TypeOK, [Next]_vars PROVE TypeOK'
<1> USE ConstantsAssumption DEF TypeOK, DesiredState, AppliedState, JournalEntry
<1>1. CASE Load
  BY <1>1 DEF Load, durable, history, PCs
<1>2. CASE PublishMarker
  BY <1>2 DEF PublishMarker, memory, history, PCs
<1>3. CASE RecoverNothing
  BY <1>3 DEF RecoverNothing, memory, history, Cleanup, NoSnapshots, PCs
<1>4. CASE RecoverAdopt
  BY <1>4 DEF RecoverAdopt, memory, history, Cleanup, NoSnapshots, PCs, Statuses, Phases
<1>5. CASE RecoverDiscard
  BY <1>5 DEF RecoverDiscard, memory, history, Cleanup, NoSnapshots, PCs, Statuses
<1>6. CASE RecoverBegin
  BY <1>6 DEF RecoverBegin, history, Mutated, PCs, Statuses, Phases
<1>7. CASE Done
  BY <1>7 DEF Done, durable, memory, history, PCs
<1>8. CASE Begin
  BY <1>8 DEF Begin, memory, Untouched, Resource, PCs, Statuses, Phases
<1>9. CASE Plan
  BY <1>9 DEF Plan, memory, history, NoSnapshots, PCs, Statuses
<1>10. CASE RefuseListeners
  BY <1>10 DEF RefuseListeners, memory, history, Cleanup, NoSnapshots, PCs, Statuses
<1>11. CASE Stage
  BY <1>11 DEF Stage, memory, history, PCs, Phases
<1>12. CASE Validate
  BY <1>12 DEF Validate, memory, history, PCs, Phases
<1>13. CASE AllSnapshotted
  BY <1>13 DEF AllSnapshotted, memory, history, PCs, Phases
<1>14. CASE CheckFresh
  BY <1>14 DEF CheckFresh, memory, history, Cleanup, NoSnapshots, PCs, Statuses
<1>15. CASE BeginPublish
  BY <1>15 DEF BeginPublish, memory, history, PCs, Phases
<1>16. CASE Publish
  BY <1>16 DEF Publish, memory, Planned, PCs
<1>17. CASE Finish
  BY <1>17 DEF Finish, memory, history, Cleanup, NoSnapshots, PCs, Statuses, Phases
<1>18. CASE RollbackBegin
  BY <1>18 DEF RollbackBegin, history, Mutated, PCs, Statuses, Phases
<1>19. CASE UndoEnd
  BY <1>19 DEF UndoEnd, UndoOutcome, history, Cleanup, NoSnapshots, PCs, Statuses, Phases
<1>20. CASE RefuseUnsupported
  BY <1>20 DEF RefuseUnsupported, Fault, memory, history, PCs, Statuses
<1>21. CASE FailWithoutMutation
  BY <1>21 DEF FailWithoutMutation, Fault, memory, history, Cleanup, NoSnapshots, PCs, Statuses
<1>22. CASE Crash
  <2>1. pc' \in PCs /\ todo' \in SUBSET Cores /\ undoFailed' \in BOOLEAN
    BY <1>22 DEF Crash, PCs
  <2>2. faults' \in 0..MaxFaults
    BY <1>22 DEF Crash, Fault
  <2>3. UNCHANGED <<desired, durable, svc, goal, history>>
    BY <1>22 DEF Crash
  <2>4. QED
    BY <2>1, <2>2, <2>3 DEF durable, history
<1>23. CASE Panel
  BY <1>23 DEF Panel, Commit, durable, memory, history
<1>24. ASSUME NEW c \in Cores, TakeSnapshot(c) PROVE TypeOK'
  BY <1>24 DEF TakeSnapshot, SnapshotOf, Service, Snapshot, memory, history, Resource
<1>25. ASSUME NEW c \in Cores, MarkStarted(c) PROVE TypeOK'
  BY <1>25 DEF MarkStarted, memory, history, PCs, Resource
<1>26. ASSUME NEW c \in Cores, Install(c) PROVE TypeOK'
  <2>1. [svc EXCEPT ![c].file = goal.want[c]] \in [Cores -> Service]
    BY <1>26, WantType, InstalledType
  <2>2. QED
    BY <1>26, <2>1 DEF Install, memory, history, PCs, Phases
<1>27. ASSUME NEW c \in Cores, InstallFails(c) PROVE TypeOK'
  <2>1. [svc EXCEPT ![c].file = goal.want[c]] \in [Cores -> Service]
    BY <1>27, WantType, InstalledType
  <2>2. svc' \in [Cores -> Service]
    BY <1>27, <2>1 DEF InstallFails
  <2>3. QED
    BY <1>27, <2>2 DEF InstallFails, Fault, durable, memory, history, PCs
<1>28. ASSUME NEW c \in Cores, Activate(c) PROVE TypeOK'
  <2>1. svc' \in [Cores -> Service]
    BY <1>28, ActivatedType DEF Activate
  <2>2. QED
    BY <1>28, <2>1 DEF Activate, memory, history, PCs, Phases
<1>29. ASSUME NEW c \in Cores, ActivateFails(c) PROVE TypeOK'
  <2>1. svc' \in [Cores -> Service]
    <3>1. PICK e \in {svc[c].enabled, Activated(c).enabled},
               r \in {svc[c].running, None, Activated(c).running} :
                  svc' = [svc EXCEPT ![c].enabled = e, ![c].running = r]
      BY <1>29 DEF ActivateFails
    <3>2. e \in BOOLEAN /\ r \in {None} \cup Config
      BY ActivatedType DEF Service
    <3>3. QED
      BY <3>1, <3>2, SwitchedType
  <2>2. QED
    BY <1>29, <2>1 DEF ActivateFails, Fault, durable, memory, history, PCs
<1>30. ASSUME NEW c \in Cores, Verify(c) PROVE TypeOK'
  BY <1>30 DEF Verify, memory, history, PCs, Phases, Resource
<1>31. ASSUME NEW c \in Cores, VerifyRejects(c) PROVE TypeOK'
  BY <1>31 DEF VerifyRejects, durable, memory, history, PCs
<1>32. ASSUME NEW c \in Cores, VerifyFails(c) PROVE TypeOK'
  BY <1>32 DEF VerifyFails, Fault, durable, memory, history, PCs
<1>33. ASSUME NEW c \in Cores, Restore(c) PROVE TypeOK'
  BY <1>33 DEF Restore, Restorable, RestoredFrom, Service, Snapshot, durable, history
<1>34. ASSUME NEW c \in Cores, RestoreError(c), faults' \in 0..MaxFaults PROVE TypeOK'
  <2>1. svc' \in [Cores -> Service]
    BY <1>34, PartlyRestoredType DEF RestoreError
  <2>2. QED
    BY <1>34, <2>1 DEF RestoreError, durable, history
<1>35. ASSUME NEW c \in Cores, RestoreRejects(c) \/ RestoreFails(c) PROVE TypeOK'
  BY <1>34, <1>35 DEF RestoreRejects, RestoreFails, Fault
<1>36. CASE UNCHANGED vars
  BY <1>36 DEF vars
<1>37. QED
  BY <1>1, <1>2, <1>3, <1>4, <1>5, <1>6, <1>7, <1>8, <1>9, <1>10, <1>11, <1>12, <1>13,
     <1>14, <1>15, <1>16, <1>17, <1>18, <1>19, <1>20, <1>21, <1>22, <1>23, <1>24, <1>25,
     <1>26, <1>27, <1>28, <1>29, <1>30, <1>31, <1>32, <1>33, <1>35, <1>36
     DEF Next, WorkerStep, HostFault

(* The variables keep their types: what applied.json and journal.json hold    *)
(* can always be read back as an AppliedState and a JournalEntry.             *)
THEOREM TypeCorrect == Spec => []TypeOK
  BY TypeInitially, TypePreserved, PTL DEF Spec

-----------------------------------------------------------------------------
(* The inductive invariant behind UndoIsDurable.                              *)

(* A transaction starts from a journal without resources.                     *)
NothingJournaledYet ==
    pc = "plan" => journal.status = "Pending" /\ \A c \in Cores : journal.res[c] = "absent"

(* From the first staged candidate until the transaction is published or      *)
(* rolled back the durable status is Applying.                                *)
ApplyingWhileActive ==
    pc \in {"stage", "validate", "snapshot", "fresh", "mutate", "install", "activate",
            "verify", "publish", "finish", "rollback"} => journal.status = "Applying"

(* Compensation only touches resources the journal marks as mutated.          *)
UndoesMutatedOnly == pc = "undo" => todo \subseteq Mutated(journal)

WriteAheadInv ==
    /\ TypeOK
    /\ NothingJournaledYet
    /\ ApplyingWhileActive
    /\ UndoesMutatedOnly
    /\ UndoIsDurable

LEMMA WriteAheadInitially == Init => WriteAheadInv
  BY TypeInitially DEF Init, WriteAheadInv, NothingJournaledYet, ApplyingWhileActive,
     UndoesMutatedOnly, UndoIsDurable, AsBefore

LEMMA WriteAheadPreserved == ASSUME WriteAheadInv, [Next]_vars PROVE WriteAheadInv'
<1> USE DEF WriteAheadInv, NothingJournaledYet, ApplyingWhileActive, UndoesMutatedOnly,
            UndoIsDurable, AsBefore, Mutated
<1>0. TypeOK'
  BY TypePreserved
<1> USE <1>0
<1>1. CASE Load
  BY <1>1 DEF Load, durable, history
<1>2. CASE PublishMarker
  BY <1>2 DEF PublishMarker, memory, history
<1>3. CASE RecoverNothing
  BY <1>3 DEF RecoverNothing, Terminal, memory, history
<1>4. CASE RecoverAdopt
  BY <1>4 DEF RecoverAdopt, TypeOK, JournalEntry, memory, history
<1>5. CASE RecoverDiscard
  BY <1>5 DEF RecoverDiscard, TypeOK, JournalEntry, memory, history
<1>6. CASE RecoverBegin
  BY <1>6 DEF RecoverBegin, Interrupted, Terminal, Statuses, TypeOK, JournalEntry, history
<1>7. CASE Done
  BY <1>7 DEF Done, durable, memory, history
<1>8. CASE Begin
  BY <1>8 DEF Begin, Untouched, memory
<1>9. CASE Plan
  BY <1>9 DEF Plan, TypeOK, JournalEntry, memory, history
<1>10. CASE RefuseListeners
  BY <1>10 DEF RefuseListeners, TypeOK, JournalEntry, memory, history
<1>11. CASE Stage
  BY <1>11 DEF Stage, TypeOK, JournalEntry, memory, history
<1>12. CASE Validate
  BY <1>12 DEF Validate, TypeOK, JournalEntry, memory, history
<1>13. CASE AllSnapshotted
  BY <1>13 DEF AllSnapshotted, TypeOK, JournalEntry, memory, history
<1>14. CASE CheckFresh
  BY <1>14 DEF CheckFresh, TypeOK, JournalEntry, memory, history
<1>15. CASE BeginPublish
  BY <1>15 DEF BeginPublish, TypeOK, JournalEntry, memory, history
<1>16. CASE Publish
  BY <1>16 DEF Publish, memory
<1>17. CASE Finish
  BY <1>17 DEF Finish, TypeOK, JournalEntry, memory, history
<1>18. CASE RollbackBegin
  BY <1>18 DEF RollbackBegin, TypeOK, JournalEntry, history
<1>19. CASE UndoEnd
  BY <1>19 DEF UndoEnd, UndoOutcome, TypeOK, JournalEntry, history
<1>20. CASE RefuseUnsupported
  BY <1>20 DEF RefuseUnsupported, TypeOK, JournalEntry, memory, history
<1>21. CASE FailWithoutMutation
  BY <1>21 DEF FailWithoutMutation, TypeOK, JournalEntry, memory, history
<1>22. CASE Crash
  BY <1>22 DEF Crash, durable, history
<1>23. CASE Panel
  BY <1>23 DEF Panel, Commit, durable, memory, history
<1>24. ASSUME NEW c \in Cores, TakeSnapshot(c) PROVE WriteAheadInv'
  <2>1. journal.status = "Applying" /\ journal.res[c] = "absent"
    BY <1>24 DEF TakeSnapshot, First
  <2>2. svc[c] = before[c]
    BY <2>1
  <2>3. QED
    BY <1>24, <2>1, <2>2 DEF TakeSnapshot, TypeOK, JournalEntry, memory, history
<1>25. ASSUME NEW c \in Cores, MarkStarted(c) PROVE WriteAheadInv'
  BY <1>25 DEF MarkStarted, First, Waiting, TypeOK, JournalEntry, memory, history
<1>26. ASSUME NEW c \in Cores, Install(c) PROVE WriteAheadInv'
  BY <1>26 DEF Install, Current, TypeOK, JournalEntry, memory, history
<1>27. ASSUME NEW c \in Cores, InstallFails(c) PROVE WriteAheadInv'
  BY <1>27 DEF InstallFails, Current, TypeOK, durable, memory, history
<1>28. ASSUME NEW c \in Cores, Activate(c) PROVE WriteAheadInv'
  BY <1>28 DEF Activate, Current, TypeOK, JournalEntry, memory, history
<1>29. ASSUME NEW c \in Cores, ActivateFails(c) PROVE WriteAheadInv'
  BY <1>29 DEF ActivateFails, Current, TypeOK, durable, memory, history
<1>30. ASSUME NEW c \in Cores, Verify(c) PROVE WriteAheadInv'
  BY <1>30 DEF Verify, Current, TypeOK, JournalEntry, memory, history
<1>31. ASSUME NEW c \in Cores, VerifyRejects(c) \/ VerifyFails(c) PROVE WriteAheadInv'
  BY <1>31 DEF VerifyRejects, VerifyFails, durable, memory, history
<1>32. ASSUME NEW c \in Cores, Restore(c) PROVE WriteAheadInv'
  BY <1>32 DEF Restore, Last, TypeOK, durable, history
<1>33. ASSUME NEW c \in Cores, RestoreRejects(c) \/ RestoreFails(c) PROVE WriteAheadInv'
  BY <1>33 DEF RestoreRejects, RestoreFails, RestoreError, Last, TypeOK, durable, history
<1>34. CASE UNCHANGED vars
  BY <1>34 DEF vars
<1>35. QED
  BY <1>1, <1>2, <1>3, <1>4, <1>5, <1>6, <1>7, <1>8, <1>9, <1>10, <1>11, <1>12, <1>13,
     <1>14, <1>15, <1>16, <1>17, <1>18, <1>19, <1>20, <1>21, <1>22, <1>23, <1>24, <1>25,
     <1>26, <1>27, <1>28, <1>29, <1>30, <1>31, <1>32, <1>33, <1>34
     DEF Next, WorkerStep, HostFault

LEMMA WriteAheadInvariant == Spec => []WriteAheadInv
  BY WriteAheadInitially, WriteAheadPreserved, PTL DEF Spec

(* Whenever the worker dies, what it changed can be found and given back:     *)
(* reconcile() journals before it mutates, and nothing removes a snapshot     *)
(* while its transaction may still have to be undone.                         *)
THEOREM WriteAhead == Spec => []UndoIsDurable
<1>1. WriteAheadInv => UndoIsDurable
  BY DEF WriteAheadInv
<1>2. QED
  BY <1>1, WriteAheadInvariant, PTL

-----------------------------------------------------------------------------
(* The inductive invariant behind UnappliedIsUntouched, AppliedIsServed and   *)
(* UndoNeverBlocked, as long as the worker does not die while rollback()      *)
(* restores.                                                                  *)

Preparing == {"plan", "stage", "validate", "snapshot", "fresh"}
Live      == {"mutate", "install", "activate", "verify"}
Forward   == Preparing \cup Live \cup {"publish"}

(* Which statuses a step finds; no settled journal is ahead of applied.json.  *)
StatusFits ==
    /\ pc = "ready" => journal.status \in Terminal \cup {"None"}
    /\ pc = "undo" => journal.status \in {"Applying", "Failed"}
    /\ journal.status \in {"Applied", "None"} => applied.gen = journal.gen

(* A transaction is about the loaded generation, newer than the applied one,  *)
(* and reaches applied.json in one step; one that is undone never was there.  *)
OwnGeneration ==
    /\ pc \in Forward \cup {"rollback", "undo"} => applied.gen # journal.gen
    /\ pc = "finish" => applied.gen = journal.gen
    /\ pc \in Forward => /\ journal.gen = goal.gen /\ applied.gen < goal.gen
                          /\ journal.prevActive = applied.active
    /\ applied.active = {c \in Cores : servedWant[c] # {}}

(* Only plans without a listener claimed twice go on.                         *)
PlansAreDistinct ==
    /\ ListenersDistinct(servedWant)
    /\ pc \in Forward \ {"plan"} => ListenersDistinct(goal.want)

(* What the journal says of the planned cores at each step.                   *)
ResourcesFit ==
    /\ pc \in Preparing => \A c \in Cores : journal.res[c] \in {"absent", "snapshotted"}
    /\ pc \in Forward => \A c \in Cores : journal.res[c] # "absent" => c \in Planned
    /\ pc \in {"fresh", "publish"} \cup Live => \A c \in Planned : journal.res[c] # "absent"
    /\ pc \in {"mutate", "publish"} \/ applied.gen = journal.gen =>
          \A c \in Cores : journal.res[c] # "started"
    /\ pc = "publish" => \A c \in Cores : journal.res[c] # "snapshotted"

(* Cores are mutated one after the other in their order.                      *)
MutatedInOrder ==
    pc \in Live => \A c, d \in Cores :
        /\ c \in Mutated(journal) /\ journal.res[d] = "snapshotted" => c < d
        /\ journal.res[c] = "started" /\ d \in Mutated(journal) => d <= c

(* What Serves says, of a given state of a core.                              *)
Runs(s, config) ==
    IF config = {} THEN ~s.enabled /\ s.running = None
    ELSE s = [file |-> config, enabled |-> TRUE, running |-> config]

(* What the host does for the core that is worked on and those verified.      *)
CoresFollow ==
    \A c \in Cores :
        /\ pc \in Live \cup {"publish"} /\ journal.res[c] = "verified"
              => Runs(svc[c], goal.want[c])
        /\ pc \in {"activate", "verify"} /\ journal.res[c] = "started"
              => svc[c].file = goal.want[c]
        /\ pc = "verify" /\ journal.res[c] = "started" =>
              IF goal.want[c] = {} THEN ~svc[c].enabled /\ svc[c].running = None
              ELSE svc[c].enabled /\ svc[c].running \in {None, goal.want[c]}

(* What the applied generation asks for is served, or was when the            *)
(* transaction began that is under way or undone; and until it is published,  *)
(* no core takes a listener from a later one.                                 *)
Yields(c, d) == Bound(d) \cap ListenersOf(before[c].running) = {}
HostFits ==
    IF applied.gen = journal.gen
    THEN \A c \in Cores : Runs(svc[c], servedWant[c])
    ELSE /\ \A c \in Cores : Runs(before[c], servedWant[c])
         /\ \A c, d \in Cores : d < c => Yields(c, d)

UndoneSoFar == pc = "undo" /\ ~undoFailed => \A c \in Cores \ todo : AsBefore(c)

TransactionInv ==
    /\ WriteAheadInv
    /\ StatusFits /\ OwnGeneration /\ PlansAreDistinct /\ ResourcesFit
    /\ MutatedInOrder /\ CoresFollow /\ HostFits /\ UndoneSoFar
    /\ UnappliedIsUntouched

LEMMA TransactionInitially == Init => TransactionInv
<1> SUFFICES ASSUME Init PROVE TransactionInv
  OBVIOUS
<1>1. WriteAheadInv
  BY WriteAheadInitially
<1>2. /\ pc = "idle" /\ applied.gen = 0 /\ journal.gen = 0 /\ journal.status = "None"
      /\ applied.active = {} /\ servedWant = NoWant
      /\ \A c \in Cores : journal.res[c] = "absent"
  BY DEF Init, Untouched
<1>3. \A c \in Cores : Runs(svc[c], servedWant[c])
  BY DEF Init, NoWant, Runs
<1>4. ListenersDistinct(servedWant)
  BY <1>2 DEF NoWant, ListenersDistinct
<1>5. QED
  BY <1>1, <1>2, <1>3, <1>4
     DEF TransactionInv, StatusFits, OwnGeneration, PlansAreDistinct, ResourcesFit,
         MutatedInOrder, CoresFollow, HostFits, UndoneSoFar, UnappliedIsUntouched, NoWant,
         Preparing, Live, Forward

LEMMA StatusStep ==
    ASSUME WriteAheadInv, StatusFits, OwnGeneration, [Next]_vars
    PROVE  StatusFits'
<1> USE DEF StatusFits, WriteAheadInv, ApplyingWhileActive, TypeOK, JournalEntry, Terminal
<1>1. ASSUME Load \/ PublishMarker \/ RecoverNothing \/ Done \/ Panel \/ Crash \/ UNCHANGED vars
      PROVE  StatusFits'
  BY <1>1 DEF Load, PublishMarker, RecoverNothing, Done, Panel, Commit, Crash, vars, durable, memory
<1>2. ASSUME RecoverAdopt \/ RecoverDiscard \/ RecoverBegin \/ Begin \/ Plan
      PROVE  StatusFits'
  <2>1. CASE RecoverAdopt
    BY <2>1 DEF RecoverAdopt, ProvenPublished
  <2>2. CASE RecoverDiscard \/ RecoverBegin \/ Plan
    BY <2>2 DEF RecoverDiscard, RecoverBegin, Plan
  <2>3. CASE Begin
    BY <2>3 DEF Begin
  <2>4. QED
    BY <1>2, <2>1, <2>2, <2>3
<1>3. ASSUME RefuseUnsupported \/ RefuseListeners \/ FailWithoutMutation \/ CheckFresh
      PROVE  StatusFits'
  BY <1>3 DEF RefuseUnsupported, RefuseListeners, FailWithoutMutation, CheckFresh
<1>4. ASSUME Stage \/ Validate \/ AllSnapshotted \/ BeginPublish \/ RollbackBegin
      PROVE  StatusFits'
  BY <1>4 DEF Stage, Validate, AllSnapshotted, BeginPublish, RollbackBegin
<1>5. ASSUME Publish PROVE StatusFits'
  BY <1>5 DEF Publish
<1>6. ASSUME Finish PROVE StatusFits'
  BY <1>6 DEF Finish, OwnGeneration
<1>7. ASSUME UndoEnd PROVE StatusFits'
  BY <1>7 DEF UndoEnd, UndoOutcome
<1>8. ASSUME NEW c \in Cores,
             \/ TakeSnapshot(c) \/ MarkStarted(c) \/ Install(c) \/ InstallFails(c)
             \/ Activate(c) \/ ActivateFails(c) \/ Verify(c) \/ VerifyRejects(c) \/ VerifyFails(c)
             \/ Restore(c) \/ RestoreRejects(c) \/ RestoreFails(c)
      PROVE  StatusFits'
  BY <1>8 DEF TakeSnapshot, MarkStarted, Install, InstallFails, Activate, ActivateFails, Verify,
     VerifyRejects, VerifyFails, Restore, RestoreRejects, RestoreFails, RestoreError, durable
<1>9. QED
  BY <1>1, <1>2, <1>3, <1>4, <1>5, <1>6, <1>7, <1>8 DEF Next, WorkerStep, HostFault

LEMMA GenerationStep ==
    ASSUME WriteAheadInv, StatusFits, OwnGeneration, ResourcesFit, [Next]_vars
    PROVE  OwnGeneration'
<1> USE DEF OwnGeneration, WriteAheadInv, TypeOK, JournalEntry, AppliedState, DesiredState,
        Forward, Preparing, Live
<1>1. ASSUME Load \/ PublishMarker \/ RecoverNothing \/ Done \/ Panel \/ Crash \/ UNCHANGED vars
      PROVE  OwnGeneration'
  BY <1>1 DEF Load, PublishMarker, RecoverNothing, Done, Panel, Commit, Crash, vars, durable,
     memory, history
<1>2. ASSUME RecoverAdopt \/ RecoverDiscard PROVE OwnGeneration'
  BY <1>2 DEF RecoverAdopt, RecoverDiscard, history, memory
<1>3. ASSUME RecoverBegin PROVE OwnGeneration'
  <2>1. PICK c \in Cores : journal.res[c] \in {"started", "verified"}
    BY <1>3 DEF RecoverBegin, Mutated
  <2>2. applied.gen # journal.gen
    BY <1>3, <2>1 DEF RecoverBegin, ProvenPublished, ResourcesFit, Mutated
  <2>3. QED
    BY <1>3, <2>2 DEF RecoverBegin, history
<1>4. ASSUME Begin PROVE OwnGeneration'
  <2>1. goal.gen \in Nat /\ applied.gen \in Nat
    BY ConstantsAssumption
  <2>2. /\ applied' = applied /\ goal' = goal /\ servedWant' = servedWant
        /\ goal.gen # applied.gen /\ applied.gen < goal.gen
    BY <1>4, <2>1 DEF Begin, memory
  <2>3. CASE journal.status \in {"Applying", "RecoveryRequired"}
    BY <1>4, <2>2, <2>3 DEF Begin
  <2>4. CASE journal.status \notin {"Applying", "RecoveryRequired"}
    <3>1. pc' = "plan" /\ journal'.gen = goal.gen /\ journal'.prevActive = applied.active
      BY <1>4, <2>4 DEF Begin
    <3>2. QED
      BY <2>2, <3>1
  <2>5. QED
    BY <2>3, <2>4
<1>5. ASSUME Plan \/ RefuseUnsupported \/ RefuseListeners \/ FailWithoutMutation \/ CheckFresh
      PROVE  OwnGeneration'
  BY <1>5 DEF Plan, RefuseUnsupported, RefuseListeners, FailWithoutMutation, CheckFresh, history,
     memory
<1>6. ASSUME Stage \/ Validate \/ AllSnapshotted \/ BeginPublish \/ RollbackBegin \/ Finish
      PROVE  OwnGeneration'
  BY <1>6 DEF Stage, Validate, AllSnapshotted, BeginPublish, RollbackBegin, Finish, history, memory
<1>7. ASSUME Publish PROVE OwnGeneration'
  BY <1>7 DEF Publish, Planned, memory
<1>8. ASSUME UndoEnd PROVE OwnGeneration'
  BY <1>8 DEF UndoEnd, UndoOutcome, history
<1>9. ASSUME NEW c \in Cores,
             \/ TakeSnapshot(c) \/ MarkStarted(c) \/ Install(c) \/ InstallFails(c)
             \/ Activate(c) \/ ActivateFails(c) \/ Verify(c) \/ VerifyRejects(c) \/ VerifyFails(c)
      PROVE  OwnGeneration'
  BY <1>9 DEF TakeSnapshot, MarkStarted, Install, InstallFails, Activate, ActivateFails, Verify,
     VerifyRejects, VerifyFails, durable, memory, history
<1>10. ASSUME NEW c \in Cores, Restore(c) \/ RestoreRejects(c) \/ RestoreFails(c)
      PROVE  OwnGeneration'
  BY <1>10 DEF Restore, RestoreRejects, RestoreFails, RestoreError, durable, history
<1>11. QED
  BY <1>1, <1>2, <1>3, <1>4, <1>5, <1>6, <1>7, <1>8, <1>9, <1>10 DEF Next, WorkerStep, HostFault

LEMMA PlansStep ==
    ASSUME WriteAheadInv, PlansAreDistinct, [Next]_vars
    PROVE  PlansAreDistinct'
<1> USE DEF PlansAreDistinct, Forward, Preparing, Live
<1>1. ASSUME Load \/ PublishMarker \/ RecoverNothing \/ Done \/ Panel \/ Crash \/ UNCHANGED vars
      PROVE  PlansAreDistinct'
  BY <1>1 DEF Load, PublishMarker, RecoverNothing, Done, Panel, Commit, Crash, vars, durable,
     memory, history
<1>2. ASSUME RecoverAdopt \/ RecoverDiscard \/ RecoverBegin \/ Begin \/ Plan \/ RefuseUnsupported
             \/ RefuseListeners \/ FailWithoutMutation \/ CheckFresh
      PROVE  PlansAreDistinct'
  BY <1>2 DEF RecoverAdopt, RecoverDiscard, RecoverBegin, Begin, Plan, RefuseUnsupported,
     RefuseListeners, FailWithoutMutation, CheckFresh, history, memory
<1>3. ASSUME Stage \/ Validate \/ AllSnapshotted \/ BeginPublish \/ RollbackBegin \/ Finish \/ UndoEnd
      PROVE  PlansAreDistinct'
  BY <1>3 DEF Stage, Validate, AllSnapshotted, BeginPublish, RollbackBegin, Finish, UndoEnd,
     history, memory
<1>4. ASSUME Publish PROVE PlansAreDistinct'
  BY <1>4 DEF Publish, memory
<1>5. ASSUME NEW c \in Cores,
             \/ TakeSnapshot(c) \/ MarkStarted(c) \/ Install(c) \/ InstallFails(c)
             \/ Activate(c) \/ ActivateFails(c) \/ Verify(c) \/ VerifyRejects(c) \/ VerifyFails(c)
             \/ Restore(c) \/ RestoreRejects(c) \/ RestoreFails(c)
      PROVE  PlansAreDistinct'
  BY <1>5 DEF TakeSnapshot, MarkStarted, Install, InstallFails, Activate, ActivateFails, Verify,
     VerifyRejects, VerifyFails, Restore, RestoreRejects, RestoreFails, RestoreError, memory,
     history
<1>6. QED
  BY <1>1, <1>2, <1>3, <1>4, <1>5 DEF Next, WorkerStep, HostFault

LEMMA ResourcesStep ==
    ASSUME WriteAheadInv, StatusFits, OwnGeneration, OwnGeneration', ResourcesFit,
           MutatedInOrder, [Next]_vars
    PROVE  ResourcesFit'
<1> USE DEF ResourcesFit, WriteAheadInv, TypeOK, JournalEntry, Resource, Planned, Forward,
        Preparing, Live
<1>1. ASSUME Load \/ PublishMarker \/ RecoverNothing \/ Done \/ Panel \/ Crash \/ UNCHANGED vars
      PROVE  ResourcesFit'
  BY <1>1 DEF Load, PublishMarker, RecoverNothing, Done, Panel, Commit, Crash, vars, durable,
     memory
<1>2. ASSUME RecoverAdopt \/ RecoverDiscard \/ RecoverBegin PROVE ResourcesFit'
  BY <1>2 DEF RecoverAdopt, RecoverDiscard, RecoverBegin, memory
<1>3. ASSUME Begin PROVE ResourcesFit'
  <2>1. CASE journal' = journal /\ pc' = "idle"
    BY <1>3, <2>1 DEF Begin
  <2>2. CASE pc' = "plan" /\ \A c \in Cores : journal'.res[c] = "absent"
    BY <1>3, <2>2 DEF Begin
  <2>3. QED
    BY <1>3, <2>1, <2>2 DEF Begin, Untouched
<1>4. ASSUME Plan \/ RefuseUnsupported \/ RefuseListeners \/ FailWithoutMutation
      PROVE  ResourcesFit'
  BY <1>4 DEF Plan, RefuseUnsupported, RefuseListeners, FailWithoutMutation, memory
<1>5. ASSUME Stage \/ Validate \/ AllSnapshotted PROVE ResourcesFit'
  BY <1>5 DEF Stage, Validate, AllSnapshotted, memory
<1>6. ASSUME CheckFresh PROVE ResourcesFit'
  BY <1>6 DEF CheckFresh, memory
<1>7. ASSUME BeginPublish PROVE ResourcesFit'
  BY <1>7 DEF BeginPublish, Waiting, memory
<1>8. ASSUME Publish PROVE ResourcesFit'
  BY <1>8 DEF Publish, memory
<1>9. ASSUME Finish \/ RollbackBegin PROVE ResourcesFit'
  BY <1>9 DEF Finish, RollbackBegin, memory
<1>10. ASSUME UndoEnd PROVE ResourcesFit'
  BY <1>10 DEF UndoEnd, OwnGeneration
<1>11. ASSUME NEW c \in Cores, TakeSnapshot(c) PROVE ResourcesFit'
  BY <1>11 DEF TakeSnapshot, First, memory
<1>12. ASSUME NEW c \in Cores, MarkStarted(c) PROVE ResourcesFit'
  BY <1>12 DEF MarkStarted, First, Waiting, OwnGeneration, memory
<1>13. ASSUME NEW c \in Cores, Install(c) \/ Activate(c) PROVE ResourcesFit'
  BY <1>13 DEF Install, Activate, memory
<1>14. ASSUME NEW c \in Cores,
              \/ InstallFails(c) \/ ActivateFails(c) \/ VerifyRejects(c) \/ VerifyFails(c)
              \/ Restore(c) \/ RestoreRejects(c) \/ RestoreFails(c)
      PROVE  ResourcesFit'
  BY <1>14 DEF InstallFails, ActivateFails, VerifyRejects, VerifyFails, Restore, RestoreRejects,
     RestoreFails, RestoreError, durable, memory
<1>15. ASSUME NEW c \in Cores, Verify(c) PROVE ResourcesFit'
  <2>1. \A d \in Cores \ {c} : journal.res[d] # "started"
    BY <1>15, ConstantsAssumption DEF Verify, Current, MutatedInOrder, Mutated, Cores
  <2>2. journal.res[c] = "started" /\ pc = "verify"
    BY <1>15 DEF Verify, Current
  <2>3. \A d \in Cores : journal'.res[d] = IF d = c THEN "verified" ELSE journal.res[d]
    BY <1>15 DEF Verify
  <2>4. QED
    BY <1>15, <2>1, <2>2, <2>3 DEF Verify, OwnGeneration, memory
<1>16. QED
  BY <1>1, <1>2, <1>3, <1>4, <1>5, <1>6, <1>7, <1>8, <1>9, <1>10, <1>11, <1>12, <1>13, <1>14,
     <1>15 DEF Next, WorkerStep, HostFault

LEMMA OrderStep ==
    ASSUME WriteAheadInv, ResourcesFit, MutatedInOrder, [Next]_vars
    PROVE  MutatedInOrder'
<1> USE ConstantsAssumption
    DEF MutatedInOrder, WriteAheadInv, TypeOK, JournalEntry, Resource, Mutated, Preparing, Live
<1>1. ASSUME \/ Load \/ PublishMarker \/ RecoverNothing \/ RecoverAdopt \/ RecoverDiscard
             \/ RecoverBegin \/ Done \/ Begin \/ Plan \/ RefuseUnsupported \/ RefuseListeners
             \/ FailWithoutMutation \/ Stage \/ Validate \/ AllSnapshotted \/ Publish \/ Finish
             \/ RollbackBegin \/ UndoEnd \/ Crash
      PROVE  MutatedInOrder'
  BY <1>1 DEF Load, PublishMarker, RecoverNothing, RecoverAdopt, RecoverDiscard, RecoverBegin,
     Done, Begin, Plan, RefuseUnsupported, RefuseListeners, FailWithoutMutation, Stage, Validate,
     AllSnapshotted, Publish, Finish, RollbackBegin, UndoEnd, Crash
<1>2. ASSUME Panel \/ UNCHANGED vars PROVE MutatedInOrder'
  BY <1>2 DEF Panel, Commit, vars, durable
<1>3. ASSUME CheckFresh PROVE MutatedInOrder'
  BY <1>3 DEF CheckFresh, ResourcesFit
<1>4. ASSUME BeginPublish PROVE MutatedInOrder'
  BY <1>4 DEF BeginPublish
<1>5. ASSUME NEW c \in Cores, MarkStarted(c) PROVE MutatedInOrder'
  <2>1. /\ pc = "mutate" /\ journal.res[c] = "snapshotted"
        /\ \A d \in Cores : journal'.res[d] = IF d = c THEN "started" ELSE journal.res[d]
    BY <1>5 DEF MarkStarted, First, Waiting
  <2>2. \A d \in Cores : journal.res[d] = "snapshotted" => c <= d
    <3>1. \A d \in Cores : journal.res[d] = "snapshotted" => d \in Waiting
      BY <2>1 DEF Waiting, ResourcesFit, Forward
    <3>2. QED
      BY <1>5, <3>1 DEF MarkStarted, First
  <2>3. \A d \in Cores : journal.res[d] # "started"
    BY <2>1 DEF ResourcesFit
  <2>4. QED
    BY <2>1, <2>2, <2>3 DEF Cores
<1>6. ASSUME NEW c \in Cores, Install(c) \/ Activate(c) PROVE MutatedInOrder'
  BY <1>6 DEF Install, Activate
<1>7. ASSUME NEW c \in Cores, Verify(c) PROVE MutatedInOrder'
  <2>1. /\ pc = "verify" /\ journal.res[c] = "started"
        /\ \A d \in Cores : journal'.res[d] = IF d = c THEN "verified" ELSE journal.res[d]
    BY <1>7 DEF Verify, Current
  <2>2. QED
    BY <2>1
<1>8. ASSUME NEW c \in Cores,
             \/ TakeSnapshot(c) \/ InstallFails(c) \/ ActivateFails(c) \/ VerifyRejects(c)
             \/ VerifyFails(c) \/ Restore(c) \/ RestoreRejects(c) \/ RestoreFails(c)
      PROVE  MutatedInOrder'
  BY <1>8 DEF TakeSnapshot, InstallFails, ActivateFails, VerifyRejects, VerifyFails, Restore,
     RestoreRejects, RestoreFails, RestoreError, durable
<1>9. QED
  BY <1>1, <1>2, <1>3, <1>4, <1>5, <1>6, <1>7, <1>8 DEF Next, WorkerStep, HostFault

(* A core that passed healthcheck and verify_listeners runs what is asked.    *)
LEMMA VerifiedRuns ==
    ASSUME TypeOK, CoresFollow, NEW c \in Cores, Verify(c)
    PROVE  Runs(svc[c], goal.want[c])
<1>1. /\ pc = "verify" /\ journal.res[c] = "started" /\ svc[c] \in Service
      /\ goal.want[c] # {} => svc[c].running # None
  BY DEF Verify, Current, Healthy, TypeOK
<1>2. CASE goal.want[c] = {}
  BY <1>1, <1>2 DEF CoresFollow, Runs
<1>3. CASE goal.want[c] # {}
  <2>1. svc[c].file = goal.want[c] /\ svc[c].enabled = TRUE /\ svc[c].running = goal.want[c]
    BY <1>1, <1>3 DEF CoresFollow, Service
  <2>2. QED
    BY <1>1, <1>3, <2>1 DEF Runs, Service
<1>4. QED
  BY <1>2, <1>3

LEMMA CoresStep ==
    ASSUME WriteAheadInv, ResourcesFit, MutatedInOrder, CoresFollow, [Next]_vars
    PROVE  CoresFollow'
<1> USE DEF CoresFollow, WriteAheadInv, Preparing, Live
<1>1. ASSUME \/ Load \/ PublishMarker \/ RecoverNothing \/ RecoverAdopt \/ RecoverDiscard
             \/ RecoverBegin \/ Done \/ Begin \/ Plan \/ RefuseUnsupported \/ RefuseListeners
             \/ FailWithoutMutation \/ Stage \/ Validate \/ AllSnapshotted \/ Publish \/ Finish
             \/ RollbackBegin \/ UndoEnd \/ Crash
      PROVE  CoresFollow'
  BY <1>1 DEF Load, PublishMarker, RecoverNothing, RecoverAdopt, RecoverDiscard, RecoverBegin,
     Done, Begin, Plan, RefuseUnsupported, RefuseListeners, FailWithoutMutation, Stage, Validate,
     AllSnapshotted, Publish, Finish, RollbackBegin, UndoEnd, Crash
<1>2. ASSUME Panel \/ UNCHANGED vars PROVE CoresFollow'
  BY <1>2 DEF Panel, Commit, vars, durable, memory
<1>3. ASSUME CheckFresh PROVE CoresFollow'
  BY <1>3 DEF CheckFresh, ResourcesFit
<1>4. ASSUME BeginPublish PROVE CoresFollow'
  BY <1>4 DEF BeginPublish, memory, TypeOK, JournalEntry
<1>5. ASSUME NEW c \in Cores, MarkStarted(c) PROVE CoresFollow'
  BY <1>5 DEF MarkStarted, memory, TypeOK, JournalEntry
<1>6. ASSUME NEW c \in Cores, Install(c) \/ Activate(c)
      PROVE  \A d \in Cores : /\ journal'.res[d] = journal.res[d]
                              /\ journal.res[d] = "started" => d = c
                              /\ d # c => svc'[d] = svc[d]
  <2>1. \A d \in Cores : journal.res[d] = "started" => d = c
    BY <1>6, ConstantsAssumption DEF Install, Activate, Current, MutatedInOrder, Mutated, Cores
  <2>2. QED
    BY <1>6, <2>1 DEF Install, Activate, TypeOK, JournalEntry
<1>7. ASSUME NEW c \in Cores, Install(c) PROVE CoresFollow'
  <2>1. svc'[c].file = goal.want[c] /\ pc' = "activate" /\ goal' = goal /\ pc = "install"
    BY <1>7 DEF Install, TypeOK, Service, memory
  <2>2. journal.res[c] = "started"
    BY <1>7 DEF Install, Current
  <2>3. QED
    BY <1>6, <1>7, <2>1, <2>2
<1>8. ASSUME NEW c \in Cores, Activate(c) PROVE CoresFollow'
  <2>1. svc'[c] = Activated(c) /\ pc' = "verify" /\ goal' = goal /\ pc = "activate"
    BY <1>8 DEF Activate, TypeOK, memory
  <2>2. journal.res[c] = "started" /\ svc[c].file = goal.want[c] /\ svc[c] \in Service
    BY <1>8 DEF Activate, Current, TypeOK
  <2>3. /\ Activated(c).file = goal.want[c]
        /\ IF goal.want[c] = {} THEN ~Activated(c).enabled /\ Activated(c).running = None
           ELSE Activated(c).enabled /\ Activated(c).running \in {None, goal.want[c]}
    BY <2>2 DEF Activated, Service
  <2>4. QED
    BY <1>6, <1>8, <2>1, <2>2, <2>3
<1>9. ASSUME NEW c \in Cores, Verify(c) PROVE CoresFollow'
  <2>1. /\ pc = "verify" /\ pc' = "mutate" /\ svc' = svc /\ goal' = goal
        /\ \A d \in Cores : journal'.res[d] = IF d = c THEN "verified" ELSE journal.res[d]
    BY <1>9 DEF Verify, TypeOK, JournalEntry, memory
  <2>2. Runs(svc[c], goal.want[c])
    BY <1>9, VerifiedRuns
  <2>3. QED
    BY <2>1, <2>2
<1>10. ASSUME NEW c \in Cores,
              \/ TakeSnapshot(c) \/ InstallFails(c) \/ ActivateFails(c) \/ VerifyRejects(c)
              \/ VerifyFails(c) \/ Restore(c) \/ RestoreRejects(c) \/ RestoreFails(c)
      PROVE  CoresFollow'
  BY <1>10 DEF TakeSnapshot, InstallFails, ActivateFails, VerifyRejects, VerifyFails, Restore,
     RestoreRejects, RestoreFails, RestoreError, durable
<1>11. QED
  BY <1>1, <1>2, <1>3, <1>4, <1>5, <1>7, <1>8, <1>9, <1>10 DEF Next, WorkerStep, HostFault

(* What a settled plan has the cores listen on is disjoint.                   *)
LEMMA RunningIsDistinct ==
    ASSUME NEW want \in [Cores -> Config], ListenersDistinct(want),
           NEW host \in [Cores -> Service], \A c \in Cores : Runs(host[c], want[c]),
           NEW c \in Cores, NEW d \in Cores, c # d
    PROVE  ListenersOf(host[c].running) \cap ListenersOf(host[d].running) = {}
<1>1. \A e \in Cores : ListenersOf(host[e].running) \subseteq Listeners(want[e])
  <2>1. SUFFICES ASSUME NEW e \in Cores
                 PROVE  ListenersOf(host[e].running) \subseteq Listeners(want[e])
    OBVIOUS
  <2>2. host[e].running = None \/ host[e].running = want[e]
    BY DEF Runs
  <2>3. QED
    BY <2>2 DEF ListenersOf
<1>2. Listeners(want[c]) \cap Listeners(want[d]) = {}
  BY DEF Listeners, ListenersDistinct
<1>3. QED
  BY <1>1, <1>2

(* A core found by a transaction runs its own file, so its snapshot gives it  *)
(* back.                                                                      *)
LEMMA SnapshotGivesBack ==
    ASSUME TypeOK, NEW c \in Cores, NEW config, Runs(before[c], config)
    PROVE  RestoredFrom(SnapshotOf(before[c])) = before[c]
<1>1. before[c] \in Service /\ before[c].running \in {None, before[c].file}
  BY DEF TypeOK, Runs
<1>2. QED
  BY <1>1 DEF RestoredFrom, SnapshotOf, Service

LEMMA UndoHasSnapshot ==
    ASSUME WriteAheadInv, OwnGeneration, HostFits, pc = "undo", NEW c \in todo
    PROVE  /\ c \in Cores /\ c \in Mutated(journal)
           /\ snap[c] = SnapshotOf(before[c]) /\ RestoredFrom(snap[c]) = before[c]
<1>1. c \in Cores /\ c \in Mutated(journal)
  BY DEF WriteAheadInv, UndoesMutatedOnly, Mutated
<1>2. snap[c] = SnapshotOf(before[c])
  BY <1>1 DEF WriteAheadInv, UndoIsDurable, Mutated
<1>3. Runs(before[c], servedWant[c])
  BY <1>1 DEF OwnGeneration, HostFits
<1>4. QED
  BY <1>1, <1>2, <1>3, SnapshotGivesBack DEF WriteAheadInv

(* Until a generation is published, what a step leaves of a core's process is *)
(* as it was, nothing, what it ran before the transaction, or a process on    *)
(* listeners nobody held.                                                     *)
LEMMA StepKeepsYields ==
    ASSUME WriteAheadInv, PlansAreDistinct, HostFits, applied.gen # journal.gen, before' = before,
           NEW d \in Cores, \A e \in Cores \ {d} : svc'[e] = svc[e],
           \/ svc'[d].running \in {svc[d].running, None, before[d].running}
           \/ /\ \A c \in Cores : d < c => AsBefore(c)
              /\ svc'[d].running = svc[d].file /\ PortsFree(d, svc[d].file)
              /\ svc[d].file # None
    PROVE  \A c, e \in Cores : e < c => Yields(c, e)'
<1>1. SUFFICES ASSUME NEW c \in Cores, NEW e \in Cores, e < c PROVE Yields(c, e)'
  OBVIOUS
<1>2. Yields(c, e) /\ c # e
  BY <1>1, ConstantsAssumption DEF HostFits, Cores
<1>3. CASE e # d
  BY <1>2, <1>3 DEF Yields, Bound
<1>4. CASE e = d /\ svc'[d].running \in {svc[d].running, None, before[d].running}
  <2>1. ListenersOf(before[d].running) \cap ListenersOf(before[c].running) = {}
    <3>1. before \in [Cores -> Service] /\ servedWant \in [Cores -> Config]
      BY DEF WriteAheadInv, TypeOK
    <3>2. \A f \in Cores : Runs(before[f], servedWant[f])
      BY DEF HostFits
    <3>3. QED
      BY <1>2, <1>4, <3>1, <3>2, RunningIsDistinct DEF PlansAreDistinct
  <2>2. ListenersOf(None) = {}
    BY DEF ListenersOf
  <2>3. QED
    BY <1>2, <1>4, <2>1, <2>2 DEF Yields, Bound
<1>5. CASE /\ e = d /\ AsBefore(c) /\ svc'[d].running = svc[d].file
           /\ PortsFree(d, svc[d].file) /\ svc[d].file # None
  <2>1. Bound(c) \cap Listeners(svc[d].file) = {}
    BY <1>2, <1>5 DEF PortsFree
  <2>2. Bound(c) = ListenersOf(before[c].running)
    BY <1>5 DEF Bound, AsBefore
  <2>3. Bound(d)' = Listeners(svc[d].file)
    BY <1>5 DEF Bound, ListenersOf
  <2>4. QED
    BY <1>5, <2>1, <2>2, <2>3 DEF Yields
<1>6. QED
  BY <1>1, <1>3, <1>4, <1>5

(* A change of one core's file, unit or process during activation.            *)
LEMMA MutationKeepsHost ==
    ASSUME WriteAheadInv, OwnGeneration, PlansAreDistinct, MutatedInOrder, CoresFollow, HostFits,
           NEW c \in Cores, Install(c) \/ InstallFails(c) \/ Activate(c) \/ ActivateFails(c)
    PROVE  HostFits'
<1>1. /\ applied.gen # journal.gen /\ applied' = applied /\ journal'.gen = journal.gen
      /\ before' = before /\ servedWant' = servedWant
      /\ pc \in {"install", "activate"} /\ journal.res[c] = "started"
  BY DEF Install, InstallFails, Activate, ActivateFails, Current, OwnGeneration, Forward, Live,
     WriteAheadInv, TypeOK, JournalEntry, durable, memory, history
<1>2. \A e \in Cores \ {c} : svc'[e] = svc[e]
  BY DEF Install, InstallFails, Activate, ActivateFails, WriteAheadInv, TypeOK
<1>3. \A d \in Cores : c < d => AsBefore(d)
  <2>1. SUFFICES ASSUME NEW d \in Cores, c < d PROVE AsBefore(d)
    OBVIOUS
  <2>2. d \notin Mutated(journal)
    BY <1>1, <2>1, ConstantsAssumption DEF MutatedInOrder, Live, Cores
  <2>3. journal.status = "Applying"
    BY <1>1 DEF WriteAheadInv, ApplyingWhileActive
  <2>4. QED
    BY <2>2, <2>3 DEF WriteAheadInv, UndoIsDurable
<1>4. \/ svc'[c].running \in {svc[c].running, None}
      \/ /\ svc'[c].running = svc[c].file /\ PortsFree(c, svc[c].file)
         /\ svc[c].file # None
  <2> DEFINE r0 == Activated(c).running
  <2>1. svc[c] \in Service /\ goal.want[c] \in Config
    BY DEF WriteAheadInv, TypeOK, DesiredState
  <2>2. CASE Install(c) \/ InstallFails(c)
    BY <2>1, <2>2 DEF Install, InstallFails, WriteAheadInv, TypeOK, Service
  <2>3. pc = "activate" => r0 = None \/ /\ r0 = svc[c].file /\ PortsFree(c, svc[c].file)
                                        /\ svc[c].file # None
    <3>1. pc = "activate" => svc[c].file # None
      BY <1>1, <2>1, ConstantsAssumption DEF CoresFollow
    <3>2. r0 = None \/ (r0 = svc[c].file /\ PortsFree(c, svc[c].file))
      <4>1. goal.want[c] = {} => r0 = None
        BY <2>1 DEF Activated, Service
      <4>2. goal.want[c] # {} /\ PortsFree(c, svc[c].file) => r0 = svc[c].file
        BY <2>1 DEF Activated, Service
      <4>3. goal.want[c] # {} /\ ~PortsFree(c, svc[c].file) => r0 = None
        BY <2>1 DEF Activated, Service
      <4>4. QED
        BY <4>1, <4>2, <4>3
    <3>3. QED
      BY <3>1, <3>2
  <2>4. CASE Activate(c)
    <3>1. svc'[c].running = r0 /\ pc = "activate"
      BY <2>4 DEF Activate, WriteAheadInv, TypeOK
    <3>2. QED
      BY <2>3, <3>1
  <2>5. CASE ActivateFails(c)
    <3>1. svc'[c].running \in {svc[c].running, None, r0} /\ pc = "activate"
      BY <2>1, <2>5 DEF ActivateFails, WriteAheadInv, TypeOK, Service
    <3>2. QED
      BY <2>3, <3>1
  <2>6. QED
    BY <2>2, <2>4, <2>5
<1>5. \A a, b \in Cores : b < a => Yields(a, b)'
  BY <1>1, <1>2, <1>3, <1>4, StepKeepsYields
<1>6. QED
  BY <1>1, <1>5 DEF HostFits

(* What rollback_config leaves of one core.                                   *)
LEMMA RestoreKeepsHost ==
    ASSUME WriteAheadInv, OwnGeneration, PlansAreDistinct, HostFits,
           NEW c \in Cores, Restore(c) \/ RestoreError(c)
    PROVE  HostFits'
<1>1. /\ pc = "undo" /\ c \in todo /\ applied.gen # journal.gen /\ applied' = applied
      /\ journal' = journal /\ before' = before /\ servedWant' = servedWant
  BY DEF Restore, RestoreError, Last, OwnGeneration, durable, history
<1>2. \A e \in Cores \ {c} : svc'[e] = svc[e]
  BY DEF Restore, RestoreError, WriteAheadInv, TypeOK
<1>3. RestoredFrom(snap[c]) = before[c]
  BY <1>1, UndoHasSnapshot
<1>4. svc'[c].running \in {svc[c].running, None, before[c].running}
  <2>1. svc[c] \in Service /\ before[c] \in Service
    BY DEF WriteAheadInv, TypeOK
  <2>2. CASE Restore(c)
    BY <1>3, <2>2 DEF Restore, WriteAheadInv, TypeOK
  <2>3. CASE RestoreError(c)
    <3>1. PICK s \in PartlyRestored(c) : svc' = [svc EXCEPT ![c] = s]
      BY <2>3 DEF RestoreError
    <3>2. s.running \in {svc[c].running, None, before[c].running}
      BY <1>3, <2>1 DEF PartlyRestored, Service
    <3>3. QED
      BY <3>1, <3>2 DEF WriteAheadInv, TypeOK
  <2>4. QED
    BY <2>2, <2>3
<1>5. \A a, b \in Cores : b < a => Yields(a, b)'
  BY <1>1, <1>2, <1>4, StepKeepsYields
<1>6. QED
  BY <1>1, <1>5 DEF HostFits

(* What runs when every planned core is verified is the generation.           *)
LEMMA AllVerifiedRuns ==
    ASSUME WriteAheadInv, OwnGeneration, ResourcesFit, CoresFollow, HostFits, pc = "publish",
           NEW c \in Cores
    PROVE  Runs(svc[c], goal.want[c])
<1>1. CASE c \in Planned
  <2>1. journal.res[c] = "verified"
    BY <1>1 DEF ResourcesFit, WriteAheadInv, TypeOK, JournalEntry, Resource
  <2>2. QED
    BY <2>1 DEF CoresFollow
<1>2. CASE c \notin Planned
  <2>1. journal.res[c] = "absent"
    BY <1>2 DEF ResourcesFit, Forward
  <2>2. AsBefore(c)
    BY <2>1 DEF WriteAheadInv, ApplyingWhileActive, UndoIsDurable, Mutated
  <2>3. goal.want[c] = {} /\ servedWant[c] = {}
    BY <1>2 DEF Planned, OwnGeneration, Forward
  <2>4. Runs(before[c], servedWant[c])
    BY DEF OwnGeneration, HostFits, Forward
  <2>5. QED
    BY <2>2, <2>3, <2>4 DEF AsBefore, Runs
<1>3. QED
  BY <1>1, <1>2

LEMMA HostStep ==
    ASSUME TransactionInv, [Next]_vars
    PROVE  HostFits'
<1> USE DEF TransactionInv
<1>1. ASSUME UNCHANGED <<applied, svc, before, servedWant>>, journal'.gen = journal.gen
      PROVE  HostFits'
  BY <1>1 DEF HostFits, Yields, Bound
<1>2. ASSUME \/ Load \/ PublishMarker \/ RecoverNothing \/ RecoverAdopt \/ RecoverDiscard
             \/ RecoverBegin \/ Done \/ Plan \/ RefuseUnsupported \/ RefuseListeners
             \/ FailWithoutMutation \/ Stage \/ Validate \/ AllSnapshotted \/ CheckFresh
             \/ BeginPublish \/ Finish \/ RollbackBegin \/ Panel \/ Crash \/ UNCHANGED vars
      PROVE  HostFits'
  <2>1. UNCHANGED <<applied, svc, before, servedWant>>
    BY <1>2 DEF Load, PublishMarker, RecoverNothing, RecoverAdopt, RecoverDiscard, RecoverBegin,
       Done, Plan, RefuseUnsupported, RefuseListeners, FailWithoutMutation, Stage, Validate,
       AllSnapshotted, CheckFresh, BeginPublish, Finish, RollbackBegin, Panel, Commit, Crash,
       vars, durable, history
  <2>2. journal'.gen = journal.gen
    BY <1>2 DEF Load, PublishMarker, RecoverNothing, RecoverAdopt, RecoverDiscard, RecoverBegin,
       Done, Plan, RefuseUnsupported, RefuseListeners, FailWithoutMutation, Stage, Validate,
       AllSnapshotted, CheckFresh, BeginPublish, Finish, RollbackBegin, Panel, Commit, Crash,
       vars, durable, WriteAheadInv, TypeOK, JournalEntry
  <2>3. QED
    BY <1>1, <2>1, <2>2
<1>3. ASSUME Begin PROVE HostFits'
  <2>1. applied' = applied /\ svc' = svc /\ servedWant' = servedWant
    BY <1>3 DEF Begin
  <2>2. CASE journal.status \in {"Applying", "RecoveryRequired"}
    BY <1>1, <1>3, <2>1, <2>2 DEF Begin
  <2>3. CASE journal.status \notin {"Applying", "RecoveryRequired"}
    <3>1. before' = svc /\ journal'.gen = goal.gen /\ goal.gen # applied.gen /\ pc = "ready"
      <4>1. goal.gen \in Nat /\ applied.gen \in Nat
        BY ConstantsAssumption DEF WriteAheadInv, TypeOK, DesiredState, AppliedState
      <4>2. QED
        BY <1>3, <2>3, <4>1 DEF Begin
    <3>2. \A c \in Cores : Runs(svc[c], servedWant[c])
      <4>1. CASE applied.gen = journal.gen
        BY <4>1 DEF HostFits
      <4>2. CASE applied.gen # journal.gen
        <5>1. journal.status \in {"RolledBack", "Failed", "Unsupported"}
          BY <3>1, <4>2 DEF StatusFits, Terminal
        <5>2. \A c \in Cores : AsBefore(c)
          BY <3>1, <5>1 DEF UnappliedIsUntouched
        <5>3. QED
          BY <4>2, <5>2 DEF AsBefore, HostFits
      <4>3. QED
        BY <4>1, <4>2
    <3>3. \A c, d \in Cores : d < c => Yields(c, d)'
      <4>1. SUFFICES ASSUME NEW c \in Cores, NEW d \in Cores, d < c PROVE Yields(c, d)'
        OBVIOUS
      <4>2. c # d
        BY <4>1, ConstantsAssumption DEF Cores
      <4>3. svc \in [Cores -> Service] /\ servedWant \in [Cores -> Config]
        BY DEF WriteAheadInv, TypeOK
      <4>4. ListenersOf(svc[d].running) \cap ListenersOf(svc[c].running) = {}
        BY <3>2, <4>2, <4>3, RunningIsDistinct DEF PlansAreDistinct
      <4>5. QED
        BY <2>1, <3>1, <4>4 DEF Yields, Bound
    <3>4. QED
      BY <2>1, <3>1, <3>2, <3>3 DEF HostFits
  <2>4. QED
    BY <2>2, <2>3
<1>4. ASSUME Publish PROVE HostFits'
  <2>1. CASE applied.gen = journal.prev
    <3>1. /\ applied'.gen = goal.gen /\ servedWant' = goal.want /\ svc' = svc /\ journal' = journal
          /\ pc = "publish"
      BY <1>4, <2>1 DEF Publish
    <3>2. applied'.gen = journal'.gen
      BY <3>1 DEF OwnGeneration, Forward
    <3>3. \A c \in Cores : Runs(svc[c], goal.want[c])
      BY <3>1, AllVerifiedRuns
    <3>4. QED
      BY <3>1, <3>2, <3>3 DEF HostFits
  <2>2. CASE applied.gen # journal.prev
    BY <1>1, <1>4, <2>2 DEF Publish
  <2>3. QED
    BY <2>1, <2>2
<1>5. ASSUME UndoEnd PROVE HostFits'
  <2>1. applied' = applied /\ svc' = svc /\ before' = before /\ servedWant' = servedWant
    BY <1>5 DEF UndoEnd, OwnGeneration, history
  <2>2. journal'.gen = journal.gen
    BY <1>5 DEF UndoEnd, WriteAheadInv, TypeOK, JournalEntry
  <2>3. QED
    BY <1>1, <2>1, <2>2
<1>6. ASSUME NEW c \in Cores,
             TakeSnapshot(c) \/ MarkStarted(c) \/ Verify(c) \/ VerifyRejects(c) \/ VerifyFails(c)
      PROVE  HostFits'
  <2>1. UNCHANGED <<applied, svc, before, servedWant>> /\ journal'.gen = journal.gen
    BY <1>6 DEF TakeSnapshot, MarkStarted, Verify, VerifyRejects, VerifyFails, durable, history,
       WriteAheadInv, TypeOK, JournalEntry
  <2>2. QED
    BY <1>1, <2>1
<1>7. ASSUME NEW c \in Cores, Install(c) \/ InstallFails(c) \/ Activate(c) \/ ActivateFails(c)
      PROVE  HostFits'
  BY <1>7, MutationKeepsHost
<1>8. ASSUME NEW c \in Cores, Restore(c) \/ RestoreRejects(c) \/ RestoreFails(c)
      PROVE  HostFits'
  BY <1>8, RestoreKeepsHost DEF RestoreRejects, RestoreFails
<1>9. QED
  BY <1>2, <1>3, <1>4, <1>5, <1>6, <1>7, <1>8 DEF Next, WorkerStep, HostFault

LEMMA UndoneStep ==
    ASSUME WriteAheadInv, OwnGeneration, HostFits, UndoneSoFar, [Next]_vars
    PROVE  UndoneSoFar'
<1> USE DEF UndoneSoFar, AsBefore
<1>1. ASSUME \/ Load \/ PublishMarker \/ RecoverNothing \/ RecoverAdopt \/ RecoverDiscard \/ Done
             \/ Begin \/ Plan \/ RefuseUnsupported \/ RefuseListeners \/ FailWithoutMutation
             \/ Stage \/ Validate \/ AllSnapshotted \/ CheckFresh \/ BeginPublish \/ Publish
             \/ Finish \/ UndoEnd \/ Crash
      PROVE  UndoneSoFar'
  BY <1>1 DEF Load, PublishMarker, RecoverNothing, RecoverAdopt, RecoverDiscard, Done, Begin,
     Plan, RefuseUnsupported, RefuseListeners, FailWithoutMutation, Stage, Validate,
     AllSnapshotted, CheckFresh, BeginPublish, Publish, Finish, UndoEnd, Crash
<1>2. ASSUME Panel \/ UNCHANGED vars PROVE UndoneSoFar'
  BY <1>2 DEF Panel, Commit, vars, memory, history
<1>3. ASSUME RecoverBegin \/ RollbackBegin PROVE UndoneSoFar'
  <2>1. todo' = Mutated(journal) /\ svc' = svc /\ before' = before
    BY <1>3 DEF RecoverBegin, RollbackBegin, history
  <2>2. journal.status \in {"Pending", "Applying", "RecoveryRequired"}
    BY <1>3 DEF RecoverBegin, RollbackBegin, Interrupted, Terminal, WriteAheadInv,
       ApplyingWhileActive, TypeOK, JournalEntry, Statuses
  <2>3. \A c \in Cores \ Mutated(journal) : AsBefore(c)
    BY <2>2 DEF WriteAheadInv, UndoIsDurable
  <2>4. QED
    BY <2>1, <2>3
<1>4. ASSUME NEW c \in Cores, Restore(c) PROVE UndoneSoFar'
  <2>1. c \in todo /\ pc = "undo" /\ svc' = [svc EXCEPT ![c] = RestoredFrom(snap[c])]
        /\ todo' = todo \ {c} /\ UNCHANGED <<before, undoFailed>>
    BY <1>4 DEF Restore, Last, history
  <2>2. svc'[c] = before[c] /\ \A d \in Cores \ {c} : svc'[d] = svc[d]
    BY <2>1, UndoHasSnapshot DEF WriteAheadInv, TypeOK
  <2>3. QED
    BY <2>1, <2>2
<1>5. ASSUME NEW c \in Cores,
             \/ TakeSnapshot(c) \/ MarkStarted(c) \/ Install(c) \/ InstallFails(c)
             \/ Activate(c) \/ ActivateFails(c) \/ Verify(c) \/ VerifyRejects(c) \/ VerifyFails(c)
             \/ RestoreRejects(c) \/ RestoreFails(c)
      PROVE  UndoneSoFar'
  BY <1>5 DEF TakeSnapshot, MarkStarted, Install, InstallFails, Activate, ActivateFails, Verify,
     VerifyRejects, VerifyFails, RestoreRejects, RestoreFails, RestoreError
<1>6. QED
  BY <1>1, <1>2, <1>3, <1>4, <1>5 DEF Next, WorkerStep, HostFault

LEMMA UntouchedStep ==
    ASSUME TransactionInv, CrashInRollback = FALSE, [Next]_vars
    PROVE  UnappliedIsUntouched'
<1> DEFINE Settled == journal.status \in {"RolledBack", "Failed", "Unsupported"} /\ pc # "undo"
<1> USE DEF TransactionInv, UnappliedIsUntouched, AsBefore
<1>1. ASSUME \A c \in Cores : AsBefore(c), UNCHANGED <<svc, before>> PROVE UnappliedIsUntouched'
  BY <1>1
<1>2. ASSUME UNCHANGED <<svc, before>>, Settled' => Settled PROVE UnappliedIsUntouched'
  BY <1>2
<1>3. ASSUME Load \/ PublishMarker \/ RecoverNothing \/ Done \/ Panel \/ UNCHANGED vars
      PROVE  UnappliedIsUntouched'
  BY <1>2, <1>3 DEF Load, PublishMarker, RecoverNothing, Done, Panel, Commit, vars, durable,
     memory, history
<1>4. ASSUME Crash PROVE UnappliedIsUntouched'
  <2>1. Settled' => Settled
    BY <1>4 DEF Crash, InRollback, durable, StatusFits
  <2>2. QED
    BY <1>2, <1>4, <2>1 DEF Crash, history
<1>5. ASSUME RecoverDiscard PROVE UnappliedIsUntouched'
  <2>1. journal.status \in {"Pending", "Applying", "RecoveryRequired"}
    BY <1>5 DEF RecoverDiscard, Interrupted, Terminal, WriteAheadInv, TypeOK, JournalEntry, Statuses
  <2>2. \A c \in Cores : AsBefore(c)
    BY <1>5, <2>1 DEF RecoverDiscard, WriteAheadInv, UndoIsDurable
  <2>3. QED
    BY <1>1, <1>5, <2>2 DEF RecoverDiscard, history
<1>6. ASSUME RefuseUnsupported \/ RefuseListeners \/ FailWithoutMutation \/ CheckFresh
      PROVE  UnappliedIsUntouched'
  <2>1. pc \in Preparing /\ journal.status \in {"Pending", "Applying"}
    BY <1>6 DEF RefuseUnsupported, RefuseListeners, FailWithoutMutation, CheckFresh, Preparing,
       WriteAheadInv, NothingJournaledYet, ApplyingWhileActive
  <2>2. \A c \in Cores : AsBefore(c)
    BY <2>1 DEF ResourcesFit, WriteAheadInv, UndoIsDurable, Mutated
  <2>3. QED
    BY <1>1, <1>6, <2>2 DEF RefuseUnsupported, RefuseListeners, FailWithoutMutation, CheckFresh,
       history
<1>7. ASSUME Begin PROVE UnappliedIsUntouched'
  <2>1. ~Settled'
    BY <1>7 DEF Begin
  <2>2. QED
    BY <2>1
<1>8. ASSUME RecoverAdopt \/ RecoverBegin \/ Plan \/ Finish \/ RollbackBegin
      PROVE  UnappliedIsUntouched'
  <2>1. ~Settled'
    BY <1>8 DEF RecoverAdopt, RecoverBegin, Plan, Finish, RollbackBegin, WriteAheadInv, TypeOK,
       JournalEntry
  <2>2. QED
    BY <2>1
<1>9. ASSUME Stage \/ Validate \/ AllSnapshotted \/ BeginPublish \/ Publish
      PROVE  UnappliedIsUntouched'
  <2>1. journal'.status = "Applying"
    BY <1>9 DEF Stage, Validate, AllSnapshotted, BeginPublish, Publish, WriteAheadInv,
       ApplyingWhileActive, TypeOK, JournalEntry
  <2>2. QED
    BY <2>1
<1>10. ASSUME NEW c \in Cores,
              \/ TakeSnapshot(c) \/ MarkStarted(c) \/ Install(c) \/ InstallFails(c)
              \/ Activate(c) \/ ActivateFails(c) \/ Verify(c) \/ VerifyRejects(c) \/ VerifyFails(c)
       PROVE  UnappliedIsUntouched'
  <2>1. journal'.status = "Applying"
    BY <1>10 DEF TakeSnapshot, MarkStarted, Install, InstallFails, Activate, ActivateFails,
       Verify, VerifyRejects, VerifyFails, durable, WriteAheadInv, ApplyingWhileActive, TypeOK,
       JournalEntry
  <2>2. QED
    BY <2>1
<1>11. ASSUME NEW c \in Cores, Restore(c) \/ RestoreRejects(c) \/ RestoreFails(c)
       PROVE  UnappliedIsUntouched'
  BY <1>11 DEF Restore, RestoreRejects, RestoreFails, RestoreError
<1>12. ASSUME UndoEnd PROVE UnappliedIsUntouched'
  <2>1. UndoOutcome = "RolledBack" => ~undoFailed
    BY DEF UndoOutcome
  <2>2. CASE UndoOutcome = "RolledBack"
    <3>1. \A c \in Cores : AsBefore(c)
      BY <1>12, <2>1, <2>2 DEF UndoEnd, UndoneSoFar
    <3>2. QED
      BY <1>1, <1>12, <3>1 DEF UndoEnd, history
  <2>3. CASE UndoOutcome = "RecoveryRequired"
    <3>1. journal'.status = "RecoveryRequired"
      BY <1>12, <2>3 DEF UndoEnd, WriteAheadInv, TypeOK, JournalEntry
    <3>2. QED
      BY <3>1
  <2>4. QED
    BY <2>2, <2>3 DEF UndoOutcome
<1>13. QED
  BY <1>3, <1>4, <1>5, <1>6, <1>7, <1>8, <1>9, <1>10, <1>11, <1>12
     DEF Next, WorkerStep, HostFault

LEMMA TransactionPreserved ==
    ASSUME TransactionInv, CrashInRollback = FALSE, [Next]_vars
    PROVE  TransactionInv'
<1>1. WriteAheadInv'
  BY WriteAheadPreserved DEF TransactionInv
<1>2. StatusFits' /\ OwnGeneration' /\ PlansAreDistinct'
  BY StatusStep, GenerationStep, PlansStep DEF TransactionInv
<1>3. ResourcesFit' /\ MutatedInOrder' /\ CoresFollow'
  BY <1>2, ResourcesStep, OrderStep, CoresStep DEF TransactionInv
<1>4. HostFits' /\ UndoneSoFar' /\ UnappliedIsUntouched'
  BY HostStep, UndoneStep, UntouchedStep DEF TransactionInv
<1>5. QED
  BY <1>1, <1>2, <1>3, <1>4 DEF TransactionInv

LEMMA TransactionInvariant == CrashInRollback = FALSE /\ Spec => []TransactionInv
<1>1. SUFFICES ASSUME CrashInRollback = FALSE PROVE Spec => []TransactionInv
  OBVIOUS
<1>2. TransactionInv /\ [Next]_vars => TransactionInv'
  BY <1>1, TransactionPreserved
<1>3. QED
  BY <1>2, TransactionInitially, PTL DEF Spec

(* A generation that failed, was refused or rolled back leaves each core with *)
(* the file, unit and process the transaction found, unless the worker died   *)
(* while rollback() restored.                                                 *)
THEOREM FailureLeavesNoTrace == CrashInRollback = FALSE /\ Spec => []UnappliedIsUntouched
<1>1. TransactionInv => UnappliedIsUntouched
  BY DEF TransactionInv
<1>2. QED
  BY <1>1, TransactionInvariant, PTL

(* With the same premise, what the journal reports as applied is what every   *)
(* core runs.                                                                 *)
THEOREM SuccessIsServed == CrashInRollback = FALSE /\ Spec => []AppliedIsServed
<1>1. TransactionInv => AppliedIsServed
  <2>1. SUFFICES ASSUME TransactionInv, journal.status = "Applied", NEW c \in Cores
                 PROVE  Serves(c, servedWant[c])
    BY DEF AppliedIsServed
  <2>2. Runs(svc[c], servedWant[c])
    BY <2>1 DEF TransactionInv, StatusFits, HostFits
  <2>3. QED
    BY <2>2 DEF Runs, Serves
<1>2. QED
  BY <1>1, TransactionInvariant, PTL

(* And compensation in reverse order never waits for itself: the snapshot of  *)
(* the next core is there and nobody holds its listeners.                     *)
THEOREM UndoGoesOn == CrashInRollback = FALSE /\ Spec => []UndoNeverBlocked
<1>1. TransactionInv => UndoNeverBlocked
  <2>1. SUFFICES ASSUME TransactionInv, pc = "undo", ~undoFailed, NEW c \in todo, Last(c, todo)
                 PROVE  Restorable(c)
    BY DEF UndoNeverBlocked, TransactionInv, WriteAheadInv, TypeOK
  <2> USE <2>1
  <2>2. c \in Cores /\ snap[c] = SnapshotOf(before[c])
    BY <2>1, UndoHasSnapshot DEF TransactionInv
  <2>3. before[c] \in Service /\ snap[c] \in Snapshot
    <3>1. before[c] \in Service
      BY <2>2 DEF TransactionInv, WriteAheadInv, TypeOK
    <3>2. SnapshotOf(before[c]) \in Snapshot
      BY <3>1 DEF SnapshotOf, Service, Snapshot
    <3>3. QED
      BY <2>2, <3>1, <3>2
  <2>4. snap[c] # None
    BY <2>3, NoneIsNoSnapshot
  <2>5. applied.gen # journal.gen /\ Runs(before[c], servedWant[c])
    BY <2>1, <2>2 DEF TransactionInv, OwnGeneration, HostFits
  <2>6. snap[c].active => before[c].running = snap[c].file /\ snap[c].file # None
    <3>1. snap[c].active = (before[c].running # None) /\ snap[c].file = before[c].file
      BY <2>2 DEF SnapshotOf
    <3>2. before[c].running # None => before[c].running = before[c].file
      BY <2>5 DEF Runs
    <3>3. QED
      BY <3>1, <3>2
  <2>7. ASSUME NEW d \in Cores \ {c}, snap[c].active
        PROVE  Bound(d) \cap Listeners(snap[c].file) = {}
    <3>1. Listeners(snap[c].file) = ListenersOf(before[c].running)
      BY <2>6, <2>7 DEF ListenersOf
    <3>2. CASE d < c
      BY <2>2, <2>5, <3>1, <3>2 DEF TransactionInv, HostFits, Yields
    <3>3. CASE ~(d < c)
      <4>1. d \notin todo
        BY <2>1, <2>2, <2>7, <3>3, ConstantsAssumption DEF Last, Cores
      <4>2. svc[d] = before[d]
        BY <2>1, <4>1 DEF TransactionInv, UndoneSoFar, AsBefore
      <4>3. before \in [Cores -> Service] /\ servedWant \in [Cores -> Config]
        BY DEF TransactionInv, WriteAheadInv, TypeOK
      <4>4. \A e \in Cores : Runs(before[e], servedWant[e])
        BY <2>5 DEF TransactionInv, HostFits
      <4>5. ListenersOf(before[d].running) \cap ListenersOf(before[c].running) = {}
        BY <2>2, <2>7, <4>3, <4>4, RunningIsDistinct DEF TransactionInv, PlansAreDistinct
      <4>6. QED
        BY <3>1, <4>2, <4>5 DEF Bound
    <3>4. QED
      BY <3>2, <3>3
  <2>8. QED
    BY <2>2, <2>4, <2>6, <2>7 DEF Restorable, PortsFree
<1>2. QED
  BY <1>1, TransactionInvariant, PTL

-----------------------------------------------------------------------------
(* Refinement                                                                 *)

(* What the host can be relied on for is exactly what the applied generation  *)
(* asks of it: of `before` while a transaction is open, else of what runs.    *)
ServingFollows ==
    [c \in Cores |-> Serving(c)] = [c \in Cores |-> Atomic!ServiceFor(servedWant[c])]

LEMMA ServingIsServed == ASSUME TransactionInv PROVE ServingFollows
<1>1. SUFFICES ASSUME NEW c \in Cores PROVE Serving(c) = Atomic!ServiceFor(servedWant[c])
  BY DEF ServingFollows
<1>2. ASSUME NEW s \in Service, Runs(s, servedWant[c])
      PROVE  [enabled |-> s.enabled, running |-> s.running] = Atomic!ServiceFor(servedWant[c])
  <2>1. s.running = IF servedWant[c] = {} THEN None ELSE servedWant[c]
    BY <1>2 DEF Runs
  <2>2. s.enabled = (servedWant[c] # {})
    BY <1>2 DEF Runs, Service
  <2>3. QED
    BY <2>1, <2>2 DEF Atomic!ServiceFor
<1>3. svc[c] \in Service /\ before[c] \in Service
  BY DEF TransactionInv, WriteAheadInv, TypeOK
<1>4. CASE applied.gen = journal.gen
  <2>1. Runs(svc[c], servedWant[c]) /\ ~TransactionOpen
    BY <1>4 DEF TransactionInv, HostFits, TransactionOpen
  <2>2. QED
    BY <1>2, <1>3, <2>1 DEF Serving
<1>5. CASE applied.gen # journal.gen
  <2>1. Runs(before[c], servedWant[c])
    BY <1>5 DEF TransactionInv, HostFits
  <2>2. CASE TransactionOpen
    BY <1>2, <1>3, <2>1, <2>2 DEF Serving
  <2>3. CASE ~TransactionOpen
    <3>1. journal.status \in {"RolledBack", "Failed", "Unsupported"} /\ pc # "undo"
      BY <1>5, <2>3 DEF TransactionOpen, TransactionInv, StatusFits, WriteAheadInv, TypeOK,
         JournalEntry, Statuses
    <3>2. svc[c] = before[c]
      BY <3>1 DEF TransactionInv, UnappliedIsUntouched, AsBefore
    <3>3. QED
      BY <1>2, <1>3, <2>1, <2>3, <3>2 DEF Serving
  <2>4. QED
    BY <2>2, <2>3
<1>6. QED
  BY <1>4, <1>5

LEMMA RefinementInitially == Init /\ ServingFollows => Atomic!Init
  BY DEF Init, NoWant, ServingFollows, Atomic!Init, Atomic!Nothing

LEMMA RefinementStep ==
    ASSUME TransactionInv, ServingFollows, ServingFollows', [Next]_vars
    PROVE  [Atomic!Next]_(Atomic!vars)
<1> USE DEF ServingFollows, Atomic!vars
<1>1. ASSUME UNCHANGED <<desired, goal, servedWant>>, applied'.gen = applied.gen
      PROVE  UNCHANGED Atomic!vars
  BY <1>1
<1>2. ASSUME Load PROVE Atomic!Load
  BY <1>2 DEF Load, durable, history, Atomic!Load
<1>3. ASSUME Panel PROVE Atomic!Next
  BY <1>3 DEF Panel, Commit, durable, memory, history, Atomic!Next, Atomic!Commit
<1>4. ASSUME Publish PROVE Atomic!Apply \/ UNCHANGED Atomic!vars
  <2>1. UNCHANGED <<desired, goal>> /\ pc = "publish"
    BY <1>4 DEF Publish, memory
  <2>2. CASE applied.gen # journal.prev
    BY <1>1, <1>4, <2>1, <2>2 DEF Publish
  <2>3. CASE applied.gen = journal.prev
    <3>1. applied'.gen = goal.gen /\ servedWant' = goal.want
      BY <1>4, <2>3 DEF Publish
    <3>2. goal.gen > applied.gen
      <4>1. applied.gen < goal.gen
        BY <2>1 DEF TransactionInv, OwnGeneration, Forward
      <4>2. QED
        BY <4>1
    <3>3. [gen |-> goal.gen, want |-> goal.want] = goal
      BY DEF TransactionInv, WriteAheadInv, TypeOK, DesiredState
    <3>4. QED
      BY <2>1, <3>1, <3>2, <3>3 DEF Atomic!Apply
  <2>4. QED
    BY <2>2, <2>3
<1>5. ASSUME UndoEnd PROVE UNCHANGED Atomic!vars
  BY <1>1, <1>5 DEF UndoEnd, TransactionInv, OwnGeneration, history
<1>6. ASSUME \/ PublishMarker \/ RecoverNothing \/ RecoverAdopt \/ RecoverDiscard
             \/ RecoverBegin \/ Done \/ Begin \/ Plan \/ RefuseUnsupported \/ RefuseListeners
             \/ FailWithoutMutation \/ Stage \/ Validate \/ AllSnapshotted \/ CheckFresh
             \/ BeginPublish \/ Finish \/ RollbackBegin \/ Crash \/ UNCHANGED vars
      PROVE  UNCHANGED Atomic!vars
  <2>1. UNCHANGED <<desired, applied, goal, servedWant>>
    BY <1>6 DEF PublishMarker, RecoverNothing, RecoverAdopt, RecoverDiscard, RecoverBegin,
       Done, Begin, Plan, RefuseUnsupported, RefuseListeners, FailWithoutMutation, Stage, Validate,
       AllSnapshotted, CheckFresh, BeginPublish, Finish, RollbackBegin, Crash, vars, durable,
       memory, history
  <2>2. QED
    BY <1>1, <2>1
<1>7. ASSUME NEW c \in Cores,
             \/ TakeSnapshot(c) \/ MarkStarted(c) \/ Install(c) \/ InstallFails(c)
             \/ Activate(c) \/ ActivateFails(c) \/ Verify(c) \/ VerifyRejects(c) \/ VerifyFails(c)
             \/ Restore(c) \/ RestoreRejects(c) \/ RestoreFails(c)
      PROVE  UNCHANGED Atomic!vars
  <2>1. UNCHANGED <<desired, applied, goal, servedWant>>
    BY <1>7 DEF TakeSnapshot, MarkStarted, Install, InstallFails, Activate, ActivateFails, Verify,
       VerifyRejects, VerifyFails, Restore, RestoreRejects, RestoreFails, RestoreError, durable,
       memory, history
  <2>2. QED
    BY <1>1, <2>1
<1>8. QED
  BY <1>2, <1>3, <1>4, <1>5, <1>6, <1>7 DEF Next, WorkerStep, HostFault, Atomic!Next

(* Whatever fails or is interrupted, generations are applied as a whole, one  *)
(* after the other, in the step that publishes them: reconcile() and recover()*)
(* implement AtomicApply, unless the worker dies while rollback() restores.   *)
THEOREM TransactionsAreAtomic == CrashInRollback = FALSE /\ Spec => AppliesAtomically
<1>1. TransactionInv => ServingFollows
  BY ServingIsServed
<1>2. Init /\ TransactionInv => Atomic!Init
  BY <1>1, RefinementInitially
<1>3. TransactionInv /\ ServingFollows /\ ServingFollows' /\ [Next]_vars
         => [Atomic!Next]_(Atomic!vars)
  BY RefinementStep
<1>4. QED
  BY <1>1, <1>2, <1>3, TransactionInvariant, PTL DEF Spec, AppliesAtomically, Atomic!Spec

-----------------------------------------------------------------------------
(* A run ends                                                                 *)

(* How far a run is: the stage of process() it is in, where a recovery that   *)
(* restores comes before the transaction and rollback() after it, ...         *)
RunStage ==
    CASE pc = "marker"                                   -> 1
      [] pc = "recover"                                  -> 2
      [] pc = "undo" /\ journal.status = "Applying"      -> 3
      [] pc = "ready"                                    -> 4
      [] pc = "plan"                                     -> 5
      [] pc = "stage"                                    -> 6
      [] pc = "validate"                                 -> 7
      [] pc = "snapshot"                                 -> 8
      [] pc = "fresh"                                    -> 9
      [] pc \in Live                                     -> 10
      [] pc = "publish"                                  -> 11
      [] pc = "finish"                                   -> 12
      [] pc = "rollback"                                 -> 13
      [] pc = "undo" /\ journal.status # "Applying"      -> 14
      [] OTHER                                           -> 15

(* ... the cores a loop of that stage has still to come to, ...               *)
CoresLeft ==
    IF pc = "snapshot" THEN {c \in Planned : journal.res[c] = "absent"}
    ELSE IF pc \in Live THEN Waiting
    ELSE todo

(* ... and where it is with the core it works on.                             *)
CoreStep ==
    CASE pc = "install" -> 0 [] pc = "activate" -> 1 [] pc = "verify" -> 2 [] OTHER -> 3

(* All three in one number, and the largest it may become.                    *)
RunRank == 4 * ((NumCores + 1) * RunStage + (NumCores - Cardinality(CoresLeft))) + CoreStep
MaxRank == 4 * ((NumCores + 1) * 16)

(* A set of cores has at most all of them, and fewer when it loses one.       *)
LEMMA CoresAreCounted ==
    /\ \A S \in SUBSET Cores : Cardinality(S) \in 0..NumCores
    /\ \A S, T \in SUBSET Cores : T \subseteq S /\ T # S => Cardinality(T) < Cardinality(S)
<1>1. NumCores \in Nat
  BY ConstantsAssumption
<1>2. IsFiniteSet(Cores) /\ Cardinality(Cores) = NumCores
  BY <1>1, FS_Interval DEF Cores
<1>3. ASSUME NEW S \in SUBSET Cores
      PROVE  IsFiniteSet(S) /\ Cardinality(S) \in 0..NumCores
  <2>1. IsFiniteSet(S) /\ Cardinality(S) <= NumCores
    BY <1>2, FS_Subset
  <2>2. Cardinality(S) \in Nat
    BY <2>1, FS_CardinalityType
  <2>3. QED
    BY <1>1, <2>1, <2>2
<1>4. ASSUME NEW S \in SUBSET Cores, NEW T \in SUBSET Cores, T \subseteq S, T # S
      PROVE  Cardinality(T) < Cardinality(S)
  <2>1. Cardinality(T) <= Cardinality(S) /\ Cardinality(S) # Cardinality(T)
    BY <1>3, <1>4, FS_Subset
  <2>2. Cardinality(S) \in Nat /\ Cardinality(T) \in Nat
    BY <1>3
  <2>3. QED
    BY <2>1, <2>2
<1>5. QED
  BY <1>3, <1>4

Measured == RunStage \in 1..15 /\ CoresLeft \in SUBSET Cores /\ CoreStep \in 0..3

LEMMA RankType == TypeOK => Measured
<1> SUFFICES ASSUME TypeOK PROVE Measured
  OBVIOUS
<1>1. RunStage \in 1..15
  BY DEF RunStage
<1>2. CoreStep \in 0..3
  BY DEF CoreStep
<1>3. Planned \subseteq Cores
  BY DEF TypeOK, JournalEntry, Planned
<1>4. QED
  BY <1>1, <1>2, <1>3 DEF Measured, CoresLeft, Waiting, TypeOK

LEMMA RankTypeNext == TypeOK' => Measured'
  BY RankType, PTL

LEMMA RankIsBounded == TypeOK => RunRank \in 0..MaxRank
<1>1. SUFFICES ASSUME TypeOK PROVE RunRank \in 0..MaxRank
  OBVIOUS
<1>2. PICK n \in 0..NumCores : n = Cardinality(CoresLeft)
  BY <1>1, RankType, CoresAreCounted DEF Measured
<1>3. PICK s \in 1..15 : s = RunStage
  BY <1>1, RankType DEF Measured
<1>4. NumCores \in Nat
  BY ConstantsAssumption
<1>5. (NumCores + 1) * s \in Nat /\ (NumCores + 1) * s <= (NumCores + 1) * 15
  BY <1>3, <1>4
<1>6. CoreStep \in 0..3
  BY <1>1, RankType DEF Measured
<1>7. QED
  BY <1>2, <1>3, <1>4, <1>5, <1>6 DEF RunRank, MaxRank

(* A run advances: to a later stage, past a core of its loop, or with it.     *)
Advances ==
    \/ RunStage' > RunStage
    \/ /\ RunStage' = RunStage
       /\ CoresLeft' \subseteq CoresLeft
       /\ CoresLeft' # CoresLeft \/ CoreStep' > CoreStep

LEMMA AdvanceRaises == ASSUME TypeOK, TypeOK', Advances PROVE RunRank' > RunRank
<1>0. Measured /\ Measured'
  BY RankType, RankTypeNext
<1>1. PICK m, n \in 0..NumCores : m = Cardinality(CoresLeft) /\ n = Cardinality(CoresLeft')
  BY <1>0, CoresAreCounted DEF Measured
<1>2. PICK s, t \in 1..15 : s = RunStage /\ t = RunStage'
  BY <1>0 DEF Measured
<1>3. PICK i, j \in 0..3 : i = CoreStep /\ j = CoreStep'
  BY <1>0 DEF Measured
<1>4. PICK k \in Nat : k = NumCores + 1
  BY ConstantsAssumption
<1>5. /\ RunRank = 4 * (k * s + (NumCores - m)) + i
      /\ RunRank' = 4 * (k * t + (NumCores - n)) + j
  BY <1>1, <1>2, <1>3, <1>4 DEF RunRank
<1>6. k * s \in Nat /\ k * t \in Nat /\ NumCores \in Nat
  <2>1. k \in Nat /\ s \in Nat /\ t \in Nat
    OBVIOUS
  <2>2. QED
    BY <2>1, ConstantsAssumption
<1>7. CASE t > s
  <2>1. k * t >= k * s + k
    <3>1. PICK d \in Nat : t = s + 1 + d
      BY <1>2, <1>7
    <3>2. k \in Nat /\ s \in Nat /\ d \in Nat
      OBVIOUS
    <3>3. k * (s + 1 + d) = k * s + k + k * d /\ k * d \in Nat
      BY <3>2
    <3>4. QED
      BY <1>6, <3>1, <3>2, <3>3
  <2>2. QED
    BY <1>1, <1>3, <1>4, <1>5, <1>6, <2>1
<1>8. CASE t = s /\ CoresLeft' \subseteq CoresLeft /\ CoresLeft' # CoresLeft
  <2>1. n < m
    BY <1>0, <1>1, <1>8, CoresAreCounted DEF Measured
  <2>2. k * t = k * s
    BY <1>8
  <2>3. QED
    BY <1>1, <1>3, <1>5, <1>6, <2>1, <2>2
<1>9. CASE t = s /\ CoresLeft' = CoresLeft /\ CoreStep' > CoreStep
  <2>1. k * t = k * s /\ m = n /\ j > i
    BY <1>1, <1>3, <1>9
  <2>2. QED
    BY <1>1, <1>3, <1>5, <1>6, <2>1
<1>10. QED
  BY <1>2, <1>7, <1>8, <1>9 DEF Advances

(* Every step of a run but an edit, failures and crashes among them, advances *)
(* it; an edit leaves it where it is.                                         *)
LEMMA RunStepAdvances ==
    ASSUME TypeOK, Next, pc # "idle", desired' = desired
    PROVE  Advances
<1> USE DEF TypeOK
<1>1. ASSUME RunStage' > RunStage PROVE Advances
  BY <1>1 DEF Advances
<1>2. CASE Panel
  <2>1. PICK want \in Wants : Commit(want)
    BY <1>2 DEF Panel
  <2>2. desired.gen \in Nat /\ desired'.gen = desired.gen + 1
    BY <2>1 DEF Commit, DesiredState
  <2>3. QED
    BY <2>2
<1>3. CASE Load
  BY <1>3 DEF Load
<1>4. CASE \/ PublishMarker \/ RecoverNothing \/ RecoverAdopt \/ RecoverDiscard \/ Done
           \/ Plan \/ RefuseListeners \/ Stage \/ Validate \/ AllSnapshotted \/ CheckFresh
           \/ BeginPublish \/ Publish \/ Finish \/ RefuseUnsupported
  <2>1. RunStage' > RunStage
    BY <1>4 DEF PublishMarker, RecoverNothing, RecoverAdopt, RecoverDiscard, Done, Plan,
       RefuseListeners, Stage, Validate, AllSnapshotted, CheckFresh, BeginPublish, Publish,
       Finish, RefuseUnsupported, RunStage, Live
  <2>2. QED
    BY <1>1, <2>1
<1>5. CASE Begin \/ RecoverBegin \/ RollbackBegin \/ FailWithoutMutation
  <2>1. RunStage' > RunStage
    <3>1. CASE Begin
      BY <3>1 DEF Begin, RunStage, Live
    <3>2. CASE RecoverBegin
      BY <3>2 DEF RecoverBegin, JournalEntry, RunStage, Live
    <3>3. CASE RollbackBegin
      BY <3>3 DEF RollbackBegin, JournalEntry, RunStage, Live
    <3>4. CASE FailWithoutMutation
      BY <3>4 DEF FailWithoutMutation, RunStage, Live
    <3>5. QED
      BY <1>5, <3>1, <3>2, <3>3, <3>4
  <2>2. QED
    BY <1>1, <2>1
<1>6. CASE UndoEnd
  <2>1. RunStage' > RunStage
    BY <1>6 DEF UndoEnd, RunStage, Live
  <2>2. QED
    BY <1>1, <2>1
<1>7. CASE Crash
  <2>1. pc' = "idle"
    BY <1>7 DEF Crash
  <2>2. RunStage' = 15 /\ RunStage < 15
    BY <2>1 DEF RunStage, PCs, Live
  <2>3. QED
    BY <1>1, <2>2
<1>8. ASSUME NEW c \in Cores, TakeSnapshot(c) PROVE Advances
  <2>1. /\ pc = "snapshot" /\ pc' = "snapshot" /\ goal' = goal
        /\ journal.res[c] = "absent" /\ c \in Planned
        /\ journal' = [journal EXCEPT !.res[c] = "snapshotted"]
    BY <1>8 DEF TakeSnapshot, First, memory
  <2>2. Planned' = Planned
    BY <2>1 DEF Planned, JournalEntry
  <2>3. RunStage' = RunStage
    BY <2>1 DEF RunStage, Live
  <2>4. /\ CoresLeft = {d \in Planned : journal.res[d] = "absent"}
        /\ CoresLeft' = {d \in Planned : journal'.res[d] = "absent"}
    BY <2>1, <2>2 DEF CoresLeft
  <2>5. /\ journal'.res[c] = "snapshotted"
        /\ \A d \in Cores \ {c} : journal'.res[d] = journal.res[d]
    BY <2>1 DEF JournalEntry
  <2>6. Planned \subseteq Cores
    BY DEF Planned, JournalEntry
  <2>7. CoresLeft' \subseteq CoresLeft /\ c \in CoresLeft /\ c \notin CoresLeft'
    BY <2>1, <2>4, <2>5, <2>6
  <2>8. QED
    BY <2>3, <2>7 DEF Advances
<1>9. ASSUME NEW c \in Cores, MarkStarted(c) PROVE Advances
  <2>1. /\ pc = "mutate" /\ pc' = "install" /\ goal' = goal /\ c \in Waiting
        /\ journal' = [journal EXCEPT !.res[c] = "started"]
    BY <1>9 DEF MarkStarted, First, memory
  <2>2. Planned' = Planned
    BY <2>1 DEF Planned, JournalEntry
  <2>3. RunStage' = RunStage
    BY <2>1 DEF RunStage, Live
  <2>4. /\ CoresLeft = {d \in Planned : journal.res[d] = "snapshotted"}
        /\ CoresLeft' = {d \in Planned : journal'.res[d] = "snapshotted"}
    BY <2>1, <2>2 DEF CoresLeft, Waiting, Live
  <2>5. /\ journal'.res[c] = "started"
        /\ \A d \in Cores \ {c} : journal'.res[d] = journal.res[d]
    BY <2>1 DEF JournalEntry
  <2>6. Planned \subseteq Cores
    BY DEF Planned, JournalEntry
  <2>7. CoresLeft' \subseteq CoresLeft /\ c \in CoresLeft /\ c \notin CoresLeft'
    BY <2>1, <2>4, <2>5, <2>6 DEF Waiting
  <2>8. QED
    BY <2>3, <2>7 DEF Advances
<1>10. ASSUME NEW c \in Cores, Install(c) \/ Activate(c) \/ Verify(c) PROVE Advances
  <2>1. /\ pc \in Live /\ pc' \in Live
        /\ goal' = goal /\ journal'.prevActive = journal.prevActive
    BY <1>10 DEF Install, Activate, Verify, JournalEntry, Live, memory
  <2>2. \A d \in Cores : journal'.res[d] = "snapshotted" <=> journal.res[d] = "snapshotted"
    BY <1>10 DEF Install, Activate, Verify, Current, JournalEntry
  <2>3. Planned' = Planned /\ Planned \subseteq Cores
    BY <2>1 DEF Planned, JournalEntry
  <2>4. CoresLeft' = CoresLeft
    BY <2>1, <2>2, <2>3 DEF CoresLeft, Waiting, Live
  <2>5. RunStage' = RunStage
    BY <2>1 DEF RunStage, Live
  <2>6. CoreStep' > CoreStep
    BY <1>10 DEF Install, Activate, Verify, CoreStep
  <2>7. QED
    BY <2>4, <2>5, <2>6 DEF Advances
<1>11. ASSUME NEW c \in Cores,
              InstallFails(c) \/ ActivateFails(c) \/ VerifyRejects(c) \/ VerifyFails(c)
       PROVE  Advances
  <2>1. pc \in Live /\ pc' = "rollback"
    BY <1>11 DEF InstallFails, ActivateFails, VerifyRejects, VerifyFails, Live
  <2>2. RunStage' > RunStage
    BY <2>1 DEF RunStage, Live
  <2>3. QED
    BY <1>1, <2>2
<1>12. ASSUME NEW c \in Cores, Restore(c) \/ RestoreRejects(c) \/ RestoreFails(c)
       PROVE  Advances
  <2>1. /\ pc = "undo" /\ pc' = "undo" /\ journal' = journal
        /\ c \in todo /\ todo' = todo \ {c}
    BY <1>12 DEF Restore, RestoreRejects, RestoreFails, RestoreError, Last, durable
  <2>2. RunStage' = RunStage
    BY <2>1 DEF RunStage, Live
  <2>3. CoresLeft = todo /\ CoresLeft' = todo'
    BY <2>1 DEF CoresLeft, Live
  <2>4. QED
    BY <2>1, <2>2, <2>3 DEF Advances
<1>13. QED
  BY <1>2, <1>3, <1>4, <1>5, <1>6, <1>7, <1>8, <1>9, <1>10, <1>11, <1>12
     DEF Next, WorkerStep, HostFault

(* A run ends: each of its steps, whatever fails, raises a number that is     *)
(* bounded by the number of cores, and edits committed meanwhile do not lower *)
(* it.  No loop of reconcile(), recover() or rollback() is entered again.     *)
THEOREM RunsEnd ==
    Spec => /\ [](RunRank \in 0..MaxRank)
            /\ [][pc # "idle" => IF desired' = desired THEN RunRank' > RunRank
                                                       ELSE RunRank' = RunRank]_vars
<1>1. ASSUME TypeOK, [Next]_vars
      PROVE  [pc # "idle" => IF desired' = desired THEN RunRank' > RunRank
                                                   ELSE RunRank' = RunRank]_vars
  <2>1. TypeOK'
    BY <1>1, TypePreserved
  <2>2. ASSUME pc # "idle", desired' = desired, Next PROVE RunRank' > RunRank
    BY <1>1, <2>1, <2>2, RunStepAdvances, AdvanceRaises
  <2>3. ASSUME desired' # desired, Next PROVE RunRank' = RunRank
    <3>1. Panel
      <4>1. ASSUME WorkerStep PROVE desired' = desired
        BY <4>1 DEF WorkerStep, Load, PublishMarker, RecoverNothing, RecoverAdopt,
           RecoverDiscard, RecoverBegin, Done, Begin, Plan, RefuseListeners, Stage, Validate,
           AllSnapshotted, CheckFresh, BeginPublish, Publish, Finish, RollbackBegin, UndoEnd,
           TakeSnapshot, MarkStarted, Install, Activate, Verify, VerifyRejects, Restore,
           RestoreRejects, RestoreError
      <4>2. ASSUME HostFault PROVE desired' = desired
        BY <4>2 DEF HostFault, RefuseUnsupported, FailWithoutMutation, InstallFails,
           ActivateFails, VerifyFails, RestoreFails, RestoreError
      <4>3. ASSUME Crash PROVE desired' = desired
        BY <4>3 DEF Crash
      <4>4. QED
        BY <2>3, <4>1, <4>2, <4>3 DEF Next
    <3>2. UNCHANGED <<pc, journal, goal, todo>>
      BY <3>1 DEF Panel, Commit, durable, memory
    <3>3. QED
      BY <3>2 DEF RunRank, RunStage, CoresLeft, CoreStep, Planned, Waiting
  <2>4. QED
    BY <1>1, <2>2, <2>3
<1>2. QED
  BY <1>1, RankIsBounded, TypeInitially, TypePreserved, PTL DEF Spec

(* Cores are worked on in their order, so a set of them has a first and a     *)
(* last one.                                                                  *)
LEMMA CoresHaveEnds ==
    ASSUME NEW S \in SUBSET Cores, S # {}
    PROVE  (\E c \in S : First(c, S)) /\ (\E c \in S : Last(c, S))
<1> DEFINE Less == {ss \in Nat \X Nat : ss[1] < ss[2]}
<1>1. IsWellFoundedOn(Less, Nat)
  BY NatLessThanWellFounded DEF OpToRel
<1>2. \A x, y \in Nat : x < y => <<x, y>> \in Less
  OBVIOUS
<1> HIDE DEF Less
<1>3. NumCores \in Nat /\ \A c \in S : c \in Nat /\ c <= NumCores /\ NumCores - c \in Nat
  BY ConstantsAssumption DEF Cores
<1>4. \E c \in S : First(c, S)
  <2>1. S \subseteq Nat
    BY <1>3
  <2>2. PICK x \in S : \A y \in S : <<y, x>> \notin Less
    BY <1>1, <2>1, WFMin
  <2>3. \A y \in S : ~(y < x)
    BY <1>2, <1>3, <2>2
  <2>4. \A y \in S : x <= y
    BY <1>3, <2>3
  <2>5. QED
    BY <2>4 DEF First
<1>5. \E c \in S : Last(c, S)
  <2> DEFINE After == {NumCores - c : c \in S}
  <2>1. After \subseteq Nat /\ After # {}
    BY <1>3
  <2>2. PICK x \in After : \A y \in After : <<y, x>> \notin Less
    BY <1>1, <2>1, WFMin
  <2>3. \A y \in After : ~(y < x)
    BY <1>2, <2>1, <2>2
  <2>4. PICK c \in S : x = NumCores - c
    BY <2>2
  <2>5. \A d \in S : ~(NumCores - d < NumCores - c)
    BY <2>3, <2>4
  <2>6. \A d \in S : d <= c
    BY <1>3, <2>4, <2>5
  <2>7. QED
    BY <2>6 DEF Last
<1>6. QED
  BY <1>4, <1>5

(* Between mutation_started and verified there is a core that is worked on.   *)
OneIsCurrent == pc \in {"install", "activate", "verify"} => \E c \in Cores : Current(c)

LEMMA CurrentStep == ASSUME TypeOK, OneIsCurrent, [Next]_vars PROVE OneIsCurrent'
<1> USE DEF OneIsCurrent, Current
<1>1. ASSUME NEW c \in Cores, MarkStarted(c) PROVE OneIsCurrent'
  BY <1>1 DEF MarkStarted, TypeOK, JournalEntry
<1>2. ASSUME NEW c \in Cores, Install(c) \/ Activate(c) PROVE OneIsCurrent'
  BY <1>2 DEF Install, Activate, TypeOK, JournalEntry
<1>3. ASSUME NEW c \in Cores,
             \/ TakeSnapshot(c) \/ InstallFails(c) \/ ActivateFails(c) \/ Verify(c)
             \/ VerifyRejects(c) \/ VerifyFails(c) \/ Restore(c) \/ RestoreRejects(c)
             \/ RestoreFails(c)
      PROVE  OneIsCurrent'
  BY <1>3 DEF TakeSnapshot, InstallFails, ActivateFails, Verify, VerifyRejects, VerifyFails,
     Restore, RestoreRejects, RestoreFails, RestoreError
<1>4. ASSUME \/ Load \/ PublishMarker \/ RecoverNothing \/ RecoverAdopt \/ RecoverDiscard
             \/ RecoverBegin \/ Done \/ Begin \/ Plan \/ RefuseListeners \/ Stage \/ Validate
      PROVE  OneIsCurrent'
  BY <1>4 DEF Load, PublishMarker, RecoverNothing, RecoverAdopt, RecoverDiscard, RecoverBegin,
     Done, Begin, Plan, RefuseListeners, Stage, Validate
<1>5. ASSUME \/ AllSnapshotted \/ CheckFresh \/ BeginPublish \/ Publish \/ Finish
             \/ RollbackBegin \/ UndoEnd \/ RefuseUnsupported \/ FailWithoutMutation \/ Crash
      PROVE  OneIsCurrent'
  BY <1>5 DEF AllSnapshotted, CheckFresh, BeginPublish, Publish, Finish, RollbackBegin, UndoEnd,
     RefuseUnsupported, FailWithoutMutation, Crash
<1>6. ASSUME Panel \/ UNCHANGED vars PROVE OneIsCurrent'
  BY <1>6 DEF Panel, Commit, durable, vars
<1>7. QED
  BY <1>1, <1>2, <1>3, <1>4, <1>5, <1>6 DEF Next, WorkerStep, HostFault

(* What the next step of a run waits for, besides conditions of which one or  *)
(* the other is always true.                                                  *)
GoesOn ==
    \/ pc \in {"marker", "recover", "ready", "plan", "stage", "validate", "fresh",
               "publish", "finish", "rollback"}
    \/ pc \in {"snapshot", "mutate"} /\ (CoresLeft = {} \/ \E c \in Cores : First(c, CoresLeft))
    \/ pc \in {"install", "activate", "verify"} /\ \E c \in Cores : Current(c)
    \/ pc = "undo" /\ (todo = {} \/ \E c \in Cores : Last(c, todo))

(* No run gets stuck: the loops of reconcile() and rollback() over the        *)
(* BTreeMap have a next core until none is left, and the core whose mutation  *)
(* was journaled is there when it is installed, activated and verified.       *)
(* Together with RunsEnd, a worker that goes on comes to its end.             *)
THEOREM RunsAreNeverStuck == Spec => [](pc # "idle" => GoesOn)
<1>1. Init => OneIsCurrent
  BY DEF Init, OneIsCurrent
<1>2. TypeOK /\ OneIsCurrent /\ [Next]_vars => OneIsCurrent'
  BY CurrentStep
<1>3. ASSUME TypeOK, OneIsCurrent, pc # "idle" PROVE GoesOn
  <2>1. CoresLeft \in SUBSET Cores /\ todo \in SUBSET Cores
    BY <1>3, RankType DEF Measured, TypeOK
  <2>2. CoresLeft = {} \/ \E c \in Cores : First(c, CoresLeft)
    BY <2>1, CoresHaveEnds
  <2>3. todo = {} \/ \E c \in Cores : Last(c, todo)
    BY <2>1, CoresHaveEnds
  <2>4. pc \in PCs
    BY <1>3 DEF TypeOK
  <2>5. QED
    BY <1>3, <2>2, <2>3, <2>4 DEF GoesOn, OneIsCurrent, PCs
<1>4. QED
  BY <1>1, <1>2, <1>3, TypeInitially, TypePreserved, PTL DEF Spec
===============================================================================
