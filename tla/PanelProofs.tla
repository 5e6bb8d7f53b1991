------------------------------ MODULE PanelProofs ------------------------------
(* Theorems about what the panel tells.  An administrator is told how the     *)
(* reconciler fares (ControlPlane): for every set of fragments and contents,  *)
(* every bound, and a worker that may die at every step.  A client is given   *)
(* a document, and an administrator the page that explains it                 *)
(* (ClientDocuments): for all profiles, pools, rules, sets and domains.       *)
EXTENDS ControlPlane, ClientDocuments, TLAPS, WellFoundedInduction

LEMMA Bounds == 0 \in Gens /\ Gens \subseteq Nat /\ \A g \in Gens : g < MaxGen => g + 1 \in Gens
  BY ConstantsAssumption DEF Gens

LEMMA TypeInitially == Init => TypeOK
<1>1. SUFFICES ASSUME Init PROVE TypeOK
  OBVIOUS
<1>2. row \in Row /\ sync \in SyncStatuses
  BY <1>1, Bounds DEF Init, Row, Statuses, SyncStatuses
<1>3. backup \in [row : Row, sync : SyncStatuses] /\ overtaken \in BOOLEAN
  BY <1>1, <1>2 DEF Init
<1>4. applied \in Content /\ goal \in Content
  BY <1>1, Bounds DEF Init, Content
<1>5. QED
  BY <1>1, <1>2, <1>3, <1>4, Bounds, ConstantsAssumption DEF Init, TypeOK, Statuses, PCs

LEMMA TypePreserved == ASSUME TypeOK, [Next]_vars PROVE TypeOK'
<1>1. ASSUME NEW want \in Wants, Commit(want) PROVE TypeOK'
  <2>1. want \in SUBSET Fragments
    BY ConstantsAssumption
  <2>2. row.gen + 1 \in Gens
    BY <1>1, Bounds DEF TypeOK, Row, Gens, Commit
  <2>3. row' \in Row
    BY <1>1, <2>1, <2>2 DEF TypeOK, Row, Commit, Statuses
  <2>4. QED
    BY <1>1, <2>3 DEF TypeOK, Commit, SyncStatuses, bridge
<1>2. ASSUME NEW g \in 1..MaxGen, Request(g) PROVE TypeOK'
  BY <1>2 DEF TypeOK, Request, database, bounds, Gens
<1>3. ASSUME Backup PROVE TypeOK'
  BY <1>3 DEF TypeOK, Backup, bridge, bounds
<1>4. ASSUME Restore PROVE TypeOK'
  BY <1>4, ConstantsAssumption DEF TypeOK, Restore, bridge
<1>5. ASSUME Start \/ Load \/ RecoverNothing \/ NothingToDo \/ Publish \/ End
      PROVE  TypeOK'
  BY <1>5 DEF TypeOK, Start, Load, RecoverNothing, NothingToDo, Publish, End,
     database, bridge, bounds, PCs, Desired, Row, Content
<1>6. ASSUME ReportRecovery \/ Report PROVE TypeOK'
  <2>1. row' \in Row
    BY <1>6 DEF TypeOK, ReportRecovery, Report, Persist, Row, Content
  <2>2. QED
    BY <1>6, <2>1 DEF TypeOK, ReportRecovery, Report, bridge, bounds, PCs
<1>7. ASSUME Recover \/ RecoverFails \/ Begin \/ Refuse \/ Fail \/ Finish PROVE TypeOK'
  <2>1. faults' \in 0..MaxFaults
    BY <1>7, ConstantsAssumption DEF TypeOK, Recover, RecoverFails, Begin, Refuse, Fail, Finish, Fault, bounds
  <2>2. \A status \in Statuses : [journal EXCEPT !.status = status]
                                     \in [gen : Gens, status : Statuses, planned : BOOLEAN]
    BY DEF TypeOK
  <2>3. Failures \subseteq Statuses /\ RecoveryOutcomes \subseteq Statuses
        /\ {"applying", "applied", "failed", "recovery-required"} \subseteq Statuses
    BY DEF Statuses, Failures, RecoveryOutcomes
  <2>4. CASE Begin
    BY <2>3, <2>4 DEF TypeOK, Begin, Content, database, bridge, bounds, PCs
  <2>5. CASE Recover \/ RecoverFails \/ Refuse \/ Fail \/ Finish
    <3>1. journal' \in [gen : Gens, status : Statuses, planned : BOOLEAN]
      BY <2>2, <2>3, <2>5 DEF Recover, RecoverFails, Refuse, Fail, Finish
    <3>2. QED
      BY <2>1, <2>5, <3>1 DEF TypeOK, Recover, RecoverFails, Refuse, Fail, Finish,
         database, bridge, bounds, PCs
  <2>6. QED
    BY <1>7, <2>4, <2>5
<1>8. ASSUME Bail \/ Crash PROVE TypeOK'
  BY <1>8, ConstantsAssumption DEF TypeOK, Bail, Crash, Fault, database, bridge, PCs
<1>9. CASE UNCHANGED vars
  BY <1>9 DEF vars, TypeOK
<1>10. ASSUME Observe \/ ObserveFails PROVE TypeOK'
  <2>1. sync' \in SyncStatuses
    BY <1>10 DEF TypeOK, Observe, ObserveFails, Replace, Observation, SyncStatuses
  <2>2. overtaken' \in BOOLEAN
    <3>1. CASE UNCHANGED overtaken
      BY <3>1 DEF TypeOK
    <3>2. ASSUME NEW status, Replace(status) PROVE overtaken' \in BOOLEAN
      BY <3>2 DEF Replace
    <3>3. QED
      BY <1>10, <3>1, <3>2 DEF Observe, ObserveFails
  <2>3. pc' \in PCs /\ faults' \in 0..MaxFaults
    BY <1>10, ConstantsAssumption DEF TypeOK, Observe, ObserveFails, Fault, PCs
  <2>4. QED
    BY <1>10, <2>1, <2>2, <2>3 DEF TypeOK, Observe, ObserveFails, bridge
<1>11. QED
  BY <1>1, <1>2, <1>3, <1>4, <1>5, <1>6, <1>7, <1>8, <1>9, <1>10
     DEF Next, Panel, WorkerStep, Failure

(* What the worker reads, claims and reports always has its type.             *)
THEOREM ControlTypeCorrect == Spec => []TypeOK
  BY TypeInitially, TypePreserved, PTL DEF Spec

-----------------------------------------------------------------------------
(* The applied generation of a row                                            *)

(* An interrupted transaction is about a generation not older than the        *)
(* applied one, and so is every outcome that is still to be reported.         *)
JournalLeads ==
    ~Settled \/ Reporting => applied.gen <= journal.gen

(* A transaction is about the loaded generation, newer than the applied one   *)
(* up to the step that publishes it.                                          *)
Transaction ==
    /\ pc \in {"apply", "published"} => ~Settled /\ journal.gen = goal.gen
    /\ pc = "apply" => applied.gen < goal.gen
    /\ pc = "published" => applied = goal

RowsInOrder == GenerationsInOrder /\ backup.row.applied <= backup.row.gen

OrderInv == JournalLeads /\ Transaction /\ RowsInOrder

LEMMA OrderInitially == Init => OrderInv
  BY DEF Init, OrderInv, JournalLeads, Transaction, RowsInOrder, GenerationsInOrder, Settled, Reporting

(* The generations the invariant compares are numbers.                        *)
LEMMA GensAreNumbers ==
    ASSUME TypeOK
    PROVE  /\ row.gen \in Nat /\ row.applied \in Nat
           /\ backup.row.gen \in Nat /\ backup.row.applied \in Nat
           /\ journal.gen \in Nat /\ applied.gen \in Nat /\ goal.gen \in Nat
  BY Bounds DEF TypeOK, Row, Content

(* Only the report of a run or of a recovery writes an applied generation.    *)
LEMMA PersistInOrder ==
    ASSUME TypeOK, OrderInv, Persist, Reporting
    PROVE  GenerationsInOrder'
<1>1. CASE row.gen = journal.gen
  BY <1>1, GensAreNumbers DEF Persist, OrderInv, JournalLeads, GenerationsInOrder, TypeOK, Row
<1>2. CASE row.gen # journal.gen
  BY <1>2 DEF Persist, OrderInv, RowsInOrder, GenerationsInOrder
<1>3. QED
  BY <1>1, <1>2

LEMMA OrderStep == ASSUME TypeOK, OrderInv, [Next]_vars PROVE OrderInv'
<1> USE GensAreNumbers
<1>1. ASSUME NEW want \in Wants, Commit(want) PROVE OrderInv'
  BY <1>1 DEF Commit, TypeOK, Row, OrderInv, JournalLeads, Transaction, RowsInOrder,
     GenerationsInOrder, Settled, Reporting, bounds
<1>2. ASSUME \/ \E g \in 1..MaxGen : Request(g)
             \/ Backup \/ Restore
             \/ UNCHANGED vars
      PROVE  OrderInv'
  BY <1>2 DEF Request, Backup, Restore, OrderInv, JournalLeads, Transaction, RowsInOrder,
     GenerationsInOrder, Settled, Reporting, NoProcess, database, bounds, vars
<1>3. ASSUME \/ Start \/ Load \/ RecoverNothing \/ NothingToDo \/ Observe \/ End
             \/ Bail \/ ObserveFails \/ Crash
      PROVE  OrderInv'
  BY <1>3 DEF Start, Load, RecoverNothing, NothingToDo, Observe, End, Bail, ObserveFails, Crash, OrderInv,
     JournalLeads, Transaction, RowsInOrder, GenerationsInOrder, Settled, Reporting,
     NoProcess, database
<1>4. ASSUME Recover \/ RecoverFails PROVE OrderInv'
  BY <1>4 DEF Recover, RecoverFails, TypeOK, OrderInv, JournalLeads, Transaction, RowsInOrder,
     GenerationsInOrder, Settled, Reporting, database
<1>5. ASSUME Begin PROVE OrderInv'
  BY <1>5 DEF Begin, OrderInv, JournalLeads, Transaction, RowsInOrder,
     GenerationsInOrder, Settled, Reporting, database
<1>6. ASSUME Refuse \/ Fail \/ Finish PROVE OrderInv'
  BY <1>6 DEF Refuse, Fail, Finish, TypeOK, OrderInv, JournalLeads, Transaction, RowsInOrder,
     GenerationsInOrder, Settled, Reporting, database
<1>7. ASSUME Publish PROVE OrderInv'
  BY <1>7 DEF Publish, OrderInv, JournalLeads, Transaction, RowsInOrder,
     GenerationsInOrder, Settled, Reporting, database
<1>8. ASSUME ReportRecovery \/ Report PROVE OrderInv'
  <2>1. GenerationsInOrder'
    BY <1>8, PersistInOrder DEF ReportRecovery, Report, Reporting
  <2>2. QED
    BY <1>8, <2>1 DEF ReportRecovery, Report, OrderInv, JournalLeads, Transaction, RowsInOrder,
       Settled, Reporting
<1>9. QED
  BY <1>1, <1>2, <1>3, <1>4, <1>5, <1>6, <1>7, <1>8 DEF Next, Panel, WorkerStep, Failure

LEMMA OrderInvariant == Spec => [](TypeOK /\ OrderInv)
<1>1. Init => TypeOK /\ OrderInv
  BY TypeInitially, OrderInitially
<1>2. TypeOK /\ OrderInv /\ [Next]_vars => (TypeOK /\ OrderInv)'
  BY TypePreserved, OrderStep
<1>3. QED
  BY <1>1, <1>2, PTL DEF Spec

(* reconcile_state never shows an applied generation ahead of the desired one,*)
(* whenever the worker dies and whichever copies of the database come back.   *)
THEOREM RowIsInOrder == Spec => []GenerationsInOrder
<1>1. OrderInv => GenerationsInOrder
  BY DEF OrderInv, RowsInOrder
<1>2. QED
  BY <1>1, OrderInvariant, PTL


-----------------------------------------------------------------------------
(* A database that is never restored                                          *)

(* What is loaded or applied is not newer than the row, and at the generation *)
(* of the row it is the content of the row.                                   *)
RowLeads ==
    /\ \A content \in {goal, applied} :
           /\ content.gen <= row.gen
           /\ content.gen = row.gen => content = Desired
    /\ goal.gen = applied.gen => goal.want = applied.want
    /\ journal.gen <= row.gen

Loaded == pc \notin {"idle", "died", "claimed"}

LoadedLeads == Loaded => applied.gen <= goal.gen

(* An outcome `applied` waits for its report only while it is true.           *)
AppliedOutcome ==
    /\ Reporting /\ journal.status = "applied" => applied.gen = journal.gen
    /\ row.status = "applied" => applied.gen = row.gen /\ row.applied = row.gen

(* What is called synced by a run that was not overtaken is about the row, and*)
(* so is every run that was loaded since.                                     *)
ObservedLeads ==
    sync = "synced" /\ ~overtaken => goal.gen = row.gen /\ applied.want = row.want

RequestsLead ==
    /\ published <= row.gen
    /\ pc \notin {"claimed", "died"} => request # None \/ published <= goal.gen

TruthInv == RowLeads /\ LoadedLeads /\ AppliedOutcome /\ ObservedLeads /\ RequestsLead

LEMMA TruthInitially == Init => TruthInv
  BY ConstantsAssumption DEF Init, TruthInv, RowLeads, LoadedLeads, AppliedOutcome, ObservedLeads,
     RequestsLead, Loaded, Desired, Reporting

LEMMA NumbersAreNotNone ==
    ASSUME TypeOK
    PROVE  /\ row.gen # None /\ goal.gen # None
           /\ published \in Nat
  BY GensAreNumbers, Bounds, ConstantsAssumption DEF TypeOK

LEMMA PersistTells ==
    ASSUME TypeOK, TruthInv, Persist, Reporting, UNCHANGED <<applied, journal, goal>>
    PROVE  /\ Desired' = Desired /\ row'.gen = row.gen /\ row'.want = row.want
           /\ row'.status = "applied" => applied.gen = row.gen /\ row'.applied = row.gen
<1>1. CASE row.gen = journal.gen
  <2>1. /\ row'.gen = row.gen /\ row'.want = row.want
        /\ row'.applied = applied.gen /\ row'.status = journal.status
    BY <1>1 DEF Persist, TypeOK, Row
  <2>2. QED
    BY <1>1, <2>1 DEF TruthInv, AppliedOutcome, Desired
<1>2. CASE row.gen # journal.gen
  BY <1>2 DEF Persist, TruthInv, AppliedOutcome, Desired
<1>3. QED
  BY <1>1, <1>2

LEMMA TruthStep ==
    ASSUME TypeOK, OrderInv, TruthInv, [Next]_vars, NeverRestored'
    PROVE  TruthInv'
<1> USE GensAreNumbers, NumbersAreNotNone DEF bounds
<1>1. ASSUME NEW want \in Wants, Commit(want) PROVE TruthInv'
  <2>1. row'.gen = row.gen + 1 /\ row'.status = "pending"
    BY <1>1 DEF Commit, TypeOK, Row
  <2>2. row'.gen # None
    BY <2>1, ConstantsAssumption
  <2>3. QED
    BY <1>1, <2>1, <2>2 DEF Commit, TruthInv, RowLeads, LoadedLeads, AppliedOutcome, ObservedLeads,
       RequestsLead, Loaded, Reporting, bridge
<1>2. ASSUME NEW g \in 1..MaxGen, Request(g) PROVE TruthInv'
  <2>1. request' # None /\ published' <= row.gen
    BY <1>2, ConstantsAssumption DEF Request, TruthInv, RequestsLead
  <2>2. QED
    BY <1>2, <2>1 DEF Request, TruthInv, RowLeads, LoadedLeads, AppliedOutcome, ObservedLeads,
       RequestsLead, Loaded, Desired, Reporting, database
<1>3. ASSUME Backup \/ UNCHANGED vars PROVE TruthInv'
  BY <1>3 DEF Backup, TruthInv, RowLeads, LoadedLeads, AppliedOutcome, ObservedLeads,
     RequestsLead, Loaded, Desired, Reporting, bridge, vars
<1>4. ~Restore
  BY DEF Restore, TypeOK, NeverRestored
<1>5. ASSUME Start \/ RecoverNothing \/ NothingToDo \/ End \/ Bail \/ Crash
      PROVE  TruthInv'
  BY <1>5 DEF Start, RecoverNothing, NothingToDo, End, Bail, Crash, TruthInv, RowLeads,
     LoadedLeads, AppliedOutcome, ObservedLeads, RequestsLead, Loaded, Desired, Reporting,
     NoProcess, database, bridge
<1>6. ASSUME Load PROVE TruthInv'
  BY <1>6 DEF Load, TruthInv, RowLeads, LoadedLeads, AppliedOutcome, ObservedLeads,
     RequestsLead, Loaded, Desired, Reporting, database, bridge
<1>7. ASSUME Recover \/ RecoverFails PROVE TruthInv'
  <2>1. journal'.gen = journal.gen /\ (journal'.status = "applied" => applied.gen = journal.gen)
    BY <1>7 DEF Recover, RecoverFails, TypeOK, RecoveryOutcomes
  <2>2. QED
    BY <1>7, <2>1 DEF Recover, RecoverFails, TruthInv, RowLeads, LoadedLeads, AppliedOutcome,
       ObservedLeads, RequestsLead, Loaded, Desired, Reporting, database, bridge
<1>8. ASSUME Begin PROVE TruthInv'
  BY <1>8 DEF Begin, TruthInv, RowLeads, LoadedLeads, AppliedOutcome, ObservedLeads,
     RequestsLead, Loaded, Desired, Reporting, database, bridge
<1>9. ASSUME Refuse \/ Fail \/ Finish PROVE TruthInv'
  <2>1. journal'.gen = journal.gen /\ (journal'.status = "applied" => applied.gen = journal.gen)
    BY <1>9 DEF Refuse, Fail, Finish, TypeOK, OrderInv, Transaction, Failures
  <2>2. QED
    BY <1>9, <2>1 DEF Refuse, Fail, Finish, TruthInv, RowLeads, LoadedLeads, AppliedOutcome,
       ObservedLeads, RequestsLead, Loaded, Desired, Reporting, database, bridge
<1>10. ASSUME Publish PROVE TruthInv'
  <2>1. row.status # "applied"
    BY <1>10 DEF Publish, OrderInv, Transaction, TruthInv, RowLeads, AppliedOutcome
  <2>2. sync = "synced" /\ ~overtaken => goal.want = row.want
    BY <1>10 DEF Publish, TruthInv, RowLeads, ObservedLeads, Loaded, Desired
  <2>3. QED
    BY <1>10, <2>1, <2>2 DEF Publish, TruthInv, RowLeads, LoadedLeads, AppliedOutcome,
       ObservedLeads, RequestsLead, Loaded, Desired, Reporting, database, bridge
<1>11. ASSUME Observe \/ ObserveFails PROVE TruthInv'
  <2>1. ASSUME sync' = "synced", ~overtaken' PROVE goal.gen = row.gen /\ applied.want = row.want
    <3>1. CASE UNCHANGED <<sync, overtaken>>
      BY <2>1, <3>1 DEF TruthInv, ObservedLeads
    <3>2. CASE Replace(Observation)
      <4>1. sync' = Observation /\ (Observation = "synced" /\ goal.gen # row.gen => overtaken')
        BY <3>2 DEF Replace
      <4>2. goal.gen = row.gen
        BY <2>1, <4>1
      <4>3. applied.want = goal.want
        BY <2>1, <4>1 DEF Observation
      <4>4. goal.want = row.want
        BY <4>2 DEF TruthInv, RowLeads, Desired
      <4>5. QED
        BY <4>2, <4>3, <4>4
    <3>3. CASE Replace("off")
      BY <2>1, <3>3 DEF Replace
    <3>4. QED
      BY <1>11, <3>1, <3>2, <3>3 DEF Observe, ObserveFails
  <2>2. UNCHANGED <<row, request, published, journal, applied, goal>> /\ pc = "observe" /\ pc' = "end"
    BY <1>11 DEF Observe, ObserveFails, bridge
  <2>3. QED
    BY <2>1, <2>2 DEF TruthInv, RowLeads, LoadedLeads, AppliedOutcome,
       ObservedLeads, RequestsLead, Loaded, Desired, Reporting
<1>12. ASSUME ReportRecovery \/ Report PROVE TruthInv'
  <2>1. Persist /\ Reporting /\ UNCHANGED <<applied, journal, goal, sync, overtaken, request, published>>
    BY <1>12 DEF ReportRecovery, Report, Reporting, bridge, bounds
  <2>2. /\ Desired' = Desired /\ row'.gen = row.gen /\ row'.want = row.want
        /\ row'.status = "applied" => applied.gen = row.gen /\ row'.applied = row.gen
    BY <2>1, PersistTells
  <2>3. Loaded /\ pc' \notin {"recovered", "report", "claimed", "died"}
    BY <1>12 DEF ReportRecovery, Report, Loaded
  <2>4. QED
    BY <2>1, <2>2, <2>3 DEF TruthInv, RowLeads, LoadedLeads, AppliedOutcome, ObservedLeads,
       RequestsLead, Loaded, Reporting
<1>13. QED
  BY <1>1, <1>2, <1>3, <1>4, <1>5, <1>6, <1>7, <1>8, <1>9, <1>10, <1>11, <1>12
     DEF Next, Panel, WorkerStep, Failure

(* Nothing takes a restore back.                                              *)
LEMMA RestoredBefore == ASSUME TypeOK, [Next]_vars, NeverRestored' PROVE NeverRestored
<1>1. CASE Restore
  BY <1>1, ConstantsAssumption DEF Restore, NeverRestored, TypeOK
<1>2. CASE \/ Panel \/ Backup \/ Failure \/ UNCHANGED vars
  BY <1>2 DEF NeverRestored, Panel, Failure, Commit, Request, Backup, Bail, RecoverFails, Fail,
     ObserveFails, Crash, bounds, vars
<1>3. CASE WorkerStep
  BY <1>3 DEF NeverRestored, WorkerStep, Start, Load, RecoverNothing, Recover, ReportRecovery,
     NothingToDo, Begin, Refuse, Publish, Finish, Report, Observe, End, bounds
<1>4. QED
  BY <1>1, <1>2, <1>3 DEF Next

LEMMA TruthInvariant == Spec => [](TypeOK /\ OrderInv /\ (NeverRestored => TruthInv))
<1> DEFINE Inv == TypeOK /\ OrderInv /\ (NeverRestored => TruthInv)
<1>1. Init => Inv
  BY TypeInitially, OrderInitially, TruthInitially
<1>2. Inv /\ [Next]_vars => Inv'
  BY TypePreserved, OrderStep, TruthStep, RestoredBefore
<1>3. QED
  BY <1>1, <1>2, PTL DEF Spec

(* Until a restore, a row that says applied stands next to the content that   *)
(* the cores run, whichever commits, crashes and retries came in between.     *)
THEOREM ReportsAreTrue == Spec => []RowTellsTheTruth
<1>1. TypeOK /\ (NeverRestored => TruthInv) => RowTellsTheTruth
  BY DEF TruthInv, RowLeads, AppliedOutcome, RowTellsTheTruth
<1>2. QED
  BY <1>1, TruthInvariant, PTL

(* Until a restore, whatever is called synced is what the cores run, unless a *)
(* commit overtook the run that wrote it: whichever runs fail, are killed or  *)
(* observe nothing, there is no other way to a false answer.                  *)
THEOREM SyncIsTrue == Spec => []SyncedIsServed
<1>1. (NeverRestored => TruthInv) => SyncedIsServed
  BY DEF TruthInv, ObservedLeads, SyncedIsServed
<1>2. QED
  BY <1>1, TruthInvariant, PTL

(* Until a restore, a worker that finds nothing to do has nothing to do.      *)
THEOREM NoOpIsSafe == Spec => []NoOpMeansApplied
<1>1. TypeOK /\ (NeverRestored => TruthInv) => NoOpMeansApplied
  BY GensAreNumbers DEF TruthInv, RowLeads, LoadedLeads, Loaded, NoOpMeansApplied
<1>2. QED
  BY <1>1, TruthInvariant, PTL

(* Until a restore, what was requested has been loaded or still has a request,*)
(* whoever overwrites it and whenever it is claimed.                          *)
THEOREM WakeupSurvives == Spec => []WakeupIsKept
<1>1. (NeverRestored => TruthInv) => WakeupIsKept
  BY DEF TruthInv, RequestsLead, WakeupIsKept
<1>2. QED
  BY <1>1, TruthInvariant, PTL

-----------------------------------------------------------------------------
(* Runs that report nothing                                                   *)

(* What the journal tells of a published generation until it is reported: it  *)
(* was applied, or recovery will find that it was, or a worker died with it.  *)
OutcomeIsKept ==
    /\ applied.gen = journal.gen =>
          /\ Reporting => journal.status = "applied" \/ lost = journal.gen
          /\ journal.status = "applying" =>
                journal.planned \/ pc = "published" \/ lost = journal.gen
    /\ journal.status = "recovery-required" => journal.planned /\ applied.gen # journal.gen
    /\ pc \in {"apply", "published"} => journal.status = "applying"
    /\ Reporting => journal.status # "applying"
    /\ pc = "reconcile" => Settled

LEMMA OutcomeStep ==
    ASSUME TypeOK, OrderInv, OutcomeIsKept, [Next]_vars
    PROVE  OutcomeIsKept'
<1> USE GensAreNumbers DEF OutcomeIsKept
<1>1. ASSUME Panel \/ Backup \/ Restore \/ UNCHANGED vars PROVE OutcomeIsKept'
  BY <1>1 DEF Panel, Commit, Request, Backup, Restore, Reporting, Settled, bounds, vars
<1>2. ASSUME Start \/ Load \/ RecoverNothing \/ NothingToDo \/ Observe \/ ObserveFails \/ End \/ Bail
      PROVE  OutcomeIsKept'
  BY <1>2 DEF Start, Load, RecoverNothing, NothingToDo, Observe, ObserveFails, End, Bail, NoProcess, Reporting,
     Settled, bounds
<1>3. ASSUME Recover PROVE OutcomeIsKept'
  <2>1. /\ pc = "recover" /\ pc' = "recovered" /\ UNCHANGED <<applied, lost>>
        /\ journal'.gen = journal.gen /\ journal'.status \in RecoveryOutcomes
    BY <1>3 DEF Recover, TypeOK, bounds
  <2>2. journal'.status \in {"applied", "failed", "rolled-back"}
    BY <2>1 DEF RecoveryOutcomes
  <2>3. ASSUME applied.gen = journal.gen, journal'.status # "applied" PROVE lost = journal.gen
    <3>1. ~journal.planned
      BY <2>1, <2>3 DEF RecoveryOutcomes
    <3>2. journal.status = "applying"
      BY <1>3, <2>3, <3>1 DEF Recover, Settled
    <3>3. QED
      BY <2>1, <2>3, <3>1, <3>2
  <2>4. QED
    BY <2>1, <2>2, <2>3
<1>4. ASSUME RecoverFails PROVE OutcomeIsKept'
  <2>1. journal.planned /\ applied.gen # journal.gen
    BY <1>4 DEF RecoverFails, RecoveryOutcomes
  <2>2. QED
    BY <1>4, <2>1 DEF RecoverFails, TypeOK
<1>5. ASSUME ReportRecovery \/ Report PROVE OutcomeIsKept'
  BY <1>5 DEF ReportRecovery, Report, Reporting, Settled, bounds
<1>6. ASSUME Begin PROVE OutcomeIsKept'
  BY <1>6 DEF Begin, Reporting, Settled
<1>7. ASSUME Refuse \/ Fail PROVE OutcomeIsKept'
  <2>1. applied.gen < journal.gen /\ pc' = "report" /\ UNCHANGED applied
    BY <1>7 DEF Refuse, Fail, OrderInv, Transaction
  <2>2. /\ journal'.gen = journal.gen /\ journal'.planned = journal.planned
        /\ journal'.status \in Failures
        /\ journal'.status = "failed" \/ journal.planned
    BY <1>7 DEF Refuse, Fail, Failures, TypeOK
  <2>3. QED
    BY <2>1, <2>2 DEF Failures
<1>8. ASSUME Publish PROVE OutcomeIsKept'
  BY <1>8 DEF Publish, Reporting, bounds
<1>9. ASSUME Finish PROVE OutcomeIsKept'
  BY <1>9 DEF Finish, Reporting, TypeOK
<1>10. ASSUME Crash PROVE OutcomeIsKept'
  BY <1>10 DEF Crash, Unreported, Reporting
<1>11. QED
  BY <1>1, <1>2, <1>3, <1>4, <1>5, <1>6, <1>7, <1>8, <1>9, <1>10
     DEF Next, WorkerStep, Failure

(* An applied generation that is still the latest is called applied by the    *)
(* row, or its report is still to come, or a worker died with it.             *)
OutcomeIsTold ==
    applied.gen = row.gen =>
        \/ row.status = "applied"
        \/ lost = row.gen
        \/ journal.gen = row.gen /\ (Reporting \/ journal.status = "applying")

LEMMA PersistReports ==
    ASSUME TypeOK, OutcomeIsKept, OutcomeIsTold, Persist, Reporting, applied.gen = row.gen
    PROVE  row'.status = "applied" \/ lost = row.gen
<1>1. CASE row.gen = journal.gen
  BY <1>1 DEF Persist, OutcomeIsKept, TypeOK, Row
<1>2. CASE row.gen # journal.gen
  BY <1>2 DEF Persist, OutcomeIsTold
<1>3. QED
  BY <1>1, <1>2

LEMMA ToldStep ==
    ASSUME TypeOK, OrderInv, TruthInv, OutcomeIsKept, OutcomeIsTold, [Next]_vars, NeverRestored'
    PROVE  OutcomeIsTold'
<1> USE GensAreNumbers DEF OutcomeIsTold
<1>1. ASSUME NEW want \in Wants, Commit(want) PROVE OutcomeIsTold'
  <2>1. row'.gen = row.gen + 1 /\ applied' = applied /\ applied.gen <= row.gen
    BY <1>1 DEF Commit, TypeOK, Row, TruthInv, RowLeads
  <2>2. QED
    BY <2>1
<1>2. ASSUME \/ \E g \in 1..MaxGen : Request(g)
             \/ Backup \/ UNCHANGED vars
      PROVE  OutcomeIsTold'
  BY <1>2 DEF Request, Backup, Reporting, database, bounds, vars
<1>3. ~Restore
  BY DEF Restore, TypeOK, NeverRestored
<1>4. ASSUME Start \/ Load \/ RecoverNothing \/ NothingToDo \/ Observe \/ ObserveFails \/ End \/ Bail
      PROVE  OutcomeIsTold'
  BY <1>4 DEF Start, Load, RecoverNothing, NothingToDo, Observe, ObserveFails, End, Bail, NoProcess, Reporting,
     database, bounds
<1>5. ASSUME Recover \/ RecoverFails PROVE OutcomeIsTold'
  <2>1. journal'.gen = journal.gen /\ pc' = "recovered" /\ UNCHANGED <<row, applied, lost>>
    BY <1>5 DEF Recover, RecoverFails, TypeOK, database, bounds
  <2>2. QED
    BY <2>1 DEF Reporting
<1>6. ASSUME ReportRecovery \/ Report PROVE OutcomeIsTold'
  <2>1. Persist /\ Reporting /\ UNCHANGED <<applied, lost>>
    BY <1>6 DEF ReportRecovery, Report, Reporting, bounds
  <2>2. row'.gen = row.gen
    BY <2>1 DEF Persist, TypeOK, Row
  <2>3. QED
    BY <2>1, <2>2, PersistReports
<1>7. ASSUME Begin PROVE OutcomeIsTold'
  <2>1. /\ ~Reporting /\ Settled /\ UNCHANGED <<row, applied, lost>>
    BY <1>7 DEF Begin, OutcomeIsKept, Reporting, database, bounds
  <2>2. QED
    BY <2>1 DEF Settled
<1>8. ASSUME Refuse \/ Fail PROVE OutcomeIsTold'
  <2>1. /\ applied.gen < journal.gen /\ ~Reporting
        /\ UNCHANGED <<row, applied, lost>>
    BY <1>8 DEF Refuse, Fail, OrderInv, Transaction, Reporting, database, bounds
  <2>2. QED
    BY <2>1
<1>9. ASSUME Publish PROVE OutcomeIsTold'
  <2>1. /\ applied' = goal /\ journal.gen = goal.gen /\ journal.status = "applying"
        /\ UNCHANGED <<row, journal>>
    BY <1>9 DEF Publish, OrderInv, Transaction, OutcomeIsKept, database
  <2>2. QED
    BY <2>1
<1>10. ASSUME Finish PROVE OutcomeIsTold'
  <2>1. /\ pc' = "report" /\ journal'.gen = journal.gen
        /\ journal.gen = goal.gen /\ applied = goal /\ UNCHANGED <<row, applied>>
    BY <1>10 DEF Finish, OrderInv, Transaction, TypeOK, database
  <2>2. QED
    BY <2>1 DEF Reporting
<1>11. ASSUME Crash PROVE OutcomeIsTold'
  <2>1. /\ UNCHANGED <<row, journal, applied>> /\ pc' = "died"
        /\ lost' = IF Unreported THEN journal.gen ELSE lost
    BY <1>11 DEF Crash, database
  <2>2. SUFFICES ASSUME applied.gen = row.gen PROVE OutcomeIsTold'
    BY <2>1
  <2>3. CASE Unreported
    <3>1. applied.gen <= journal.gen
      BY <2>3 DEF Unreported, OrderInv, JournalLeads, Transaction
    <3>2. journal.gen <= row.gen
      BY DEF TruthInv, RowLeads
    <3>3. QED
      BY <2>1, <2>2, <2>3, <3>1, <3>2
  <2>4. CASE ~Unreported
    BY <2>1, <2>2, <2>4 DEF Unreported
  <2>5. QED
    BY <2>3, <2>4
<1>12. QED
  BY <1>1, <1>2, <1>3, <1>4, <1>5, <1>6, <1>7, <1>8, <1>9, <1>10, <1>11
     DEF Next, Panel, WorkerStep, Failure

(* A run that finds the latest generation applied reports nothing: process()  *)
(* returns before mark_reconcile_result. Until a restore, that is right: the  *)
(* row says applied already, unless a worker died with just that report. It   *)
(* is the only way in which an outcome can stay untold.                       *)
SilenceIsRight ==
    NeverRestored /\ pc = "reconcile" /\ goal.gen <= applied.gen /\ goal.gen = row.gen
        => row.status = "applied" \/ lost = row.gen

THEOREM SilentRunsHaveTold == Spec => []SilenceIsRight
<1> DEFINE Inv ==
        /\ TypeOK /\ OrderInv /\ (NeverRestored => TruthInv)
        /\ OutcomeIsKept /\ (NeverRestored => OutcomeIsTold)
<1>1. Init => Inv
  BY TypeInitially, OrderInitially, TruthInitially
     DEF Init, OutcomeIsKept, OutcomeIsTold, Reporting, Settled
<1>2. Inv /\ [Next]_vars => Inv'
  BY TypePreserved, OrderStep, TruthStep, RestoredBefore, OutcomeStep, ToldStep
<1>3. Inv => SilenceIsRight
  <2>1. SUFFICES ASSUME Inv, NeverRestored, pc = "reconcile", goal.gen <= applied.gen,
                        goal.gen = row.gen
                 PROVE  row.status = "applied" \/ lost = row.gen
    BY DEF SilenceIsRight
  <2>2. applied.gen = row.gen
    BY <2>1, GensAreNumbers DEF TruthInv, RowLeads
  <2>3. QED
    BY <2>1, <2>2 DEF OutcomeIsTold, OutcomeIsKept, Settled, Reporting
<1>4. QED
  BY <1>1, <1>2, <1>3, PTL DEF Spec

-----------------------------------------------------------------------------
(* The worker around the transaction keeps what the transaction promises      *)

(* AtomicApply for a host whose fragments are one set: published is           *)
(* applied.json, and what the runtimes serve is its contents.                 *)
Host == {"host"}
OnHost(gen, want) == [gen |-> gen, want |-> [c \in Host |-> want]]
ServedFor(want) == [enabled |-> want # {}, running |-> IF want = {} THEN None ELSE want]

Atomic == INSTANCE AtomicApply WITH
              Cores     <- Host,
              Wants     <- {[c \in Host |-> want] : want \in Wants},
              desired   <- OnHost(row.gen, row.want),
              loaded    <- OnHost(goal.gen, goal.want),
              published <- OnHost(applied.gen, applied.want),
              serving   <- [c \in Host |-> ServedFor(applied.want)]

LEMMA AtomicInitially == Init => Atomic!Init
  BY DEF Init, OnHost, ServedFor, Atomic!Init, Atomic!Nothing, Atomic!ServiceFor

(* An edit is a commit, a load loads, and the step that publishes applies the *)
(* loaded generation, which is newer; nothing else is seen.                   *)
LEMMA AtomicStep ==
    ASSUME TypeOK, OrderInv, [Next]_vars
    PROVE  [Atomic!Next \/ Restore]_(Atomic!vars)
<1>1. ASSUME row'.gen = row.gen, row'.want = row.want, goal' = goal, applied' = applied
      PROVE  UNCHANGED Atomic!vars
  BY <1>1 DEF Atomic!vars
<1>2. ASSUME NEW want \in Wants, Commit(want) PROVE Atomic!Commit([c \in Host |-> want])
  <2>1. row.gen < MaxGen /\ row'.gen = row.gen + 1 /\ row'.want = want
    BY <1>2 DEF Commit, TypeOK, Row
  <2>2. goal' = goal /\ applied' = applied
    BY <1>2 DEF Commit
  <2>3. QED
    BY <2>1, <2>2 DEF OnHost, Atomic!Commit
<1>3. ASSUME Load PROVE Atomic!Load
  <2>1. goal'.gen = row.gen /\ goal'.want = row.want /\ row' = row /\ applied' = applied
    BY <1>3 DEF Load, Desired, database
  <2>2. QED
    BY <2>1 DEF OnHost, Atomic!Load
<1>4. ASSUME Publish PROVE Atomic!Apply
  <2>1. applied' = goal /\ goal' = goal /\ row' = row /\ applied.gen < goal.gen
    BY <1>4 DEF Publish, database, OrderInv, Transaction
  <2>2. goal.gen > applied.gen
    BY <2>1, GensAreNumbers
  <2>3. \A c \in Host : ServedFor(goal.want) = Atomic!ServiceFor(OnHost(goal.gen, goal.want).want[c])
    BY DEF ServedFor, OnHost, Atomic!ServiceFor
  <2>4. QED
    BY <2>1, <2>2, <2>3 DEF OnHost, Atomic!Apply
<1>5. ASSUME Persist PROVE row'.gen = row.gen /\ row'.want = row.want
  BY <1>5 DEF Persist, TypeOK, Row
<1>6. ASSUME \/ \E g \in 1..MaxGen : Request(g)
             \/ Backup \/ Start \/ RecoverNothing \/ Recover \/ ReportRecovery \/ NothingToDo
             \/ Begin \/ Refuse \/ Finish \/ Report \/ Observe \/ End
             \/ Bail \/ RecoverFails \/ Fail \/ ObserveFails \/ Crash \/ UNCHANGED vars
      PROVE  UNCHANGED Atomic!vars
  <2>1. goal' = goal /\ applied' = applied
    BY <1>6 DEF Request, Backup, Start, RecoverNothing, Recover, ReportRecovery, NothingToDo,
       Begin, Refuse, Finish, Report, Observe, ObserveFails, End, Bail, RecoverFails, Fail, Crash, vars
  <2>2. row' = row \/ Persist
    BY <1>6 DEF Request, Backup, Start, RecoverNothing, Recover, ReportRecovery, NothingToDo,
       Begin, Refuse, Finish, Report, Observe, ObserveFails, End, Bail, RecoverFails, Fail, Crash, vars, database
  <2>3. QED
    BY <1>1, <1>5, <2>1, <2>2
<1>7. QED
  BY <1>2, <1>3, <1>4, <1>6 DEF Next, Panel, WorkerStep, Failure, Atomic!Next

(* Seen from the rows and files the panel and the worker share, generations   *)
(* are committed, loaded and applied as AtomicApply says, through every early *)
(* end, failure and crash of process() and every recovery; only a restored    *)
(* database is outside of that promise.                                       *)
THEOREM WorkerAppliesAtomically == Spec => Atomic!Init /\ [][Atomic!Next \/ Restore]_(Atomic!vars)
<1>1. TypeOK /\ OrderInv /\ [Next]_vars => [Atomic!Next \/ Restore]_(Atomic!vars)
  BY AtomicStep
<1>2. QED
  BY <1>1, AtomicInitially, OrderInvariant, PTL DEF Spec

(******************************************************************************)
(* The document of a client and the page that explains it                     *)
(******************************************************************************)

(* The first of some places is one of them, and before all the others.        *)
LEMMA EarliestIsThere ==
    ASSUME NEW places \in SUBSET Nat, places # {}
    PROVE  /\ Earliest(places) \in places
           /\ \A l \in places : Earliest(places) <= l
<1> DEFINE Less == {ss \in Nat \X Nat : ss[1] < ss[2]}
<1>1. IsWellFoundedOn(Less, Nat)
  BY NatLessThanWellFounded DEF OpToRel
<1>2. \A x, y \in Nat : x < y => <<x, y>> \in Less
  OBVIOUS
<1> HIDE DEF Less
<1>3. PICK x \in places : \A y \in places : <<y, x>> \notin Less
  BY <1>1, WFMin
<1>4. ASSUME NEW y \in places PROVE x <= y
  <2>1. x \in Nat /\ y \in Nat
    OBVIOUS
  <2>2. <<y, x>> \notin Less
    BY <1>3
  <2>3. ~(y < x)
    BY <1>2, <2>1, <2>2
  <2>4. QED
    BY <2>1, <2>3
<1>5. QED
  BY <1>4 DEF Earliest

LEMMA EarliestIsUnique ==
    ASSUME NEW places \in SUBSET Nat, NEW x \in places, \A l \in places : x <= l
    PROVE  Earliest(places) = x
<1>1. /\ Earliest(places) \in places
      /\ \A l \in places : Earliest(places) <= l
  BY EarliestIsThere
<1>2. Earliest(places) <= x /\ x <= Earliest(places)
  BY <1>1
<1>3. x \in Nat /\ Earliest(places) \in Nat
  BY <1>1
<1>4. QED
  BY <1>2, <1>3

(* A place holds a rule set or an inline rule.                                *)
LEMMA PlacesFit ==
    /\ Places \subseteq Nat
    /\ \A k \in Places : IsSet(k) => From(k) \in Slugs
    /\ \A k \in Places : ~IsSet(k) => From(k) \in RuleIds
<1>1. /\ Sets \in Seq(Slugs) /\ Rules \in Seq(RuleIds)
      /\ Len(Sets) \in Nat /\ Len(Rules) \in Nat
  BY ClientDocumentsAssumption
<1>2. Places \subseteq Nat
  BY <1>1 DEF Places
<1>3. ASSUME NEW k \in Places, IsSet(k) PROVE From(k) \in Slugs
  <2>1. k \in 1..Len(Sets)
    BY <1>1, <1>3 DEF Places, IsSet
  <2>2. QED
    BY <1>1, <1>3, <2>1 DEF From
<1>4. ASSUME NEW k \in Places, ~IsSet(k) PROVE From(k) \in RuleIds
  <2>1. k - Len(Sets) \in 1..Len(Rules)
    BY <1>1, <1>4 DEF Places, IsSet
  <2>2. QED
    BY <1>1, <1>4, <2>1 DEF From
<1>5. QED
  BY <1>2, <1>3, <1>4

(* Each inline rule has a place.                                              *)
LEMMA PlaceOfRule == \A r \in RuleIds : \E k \in Places : ~IsSet(k) /\ From(k) = r
<1>1. /\ Sets \in Seq(Slugs) /\ Rules \in Seq(RuleIds)
      /\ Len(Sets) \in Nat /\ Len(Rules) \in Nat
  BY ClientDocumentsAssumption
<1>2. ASSUME NEW r \in RuleIds PROVE \E k \in Places : ~IsSet(k) /\ From(k) = r
  <2>1. PICK j \in DOMAIN Rules : Rules[j] = r
    BY DEF RuleIds, Range
  <2>2. j \in 1..Len(Rules)
    BY <1>1
  <2>3. Len(Sets) + j \in Places /\ ~IsSet(Len(Sets) + j) /\ Len(Sets) + j - Len(Sets) = j
    BY <1>1, <2>2 DEF Places, IsSet
  <2>4. QED
    BY <2>1, <2>3 DEF From
<1>3. QED
  BY <1>2

(* The first of some profiles is one of them.                                 *)
LEMMA FirstIsThere ==
    ASSUME NEW have \in SUBSET Profiles, have # {}
    PROVE  First(have) \in have
<1> DEFINE places == {k \in DOMAIN Listed : Listed[k] \in have}
<1>1. Listed \in Seq(Profiles)
  BY ClientDocumentsAssumption
<1>2. places \in SUBSET Nat
  BY <1>1
<1>3. places # {}
  BY DEF Profiles, Range
<1>4. Earliest(places) \in places
  BY <1>2, <1>3, EarliestIsThere
<1>5. First(have) = Listed[Earliest(places)]
  BY DEF First
<1>6. QED
  BY <1>4, <1>5

LEMMA SelectedIsThere ==
    ASSUME NEW m, NEW have
    PROVE  /\ Selected(m, have) \subseteq have
           /\ m[1] = "profile" /\ Selected(m, have) # {} => m[2] \in have
  BY DEF Selected

-----------------------------------------------------------------------------
(* What a document has: its proxies, its groups and what every client has.    *)
Known(have, ps) ==
    {ProfileOf(p) : p \in have} \cup {PoolOf(i) : i \in EnabledPools(ps)} \cup {Direct}

(* validate_policy makes the members of a group known.                        *)
LEMMA MembersAreKnown ==
    ASSUME NEW ps, NEW rs, NEW have, Valid(ps, rs, have), NEW i \in EnabledPools(ps),
           Selectors(ps[i].members, MemberKinds)
    PROVE  Resolve(ps[i].members, have) \subseteq Known(have, ps)
<1>1. SUFFICES ASSUME NEW m \in ps[i].members,
                      NEW x \in IF m[1] \in {"pool", "fixed"} THEN {m}
                                ELSE {ProfileOf(p) : p \in Selected(m, have)}
               PROVE  x \in Known(have, ps)
  BY DEF Resolve
<1>2. m = Direct \/ (m[1] \in MemberKinds /\ m = <<m[1], m[2]>>)
  BY DEF Selectors
<1>3. CASE m = Direct
  BY <1>1, <1>3 DEF Direct, Known
<1>4. CASE m[1] = "pool" /\ m = <<m[1], m[2]>>
  <2>1. m[2] \in EnabledPools(ps)
    BY <1>4 DEF Valid, MemberThere
  <2>2. x = PoolOf(m[2])
    BY <1>1, <1>4 DEF PoolOf
  <2>3. QED
    BY <2>1, <2>2 DEF Known
<1>5. CASE m[1] \in MemberKinds /\ m[1] # "pool"
  <2>1. PICK p \in Selected(m, have) : x = ProfileOf(p)
    BY <1>1, <1>5 DEF MemberKinds, TargetKinds
  <2>2. p \in have
    BY SelectedIsThere
  <2>3. QED
    BY <2>1, <2>2 DEF Known
<1>6. QED
  BY <1>2, <1>3, <1>4, <1>5

(* And the target of a rule.                                                  *)
LEMMA TargetIsKnown ==
    ASSUME NEW ps, NEW rs, NEW have \in SUBSET Profiles, Valid(ps, rs, have),
           NEW r \in RuleIds, On(rs, r), Selectors({rs[r].target}, TargetKinds)
    PROVE  ResolveTarget(rs[r].target, have) \in Known(have, ps)
<1> DEFINE t == rs[r].target
<1>1. t = Direct \/ (t[1] \in TargetKinds /\ t = <<t[1], t[2]>>)
  BY DEF Selectors
<1>2. t = Direct \/ (t[1] # "role" /\ MemberThere(t, have, ps))
  BY DEF Valid
<1> SUFFICES ResolveTarget(t, have) \in Known(have, ps)
  OBVIOUS
<1> HIDE DEF t
<1>3. CASE t = Direct
  BY <1>3 DEF Direct, ResolveTarget, Known
<1>4. CASE t # Direct /\ t[1] = "pool"
  <2>1. t[2] \in EnabledPools(ps) /\ t = PoolOf(t[2])
    BY <1>1, <1>2, <1>4 DEF MemberThere, PoolOf
  <2>2. QED
    BY <1>4, <2>1 DEF ResolveTarget, Known
<1>5. CASE t # Direct /\ t[1] = "profile"
  <2>1. Selected(t, have) # {}
    BY <1>2, <1>5 DEF MemberThere
  <2>2. t[2] \in have /\ t = ProfileOf(t[2])
    BY <1>1, <1>5, <2>1, SelectedIsThere DEF ProfileOf
  <2>3. QED
    BY <1>5, <2>2 DEF ResolveTarget, Known
<1>6. CASE t # Direct /\ t[1] = "capability"
  <2>1. Selected(t, have) # {} /\ Selected(t, have) \subseteq have
    BY <1>2, <1>6, SelectedIsThere DEF MemberThere
  <2>2. First(Selected(t, have)) \in have
    BY <2>1, FirstIsThere
  <2>3. QED
    BY <1>6, <2>2 DEF ResolveTarget, Known
<1>7. QED
  BY <1>1, <1>2, <1>3, <1>4, <1>5, <1>6 DEF t, TargetKinds

(* A document that is served was made of a policy that validates.             *)
LEMMA ServedIsValid ==
    ASSUME NEW w, Generate(w).status = "served"
    PROVE  /\ Valid(w.pool, w.rule, Available(w))
           /\ Generate(w).groups =
                 [i \in EnabledPools(w.pool) |-> Resolve(w.pool[i].members, Available(w))]
           /\ Generate(w).rules = [k \in Active(w) |-> RuleTarget(w, k)]
           /\ Names(Generate(w)) = Known(Available(w), w.pool)
<1>1. Generate(w) # Refused
  BY DEF Refused
<1> DEFINE doc == [status  |-> "served",
                   proxies |-> Available(w),
                   groups  |-> [i \in EnabledPools(w.pool) |-> Resolve(w.pool[i].members, Available(w))],
                   rules   |-> [k \in Active(w) |-> RuleTarget(w, k)]]
<1>2. Generate(w) = doc /\ Valid(w.pool, w.rule, Available(w))
  BY <1>1 DEF Generate
<1>3. QED
  BY <1>2 DEF Names, Known

-----------------------------------------------------------------------------
(* The invariant.  Pools are edited as a whole, so they stay acyclic; a set   *)
(* leads to a pool that is there unless the pool was switched off under it.   *)
DocumentsTyping ==
    /\ profile \subseteq Profiles
    /\ pool \in [Pools -> PoolKept \cup {None}]
    /\ rule \in [RuleIds -> RuleKept \cup {None}]
    /\ set \in [Slugs -> SetKept \cup {None}]
    /\ fetch # None => fetch.profile \subseteq Profiles

SetsLead == \A s \in Slugs \ loose : set[s] # None => SetTarget(set[s].target, pool)

DocumentsInv ==
    /\ DocumentsTyping
    /\ Acyclic(pool)
    /\ SetsLead
    /\ DocumentIsClosed

(* What tables hold are selectors.                                            *)
LEMMA KeptAreSelectors ==
    /\ \A e \in PoolKept : Selectors(e.members, MemberKinds)
    /\ \A e \in RuleKept \cup SetKept : Selectors({e.target}, TargetKinds)
<1>1. Selectors(Moves, TargetKinds)
  BY DEF Selectors, Moves, PoolOf, TargetKinds
<1>2. Selectors(UNION Members, MemberKinds) /\ Selectors(Targets, TargetKinds)
  BY ClientDocumentsAssumption
<1>3. Selectors((UNION Members) \cup Moves, MemberKinds) /\ Selectors(Targets \cup Moves, TargetKinds)
  BY <1>1, <1>2 DEF Selectors, MemberKinds
<1>4. ASSUME NEW e \in PoolKept PROVE Selectors(e.members, MemberKinds)
  <2>1. e.members \subseteq (UNION Members) \cup Moves
    BY DEF PoolKept
  <2>2. QED
    BY <1>3, <2>1 DEF Selectors
<1>5. ASSUME NEW e \in RuleKept \cup SetKept PROVE Selectors({e.target}, TargetKinds)
  <2>1. e.target \in Targets \cup Moves
    BY DEF RuleKept, SetKept
  <2>2. QED
    BY <1>3, <2>1 DEF Selectors
<1>6. QED
  BY <1>4, <1>5

LEMMA DocumentsInitially == DocumentsInit => DocumentsInv
<1>1. SUFFICES ASSUME DocumentsInit PROVE DocumentsInv
  OBVIOUS
<1>2. PICK start \in Starts : /\ profile = start.profile /\ pool = start.pool
                              /\ rule = start.rule /\ set = start.set
  BY <1>1 DEF DocumentsInit
<1>3. /\ start.profile \subseteq Profiles
      /\ start.pool \in [Pools -> PoolKept \cup {None}]
      /\ start.rule \in [RuleIds -> RuleKept \cup {None}]
      /\ start.set \in [Slugs -> SetKept \cup {None}]
      /\ Valid(start.pool, start.rule, start.profile)
      /\ \A s \in Slugs : start.set[s] # None => SetTarget(start.set[s].target, start.pool)
  BY StartsAssumption
<1>4. fetch = None /\ document = None
  BY <1>1 DEF DocumentsInit
<1>5. Acyclic(pool)
  BY <1>2, <1>3 DEF Valid
<1>6. SetsLead
  BY <1>2, <1>3 DEF SetsLead
<1>7. DocumentsTyping
  BY <1>2, <1>3, <1>4 DEF DocumentsTyping
<1>8. DocumentIsClosed
  BY <1>4 DEF DocumentIsClosed
<1>9. QED
  BY <1>5, <1>6, <1>7, <1>8 DEF DocumentsInv

-----------------------------------------------------------------------------
(* The forms.                                                                 *)
LEMMA SavePoolKeeps ==
    ASSUME DocumentsInv, NEW i \in Pools, NEW new \in PoolRow, SavePool(i, new)
    PROVE  DocumentsTyping' /\ Acyclic(pool)' /\ SetsLead'
<1> USE DEF DocumentsInv
<1>1. /\ pool' = [pool EXCEPT ![i] = new]
      /\ Valid(pool', rule, profile)
      /\ loose' = IF new.on THEN loose
                  ELSE loose \cup {s \in Slugs : set[s] # None /\ set[s].target = PoolOf(i)}
      /\ profile' = profile /\ rule' = rule /\ set' = set /\ fetch' = fetch
  BY DEF SavePool, Quiet
<1>2. new \in PoolKept /\ new # None
  BY NoneIsNoRow DEF PoolRow, PoolKept
<1>3. DocumentsTyping'
  BY <1>1, <1>2 DEF DocumentsTyping
<1>4. Acyclic(pool)'
  BY <1>1 DEF Valid, Acyclic
<1>5. \A j \in Pools : On(pool, j) => On(pool', j) \/ (j = i /\ ~new.on)
  BY <1>1, <1>2 DEF On, DocumentsTyping
<1>6. ASSUME NEW s \in Slugs \ loose', set[s] # None PROVE SetTarget(set[s].target, pool')
  <2>1. s \notin loose /\ (~new.on => set[s].target # PoolOf(i))
    BY <1>1, <1>6
  <2>2. SetTarget(set[s].target, pool)
    BY <1>6, <2>1 DEF SetsLead
  <2>3. set[s] \in SetKept
    BY <1>6 DEF DocumentsTyping
  <2>4. set[s].target = Direct \/ set[s].target = <<set[s].target[1], set[s].target[2]>>
    BY <2>3, KeptAreSelectors DEF Selectors
  <2>5. CASE set[s].target = Direct
    BY <2>5 DEF SetTarget
  <2>6. CASE set[s].target # Direct
    <3> DEFINE j == set[s].target[2]
    <3>1. set[s].target[1] = "pool" /\ j \in BuiltIn \cup EnabledPools(pool)
      BY <2>2, <2>6 DEF SetTarget
    <3>2. set[s].target = PoolOf(j)
      BY <2>4, <2>6, <3>1 DEF PoolOf
    <3>3. j \in BuiltIn \cup EnabledPools(pool')
      BY <1>5, <2>1, <3>1, <3>2 DEF EnabledPools
    <3>4. QED
      BY <3>1, <3>3 DEF SetTarget
  <2>7. QED
    BY <2>5, <2>6
<1>7. QED
  BY <1>1, <1>3, <1>4, <1>6 DEF SetsLead

LEMMA DeletePoolKeeps ==
    ASSUME DocumentsInv, NEW i \in Pools, NEW to \in Pools, DeletePool(i, to)
    PROVE  DocumentsTyping' /\ Acyclic(pool)' /\ SetsLead'
<1> USE DEF DocumentsInv
<1> DEFINE moved == {s \in Slugs : set[s] # None /\ set[s].target = PoolOf(i)}
           used == \/ \E j \in Pools : pool[j] # None /\ PoolOf(i) \in pool[j].members
                   \/ \E r \in RuleIds : rule[r] # None /\ rule[r].target = PoolOf(i)
                   \/ \E s \in Slugs : set[s] # None /\ set[s].target = PoolOf(i)
<1>1. /\ pool' = [j \in Pools |-> IF j = i \/ pool[j] = None THEN None
                     ELSE [pool[j] EXCEPT !.members = {Moved(m, i, to) : m \in @}]]
      /\ rule' = [r \in RuleIds |-> IF rule[r] = None THEN None
                     ELSE [rule[r] EXCEPT !.target = Moved(@, i, to)]]
      /\ set' = [s \in Slugs |-> IF s \in moved THEN [set[s] EXCEPT !.target = PoolOf(to)] ELSE set[s]]
      /\ loose' = IF On(pool, to) THEN loose ELSE loose \cup moved
      /\ Valid(pool', rule', profile)
      /\ used => to # i
      /\ profile' = profile /\ fetch' = fetch
  BY DEF DeletePool, Quiet
<1>2. \A m : Moved(m, i, to) \in {m} \cup Moves
  BY DEF Moved, Moves
<1>3. ASSUME NEW j \in Pools, j # i, pool[j] # None
      PROVE  /\ pool'[j] \in PoolKept /\ pool'[j] # None
             /\ pool'[j].on = pool[j].on
  <2>1. pool[j] \in PoolKept
    BY <1>3 DEF DocumentsTyping
  <2>2. pool'[j] = [pool[j] EXCEPT !.members = {Moved(m, i, to) : m \in @}]
    BY <1>1, <1>3
  <2>3. {Moved(m, i, to) : m \in pool[j].members} \subseteq (UNION Members) \cup Moves
    BY <1>2, <2>1 DEF PoolKept
  <2>4. pool'[j] \in PoolKept /\ pool'[j].on = pool[j].on
    BY <2>1, <2>2, <2>3 DEF PoolKept
  <2>5. QED
    BY <2>4, NoneIsNoRow
<1>4. pool' \in [Pools -> PoolKept \cup {None}]
  BY <1>1, <1>3
<1>5. rule' \in [RuleIds -> RuleKept \cup {None}]
  <2>1. ASSUME NEW r \in RuleIds, rule[r] # None
        PROVE  [rule[r] EXCEPT !.target = Moved(@, i, to)] \in RuleKept
    <3>1. rule[r] \in RuleKept
      BY <2>1 DEF DocumentsTyping
    <3>2. Moved(rule[r].target, i, to) \in Targets \cup Moves
      BY <1>2, <3>1 DEF RuleKept
    <3>3. QED
      BY <3>1, <3>2 DEF RuleKept
  <2>2. QED
    BY <1>1, <2>1
<1>6. set' \in [Slugs -> SetKept \cup {None}]
  <2>1. ASSUME NEW s \in moved PROVE [set[s] EXCEPT !.target = PoolOf(to)] \in SetKept
    BY DEF DocumentsTyping, SetKept, Moves
  <2>2. QED
    BY <1>1, <2>1 DEF DocumentsTyping
<1>7. DocumentsTyping'
  BY <1>1, <1>4, <1>5, <1>6 DEF DocumentsTyping
<1>8. Acyclic(pool)'
  BY <1>1 DEF Valid, Acyclic
<1>9. ASSUME NEW j \in EnabledPools(pool), j # i PROVE j \in EnabledPools(pool')
  BY <1>3, <1>9 DEF EnabledPools, On
<1>10. ASSUME NEW s \in Slugs \ loose', set'[s] # None PROVE SetTarget(set'[s].target, pool')
  <2>1. CASE s \in moved
    <3>1. to \in EnabledPools(pool) /\ to # i
      BY <1>1, <1>10, <2>1 DEF EnabledPools
    <3>2. to \in EnabledPools(pool')
      BY <1>9, <3>1
    <3>3. set[s] \in SetKept
      BY <2>1 DEF DocumentsTyping
    <3>4. set'[s].target = PoolOf(to)
      BY <1>1, <2>1, <3>3 DEF SetKept
    <3>5. QED
      BY <3>2, <3>4 DEF SetTarget, PoolOf
  <2>2. CASE s \notin moved
    <3>1. set'[s] = set[s] /\ set[s] # None /\ set[s].target # PoolOf(i) /\ s \notin loose
      BY <1>1, <1>10, <2>2
    <3>2. SetTarget(set[s].target, pool)
      BY <1>10, <3>1 DEF SetsLead
    <3>3. set[s].target = Direct \/ set[s].target = <<set[s].target[1], set[s].target[2]>>
      BY <3>1, KeptAreSelectors DEF DocumentsTyping, Selectors
    <3>4. CASE set[s].target = Direct
      BY <3>1, <3>4 DEF SetTarget
    <3>5. CASE set[s].target # Direct
      <4> DEFINE j == set[s].target[2]
      <4>1. set[s].target[1] = "pool" /\ j \in BuiltIn \cup EnabledPools(pool)
        BY <3>2, <3>5 DEF SetTarget
      <4>2. set[s].target = PoolOf(j)
        BY <3>3, <3>5, <4>1 DEF PoolOf
      <4>3. j \in BuiltIn \cup EnabledPools(pool')
        BY <1>9, <3>1, <4>1, <4>2
      <4>4. QED
        BY <3>1, <4>1, <4>3 DEF SetTarget
    <3>6. QED
      BY <3>4, <3>5
  <2>3. QED
    BY <2>1, <2>2
<1>11. QED
  BY <1>7, <1>8, <1>10 DEF SetsLead

LEMMA FormsKeep ==
    ASSUME DocumentsInv,
           \/ \E r \in RuleIds : DeleteRule(r)
           \/ \E r \in RuleIds, new \in RuleRow : SaveRule(r, new)
           \/ \E s \in Slugs, new \in SetRow : SaveSet(s, new)
           \/ \E p \in Profiles : SwitchProfile(p) \/ SwitchRuntime(Capability[p])
           \/ \E n \in SecretNames : SwitchSecret(n)
    PROVE  DocumentsTyping' /\ Acyclic(pool)' /\ SetsLead' /\ document' = document
<1> USE DEF DocumentsInv
<1>1. ASSUME NEW r \in RuleIds, DeleteRule(r) \/ \E new \in RuleRow : SaveRule(r, new)
      PROVE  DocumentsTyping' /\ Acyclic(pool)' /\ SetsLead' /\ document' = document
  <2>1. RuleRow \subseteq RuleKept
    BY DEF RuleRow, RuleKept
  <2>2. rule' \in [RuleIds -> RuleKept \cup {None}]
    BY <1>1, <2>1 DEF DeleteRule, SaveRule, DocumentsTyping
  <2>3. UNCHANGED <<profile, pool, set, loose, fetch, document>>
    BY <1>1 DEF DeleteRule, SaveRule, Quiet
  <2>4. QED
    BY <2>2, <2>3 DEF DocumentsTyping, SetsLead
<1>2. ASSUME NEW s \in Slugs, NEW new \in SetRow, SaveSet(s, new)
      PROVE  DocumentsTyping' /\ Acyclic(pool)' /\ SetsLead' /\ document' = document
  <2>1. new \in SetKept
    BY DEF SetRow, SetKept
  <2>2. /\ set' = [set EXCEPT ![s] = new] /\ loose' = loose \ {s}
        /\ SetTarget(new.target, pool)
        /\ UNCHANGED <<profile, pool, rule, fetch, document>>
    BY <1>2 DEF SaveSet, Quiet
  <2>3. DocumentsTyping'
    BY <2>1, <2>2 DEF DocumentsTyping
  <2>4. SetsLead'
    BY <2>2 DEF SetsLead, DocumentsTyping
  <2>5. QED
    BY <2>2, <2>3, <2>4
<1>3. ASSUME NEW p \in Profiles, SwitchProfile(p) \/ SwitchRuntime(Capability[p])
      PROVE  DocumentsTyping' /\ Acyclic(pool)' /\ SetsLead' /\ document' = document
  <2>1. profile' \subseteq Profiles
    BY <1>3 DEF SwitchProfile, SwitchRuntime, DocumentsTyping
  <2>2. UNCHANGED <<pool, rule, set, loose, fetch, document>>
    BY <1>3 DEF SwitchProfile, SwitchRuntime, Quiet
  <2>3. QED
    BY <2>1, <2>2 DEF DocumentsTyping, SetsLead
<1>4. ASSUME NEW n \in SecretNames, SwitchSecret(n)
      PROVE  DocumentsTyping' /\ Acyclic(pool)' /\ SetsLead' /\ document' = document
  <2>1. UNCHANGED <<profile, pool, rule, set, loose, fetch, document>>
    BY <1>4 DEF SwitchSecret, Quiet
  <2>2. QED
    BY <2>1 DEF DocumentsTyping, SetsLead
<1>5. QED
  BY <1>1, <1>2, <1>3, <1>4

-----------------------------------------------------------------------------
(* The answer of a subscription.  A rule set that was read earlier and is     *)
(* still the same leads to where the tables of this moment have it.           *)
LEMMA AnswerIsClosed ==
    ASSUME DocumentsInv, ReadPolicy
    PROVE  DocumentIsClosed'
<1> USE DEF DocumentsInv
<1> DEFINE w == [profile |-> fetch.profile, runtime |-> runtime, stored |-> fetch.stored,
                 pool |-> pool, rule |-> rule, set |-> fetch.set]
           doc == Generate(w)
           torn == {s \in Slugs : fetch.set[s] # set[s]}
<1>1. document' = [answer |-> doc, torn |-> torn, loose |-> loose]
  BY DEF ReadPolicy
<1>2. w.pool = pool /\ w.rule = rule /\ w.set = fetch.set /\ w.profile = fetch.profile
  OBVIOUS
<1>3. Available(w) \in SUBSET Profiles
  BY <1>2 DEF ReadPolicy, DocumentsTyping, Available
<1> HIDE DEF w
<1>4. ASSUME doc.status = "served"
      PROVE  /\ \A i \in DOMAIN doc.groups : doc.groups[i] \subseteq Names(doc)
             /\ \A k \in DOMAIN doc.rules :
                   \/ doc.rules[k] \in Names(doc)
                   \/ IsSet(k) /\ (\/ From(k) \in torn \/ From(k) \in loose
                                   \/ doc.rules[k][2] \in BuiltIn)
  <2>1. /\ Valid(pool, rule, Available(w))
        /\ doc.groups = [i \in EnabledPools(pool) |-> Resolve(pool[i].members, Available(w))]
        /\ doc.rules = [k \in Active(w) |-> RuleTarget(w, k)]
        /\ Names(doc) = Known(Available(w), pool)
    BY <1>2, <1>4, ServedIsValid
  <2>2. ASSUME NEW i \in EnabledPools(pool) PROVE doc.groups[i] \subseteq Names(doc)
    <3>1. pool[i] \in PoolKept
      BY DEF EnabledPools, On, DocumentsTyping
    <3>2. Selectors(pool[i].members, MemberKinds)
      BY <3>1, KeptAreSelectors
    <3>3. QED
      BY <2>1, <3>2, MembersAreKnown
  <2>3. ASSUME NEW k \in Active(w), ~IsSet(k) PROVE doc.rules[k] \in Names(doc)
    <3>1. k \in Places /\ On(rule, From(k))
      BY <1>2, <2>3 DEF Active
    <3>2. From(k) \in RuleIds
      BY <2>3, <3>1, PlacesFit
    <3>3. rule[From(k)] \in RuleKept
      BY <3>1, <3>2 DEF On, DocumentsTyping
    <3>4. Selectors({rule[From(k)].target}, TargetKinds)
      BY <3>3, KeptAreSelectors
    <3>5. doc.rules[k] = ResolveTarget(rule[From(k)].target, Available(w))
      BY <1>2, <2>1, <2>3 DEF RuleTarget
    <3>6. QED
      BY <1>3, <2>1, <3>1, <3>2, <3>4, <3>5, TargetIsKnown
  <2>4. ASSUME NEW k \in Active(w), IsSet(k), From(k) \notin torn, From(k) \notin loose
        PROVE  doc.rules[k] \in Names(doc) \/ doc.rules[k][2] \in BuiltIn
    <3> DEFINE s == From(k)
               t == set[s].target
    <3>1. s \in Slugs
      BY <2>4, PlacesFit DEF Active
    <3>2. fetch.set[s] = set[s]
      BY <2>4, <3>1
    <3>3. set[s] # None
      BY <1>2, <2>4, <3>2 DEF Active, On
    <3>4. doc.rules[k] = t
      BY <1>2, <2>1, <2>4, <3>2 DEF RuleTarget
    <3>5. SetTarget(t, pool)
      BY <2>4, <3>1, <3>3 DEF SetsLead
    <3>6. set[s] \in SetKept
      BY <3>1, <3>3 DEF DocumentsTyping
    <3>7. t = Direct \/ t = <<t[1], t[2]>>
      BY <3>6, KeptAreSelectors DEF Selectors
    <3>8. CASE t = Direct
      BY <2>1, <3>4, <3>8 DEF Known
    <3>9. CASE t # Direct /\ t[2] \in EnabledPools(pool)
      <4>1. t = PoolOf(t[2])
        BY <3>5, <3>7, <3>9 DEF SetTarget, PoolOf
      <4>2. QED
        BY <2>1, <3>4, <3>9, <4>1 DEF Known
    <3>10. QED
      BY <3>4, <3>5, <3>8, <3>9 DEF SetTarget
  <2>5. QED
    BY <2>1, <2>2, <2>3, <2>4
<1> HIDE DEF doc, torn
<1>5. document'.answer = doc /\ document'.torn = torn /\ document'.loose = loose
  BY <1>1
<1>6. QED
  BY <1>4, <1>5 DEF DocumentIsClosed

(* Every step keeps the invariant.                                            *)
LEMMA DocumentsStep == DocumentsInv /\ [DocumentsNext]_documentVars => DocumentsInv'
<1>1. SUFFICES ASSUME DocumentsInv, [DocumentsNext]_documentVars PROVE DocumentsInv'
  OBVIOUS
<1>2. document' = document => DocumentIsClosed'
  BY <1>1 DEF DocumentsInv, DocumentIsClosed
<1>3. ASSUME NEW i \in Pools, NEW new \in PoolRow, SavePool(i, new) PROVE DocumentsInv'
  <2>1. document' = document
    BY <1>3 DEF SavePool, Quiet
  <2>2. QED
    BY <1>1, <1>2, <1>3, <2>1, SavePoolKeeps DEF DocumentsInv
<1>4. ASSUME NEW i \in Pools, NEW to \in Pools, DeletePool(i, to) PROVE DocumentsInv'
  <2>1. document' = document
    BY <1>4 DEF DeletePool, Quiet
  <2>2. QED
    BY <1>1, <1>2, <1>4, <2>1, DeletePoolKeeps DEF DocumentsInv
<1>5. ASSUME \/ \E r \in RuleIds : DeleteRule(r)
             \/ \E r \in RuleIds, new \in RuleRow : SaveRule(r, new)
             \/ \E s \in Slugs, new \in SetRow : SaveSet(s, new)
             \/ \E p \in Profiles : SwitchProfile(p) \/ SwitchRuntime(Capability[p])
             \/ \E n \in SecretNames : SwitchSecret(n)
      PROVE  DocumentsInv'
  BY <1>1, <1>2, <1>5, FormsKeep DEF DocumentsInv
<1>6. ASSUME ReadProfiles \/ ReadSecrets \/ ReadSets PROVE DocumentsInv'
  <2>1. UNCHANGED <<profile, pool, rule, set, loose, document>>
    BY <1>6 DEF ReadProfiles, ReadSecrets, ReadSets, rows
  <2>2. fetch'.profile \subseteq Profiles
    BY <1>1, <1>6 DEF ReadProfiles, ReadSecrets, ReadSets, DocumentsInv, DocumentsTyping
  <2>3. QED
    BY <1>1, <1>2, <2>1, <2>2 DEF DocumentsInv, DocumentsTyping, SetsLead
<1>7. ASSUME ReadPolicy PROVE DocumentsInv'
  <2>1. UNCHANGED <<profile, pool, rule, set, loose>> /\ fetch' = None
    BY <1>7 DEF ReadPolicy, rows
  <2>2. DocumentIsClosed'
    BY <1>1, <1>7, AnswerIsClosed
  <2>3. QED
    BY <1>1, <2>1, <2>2 DEF DocumentsInv, DocumentsTyping, SetsLead
<1>8. ASSUME UNCHANGED documentVars PROVE DocumentsInv'
  BY <1>1, <1>2, <1>8 DEF documentVars, DocumentsInv, DocumentsTyping, SetsLead
<1>9. QED
  BY <1>1, <1>3, <1>4, <1>5, <1>6, <1>7, <1>8 DEF DocumentsNext

LEMMA DocumentsInvariant == DocumentsSpec => []DocumentsInv
  BY DocumentsInitially, DocumentsStep, PTL DEF DocumentsSpec

(* A served document mentions no group or proxy it lacks, for any tables,     *)
(* forms and reads in between (mihomo_subscription).                          *)
THEOREM DocumentsAreClosed == DocumentsSpec => []DocumentIsClosed
<1>1. DocumentsInv => DocumentIsClosed
  BY DEF DocumentsInv
<1>2. QED
  BY <1>1, DocumentsInvariant, PTL

-----------------------------------------------------------------------------
(* The page.  A runtime that backs a profile backs all of its capability, so  *)
(* a selector that finds any available profile finds the same ones enabled.   *)
LEMMA CapabilityIsBacked ==
    ASSUME NEW w, NEW t, t[1] = "capability", Selected(t, Available(w)) # {}
    PROVE  Selected(t, Available(w)) = Selected(t, w.profile)
<1>1. /\ Selected(t, Available(w)) = {p \in Available(w) : Capability[p] = t[2]}
      /\ Selected(t, w.profile) = {p \in w.profile : Capability[p] = t[2]}
  BY DEF Selected
<1>2. t[2] \in w.runtime
  BY <1>1 DEF Available, Backed
<1>3. QED
  BY <1>1, <1>2 DEF Available, Backed

LEMMA TargetsAgree ==
    ASSUME NEW w, Generate(w).status = "served", NEW k \in Active(w)
    PROVE  Topology(w)[k].target = RuleTarget(w, k)
<1>1. k \in Places
  BY DEF Active
<1>2. CASE IsSet(k)
  BY <1>2 DEF Topology, Path, RuleTarget
<1>3. CASE ~IsSet(k)
  <2> DEFINE t == w.rule[From(k)].target
  <2>1. From(k) \in RuleIds /\ On(w.rule, From(k))
    BY <1>1, <1>3, PlacesFit DEF Active
  <2>2. t = Direct \/ MemberThere(t, Available(w), w.pool)
    BY <2>1, ServedIsValid DEF Valid
  <2>3. Topology(w)[k].target = ShownTarget(w, t) /\ RuleTarget(w, k) = ResolveTarget(t, Available(w))
    BY <1>3 DEF Topology, Path, RuleTarget
  <2> HIDE DEF t
  <2>4. CASE t[1] # "capability"
    BY <2>3, <2>4 DEF ShownTarget, ResolveTarget
  <2>5. CASE t[1] = "capability"
    <3>1. Selected(t, Available(w)) # {}
      BY <2>2, <2>5 DEF MemberThere, Direct
    <3>2. Selected(t, Available(w)) = Selected(t, w.profile)
      BY <2>5, <3>1, CapabilityIsBacked
    <3>3. QED
      BY <2>3, <2>5, <3>1, <3>2 DEF ShownTarget, ResolveTarget
  <2>6. QED
    BY <2>4, <2>5
<1>4. QED
  BY <1>2, <1>3

(* A path that definitely matches is a rule that hits, and a rule that hits   *)
(* is a path at which the inspection stops.                                   *)
LEMMA StopsCoverHits ==
    ASSUME NEW w, NEW k \in Active(w), NEW d
    PROVE  /\ Definite(Topology(w)[k], d) => Hits(w, k, d)
           /\ Hits(w, k, d) => Topology(w)[k].unsupported \/ Definite(Topology(w)[k], d)
<1>1. CASE IsSet(k)
  <2>1. Provider(w, From(k)) = w.set[From(k)].lines
    BY <1>1 DEF Active, Provider
  <2>2. /\ Topology(w)[k].matchers = {l \in w.set[From(k)].lines : l.plain}
        /\ Topology(w)[k].unsupported = \E l \in w.set[From(k)].lines : ~l.plain
    BY <1>1 DEF Topology, Path
  <2>3. QED
    BY <1>1, <2>1, <2>2 DEF Hits, Definite
<1>2. CASE ~IsSet(k)
  <2>1. /\ Topology(w)[k].matchers = {l \in {w.rule[From(k)].line} : l.plain}
        /\ Topology(w)[k].unsupported = \E l \in {w.rule[From(k)].line} : ~l.plain
    BY <1>2 DEF Topology, Path
  <2>2. QED
    BY <1>2, <2>1 DEF Hits, Definite
<1>3. QED
  BY <1>1, <1>2

LEMMA InspectionAgrees ==
    ASSUME NEW w, Generate(w).status = "served", NEW d,
           Inspect(Topology(w), d).outcome = "matched"
    PROVE  Route(w, Generate(w), d) = Inspect(Topology(w), d).path.target
<1> DEFINE paths == Topology(w)
           doc == Generate(w)
           stops == {k \in DOMAIN paths : paths[k].unsupported \/ Definite(paths[k], d)}
           hits == {k \in DOMAIN doc.rules : Hits(w, k, d)}
           first == Earliest(stops)
<1>1. DOMAIN paths = Active(w) /\ doc.rules = [k \in Active(w) |-> RuleTarget(w, k)]
  BY ServedIsValid DEF Topology
<1>2. Active(w) \subseteq Nat
  BY PlacesFit DEF Active
<1>3. /\ stops # {} /\ Definite(paths[first], d)
      /\ Inspect(paths, d).path = paths[first]
  BY DEF Inspect
<1>4. Route(w, doc, d) = IF hits = {} THEN None ELSE doc.rules[Earliest(hits)]
  BY DEF Route
<1> HIDE DEF paths, doc, first
<1>5. stops \in SUBSET Nat /\ hits \in SUBSET Nat
  BY <1>1, <1>2
<1>6. first \in stops /\ \A l \in stops : first <= l
  BY <1>3, <1>5, EarliestIsThere DEF first
<1>7. hits \subseteq stops
  BY <1>1, StopsCoverHits DEF paths
<1>8. first \in hits
  BY <1>1, <1>3, <1>6, StopsCoverHits DEF paths
<1>9. Earliest(hits) = first
  BY <1>5, <1>6, <1>7, <1>8, EarliestIsUnique
<1>10. paths[first].target = RuleTarget(w, first)
  BY <1>1, <1>6, TargetsAgree DEF paths
<1>11. doc.rules[first] = RuleTarget(w, first)
  BY <1>1, <1>6
<1>12. Route(w, doc, d) = paths[first].target
  BY <1>4, <1>8, <1>9, <1>10, <1>11
<1>13. QED
  BY <1>3, <1>12 DEF paths, doc

(* Where the page shows nothing unresolved, the policy validates for those    *)
(* who are enabled.                                                           *)
LEMMA ResolvedIsValid ==
    ASSUME DocumentsInv, Issues(Now) = {}
    PROVE  /\ Valid(pool, rule, profile)
           /\ \A k \in Active(Now) : IsSet(k) =>
                 LET t == set[From(k)].target IN t = Direct \/ (t[1] = "profile" /\ t[2] \in profile)
                                              \/ (t[1] = "pool" /\ t[2] \in EnabledPools(pool))
<1>1. /\ Now.pool = pool /\ Now.rule = rule /\ Now.set = set /\ Now.profile = profile
  BY DEF Now
<1>2. \A i \in EnabledPools(pool) : PoolState(Now, i) # "unresolved"
  BY <1>1 DEF Issues
<1>3. \A k \in Active(Now) : Topology(Now)[k].state # "unresolved"
  BY DEF Issues
<1> DEFINE Leads(t) == \/ t = Direct
                       \/ t[1] = "profile" /\ t[2] \in profile
                       \/ t[1] = "pool" /\ t[2] \in EnabledPools(pool)
<1>4. ASSUME NEW t, StateOf(Now, t) # "unresolved" PROVE Leads(t)
  BY <1>1, <1>4 DEF StateOf
<1>5. ASSUME NEW i \in EnabledPools(pool)
      PROVE  pool[i].members # {} /\ \A m \in pool[i].members : MemberThere(m, profile, pool)
  <2>1. /\ pool[i].members # {}
        /\ \A m \in pool[i].members :
              m[1] \in {"profile", "capability", "pool"} => MemberThere(m, profile, pool)
    BY <1>1, <1>2 DEF PoolState
  <2>2. \A m : m[1] \notin {"profile", "capability", "pool"} => MemberThere(m, profile, pool)
    BY DEF MemberThere
  <2>3. QED
    BY <2>1, <2>2
<1>6. ASSUME NEW r \in RuleIds, On(rule, r)
      PROVE  \/ rule[r].target = Direct
             \/ rule[r].target[1] # "role" /\ MemberThere(rule[r].target, profile, pool)
  <2> DEFINE t == rule[r].target
  <2>1. PICK k \in Places : ~IsSet(k) /\ From(k) = r
    BY PlaceOfRule
  <2>2. k \in Active(Now)
    BY <1>1, <1>6, <2>1 DEF Active
  <2>3. Topology(Now)[k].state = StateOf(Now, ShownTarget(Now, t))
    BY <1>1, <2>1, <2>2 DEF Topology, Path
  <2>4. Leads(ShownTarget(Now, t))
    BY <1>3, <1>4, <2>2, <2>3
  <2> SUFFICES t = Direct \/ (t[1] # "role" /\ MemberThere(t, profile, pool))
    OBVIOUS
  <2> HIDE DEF t
  <2>5. CASE t[1] = "capability"
    <3>1. Selected(t, profile) # {}
      BY <1>1, <2>4, <2>5 DEF ShownTarget, Direct
    <3>2. QED
      BY <2>5, <3>1 DEF MemberThere
  <2>6. CASE t[1] # "capability"
    BY <2>4, <2>6 DEF ShownTarget, MemberThere, Selected
  <2>7. QED
    BY <2>5, <2>6
<1>7. Valid(pool, rule, profile)
  BY <1>5, <1>6 DEF Valid, DocumentsInv
<1>8. ASSUME NEW k \in Active(Now), IsSet(k) PROVE Leads(set[From(k)].target)
  <2>1. Topology(Now)[k].state = StateOf(Now, set[From(k)].target)
    BY <1>1, <1>8 DEF Topology, Path
  <2>2. QED
    BY <1>3, <1>4, <2>1
<1>9. QED
  BY <1>7, <1>8

LEMMA ForetoldIsServed == DocumentsInv => PageForetells
<1>1. SUFFICES ASSUME DocumentsInv, Issues(Now) = {}, ~Unseen(Now)
               PROVE  /\ Generate(Now).status = "served"
                      /\ \A k \in DOMAIN Generate(Now).rules :
                            Generate(Now).rules[k] \in Names(Generate(Now))
  BY DEF PageForetells
<1>2. /\ Now.pool = pool /\ Now.rule = rule /\ Now.set = set /\ Now.profile = profile
  BY DEF Now
<1>3. /\ Available(Now) = profile /\ profile # {}
      /\ \A p \in profile : Rendered(Now, p)
      /\ \A i \in EnabledPools(pool) : Resolve(pool[i].members, profile) # {}
  BY <1>1, <1>2 DEF Unseen
<1>4. Valid(pool, rule, profile)
  BY <1>1, ResolvedIsValid
<1>5. Generate(Now).status = "served"
  BY <1>2, <1>3, <1>4 DEF Generate
<1>6. /\ Generate(Now).rules = [k \in Active(Now) |-> RuleTarget(Now, k)]
      /\ Names(Generate(Now)) = Known(profile, pool)
  BY <1>2, <1>3, <1>5, ServedIsValid
<1>7. ASSUME NEW k \in Active(Now) PROVE RuleTarget(Now, k) \in Known(profile, pool)
  <2>1. CASE IsSet(k)
    <3> DEFINE t == set[From(k)].target
    <3>1. RuleTarget(Now, k) = t
      BY <1>2, <2>1 DEF RuleTarget
    <3>2. \/ t = Direct \/ (t[1] = "profile" /\ t[2] \in profile)
          \/ (t[1] = "pool" /\ t[2] \in EnabledPools(pool))
      BY <1>1, <2>1, ResolvedIsValid
    <3>3. From(k) \in Slugs /\ set[From(k)] # None
      BY <1>2, <2>1, PlacesFit DEF Active, On
    <3>4. set[From(k)] \in SetKept
      BY <1>1, <3>3 DEF DocumentsInv, DocumentsTyping
    <3>5. t = Direct \/ t = <<t[1], t[2]>>
      BY <3>4, KeptAreSelectors DEF Selectors
    <3>6. \/ t = Direct
          \/ t[2] \in profile /\ t = ProfileOf(t[2])
          \/ t[2] \in EnabledPools(pool) /\ t = PoolOf(t[2])
      BY <3>2, <3>5 DEF ProfileOf, PoolOf
    <3>7. QED
      BY <3>1, <3>6 DEF Known
  <2>2. CASE ~IsSet(k)
    <3>1. From(k) \in RuleIds /\ On(rule, From(k))
      BY <1>2, <2>2, PlacesFit DEF Active
    <3>2. rule[From(k)] \in RuleKept
      BY <1>1, <3>1 DEF On, DocumentsInv, DocumentsTyping
    <3>3. Selectors({rule[From(k)].target}, TargetKinds)
      BY <3>2, KeptAreSelectors
    <3>4. profile \in SUBSET Profiles
      BY <1>1 DEF DocumentsInv, DocumentsTyping
    <3>5. RuleTarget(Now, k) = ResolveTarget(rule[From(k)].target, profile)
      BY <1>2, <1>3, <2>2 DEF RuleTarget
    <3>6. QED
      BY <1>4, <3>1, <3>3, <3>4, <3>5, TargetIsKnown
  <2>3. QED
    BY <2>1, <2>2
<1>8. QED
  BY <1>5, <1>6, <1>7

(* The routing page tells what the client will do: a definite match names the *)
(* target of the document, and a policy without issues is served if every     *)
(* enabled profile has its runtime and its secrets and every pool a member    *)
(* (inspect_domain against the order of a client, issues against validate).   *)
THEOREM PagesAreSound == DocumentsSpec => []PageIsSound
<1>1. InspectionIsSound
  <2>1. SUFFICES ASSUME Generate(Now).status = "served", NEW d \in Domains,
                        Inspect(Topology(Now), d).outcome = "matched"
                 PROVE  Route(Now, Generate(Now), d) = Inspect(Topology(Now), d).path.target
    BY DEF InspectionIsSound
  <2>2. QED
    BY <2>1, InspectionAgrees
<1>2. DocumentsInv => PageIsSound
  BY <1>1, ForetoldIsServed DEF PageIsSound
<1>3. QED
  BY <1>2, DocumentsInvariant, PTL
================================================================================
