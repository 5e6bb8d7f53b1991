----------------------------- MODULE AccessProofs -----------------------------
(* Theorems about access: which users have it (UserLifecycle, the first part) *)
(* and whom the runtimes let in (RuntimePlans and Inventory, the second), for *)
(* every set of users, names, deadlines, handlers, profiles, ports, secrets   *)
(* and hosts, every bound, every lag of the clock and every way the clock     *)
(* steps back.  The two specifications share None and nothing else.           *)
EXTENDS UserLifecycle, Inventory, TLAPS, FiniteSetTheorems

-----------------------------------------------------------------------------
(* Types *)

LEMMA AccessType ==
    ASSUME NEW r \in Row, NEW t \in Nat
    PROVE  Allowed(r, t) \in BOOLEAN /\ Expired(r, t) \in BOOLEAN
  BY DEF Allowed, Expired, Row

(* A later version of a row is greater, whatever the clock says.              *)
LEMMA VersionGrows ==
    ASSUME NEW r \in Row, NEW t \in Nat
    PROVE  NextVersion(r, t) \in Nat /\ NextVersion(r, t) > r.ver
  BY DEF NextVersion, Row

LEMMA MarkOfType ==
    ASSUME mark \in [Users -> {None} \cup Mark], NEW u \in Users, NEW r \in Row,
           NEW t \in Nat, NEW pending \in {None} \cup Nat
    PROVE  /\ MarkOf(u, r, t, pending) \in Mark
           /\ MarkOf(u, r, t, pending) # None
           /\ MarkOf(u, r, t, pending).source = r.ver
<1>1. r.ver \in Nat
  BY DEF Row
<1>2. (IF pending = None /\ mark[u] # None THEN mark[u].pending ELSE pending) \in {None} \cup Nat
  BY DEF Mark
<1>3. MarkOf(u, r, t, pending) \in Mark
  BY <1>1, <1>2, AccessType DEF MarkOf, Mark
<1>4. QED
  BY <1>3, NoneIsNoValue DEF MarkOf

LEMMA ReadingsType == ASSUME now \in Nat, backs \in Nat PROVE Readings \subseteq Nat
  BY DEF Readings

LEMMA ViewType ==
    ASSUME user \in [Users -> {None} \cup Row], NEW t \in Nat
    PROVE  View(t) \in [Users -> {None} \cup Grant]
<1>1. ASSUME NEW u \in Users, user[u] # None
      PROVE  [ident |-> user[u].ident, label |-> user[u].label] \in Grant
  <2>1. user[u] \in Row
    BY <1>1
  <2>2. QED
    BY <2>1 DEF Row, Grant
<1>2. QED
  BY <1>1 DEF View

(* The common end of the operations keeps the types of what it writes.        *)
LEMMA SaveType ==
    ASSUME TypeOK, NEW u \in Users, NEW r \in Row, NEW t \in Nat, NEW bump \in BOOLEAN,
           Save(u, r, t, bump)
    PROVE  /\ user' \in [Users -> {None} \cup Row]
           /\ mark' \in [Users -> {None} \cup Mark]
           /\ gen' \in Nat
           /\ task' \in [Tasks -> Task]
           /\ missed' \in SUBSET Users
           /\ user'[u] # None
           /\ \A v \in Users \ {u} : user'[v] = user[v] /\ mark'[v] = mark[v]
<1> DEFINE g == IF bump THEN gen + 1 ELSE gen
<1>1. gen' = g /\ g \in Nat
  BY DEF Save, TypeOK
<1>2. user' = [user EXCEPT ![u] = r]
  BY DEF Save
<1>3. mark' = [mark EXCEPT ![u] = MarkOf(u, r, t, IF bump THEN g ELSE None)]
  BY DEF Save
<1>4. (IF bump THEN g ELSE None) \in {None} \cup Nat
  BY <1>1
<1>5. MarkOf(u, r, t, IF bump THEN g ELSE None) \in Mark
  BY <1>4, MarkOfType DEF TypeOK
<1>6. task' \in [Tasks -> Task]
  <2>1. PICK h \in Handlers :
            task' = IF bump THEN [task EXCEPT ![h].at = "read"] ELSE task
    BY DEF Save, Queue
  <2>2. h \in Tasks /\ task[h] \in Task
    BY DEF Tasks, TypeOK
  <2>3. [task[h] EXCEPT !.at = "read"] \in Task
    BY <2>2 DEF Task
  <2>4. QED
    BY <2>1, <2>2, <2>3 DEF TypeOK
<1>7. missed' \in SUBSET Users
  BY DEF Save, Decide, TypeOK
<1>8. QED
  BY <1>1, <1>2, <1>3, <1>5, <1>6, <1>7, NoneIsNoValue DEF TypeOK

LEMMA TypeInitially == Init => TypeOK
<1> SUFFICES ASSUME Init PROVE TypeOK
  OBVIOUS
<1>1. now = 0 /\ now \in 0..MaxTime /\ reading \in 0..MaxTime /\ backs \in 0..MaxBack
      /\ edits \in 0..MaxEdits /\ faults \in 0..MaxFaults
  BY ConstantsAssumption DEF Init
<1>2. user \in [Users -> {None} \cup Row]
  <2>1. PICK label \in [used -> Labels], expires \in [used -> Expiries] :
            user = [u \in Users |->
                       IF u \in used
                       THEN [enabled |-> TRUE, expires |-> expires[u],
                             label |-> label[u], ident |-> 0, ver |-> 0]
                       ELSE None]
    BY DEF Init
  <2>2. ASSUME NEW u \in used
        PROVE  [enabled |-> TRUE, expires |-> expires[u],
                label |-> label[u], ident |-> 0, ver |-> 0] \in Row
    BY DEF Row
  <2>3. QED
    BY <2>1, <2>2
<1>3. \A u \in Users : user[u] # None => u \in used
  BY DEF Init
<1>4. View(now) \in [Users -> {None} \cup Grant]
  BY <1>1, <1>2, ViewType
<1>5. Idle \in Task
  BY DEF Idle, Task
<1>6. QED
  BY <1>1, <1>2, <1>3, <1>4, <1>5 DEF Init, TypeOK, Nobody

(* One step of evaluate_user_lifecycle keeps the types.                       *)
LEMMA EvaluateType ==
    ASSUME TypeOK, NEW t \in Nat, NEW candidates \in SUBSET Users,
           \A u \in candidates : user[u] # None,
           Evaluate(candidates, t)
    PROVE  /\ gen' \in Nat
           /\ mark' \in [Users -> {None} \cup Mark]
           /\ task' \in [Tasks -> Task]
           /\ repaired' \in BOOLEAN
           /\ missed' \in SUBSET Users
           /\ \A u \in Users : mark'[u] # None => user[u] # None
<1> DEFINE crossed == Transitions(candidates, t)
           g == IF crossed = {} THEN gen ELSE gen + 1
           moved == [u \in Users |->
                        IF crossed # {} /\ mark[u] # None /\ mark[u].pending # None
                        THEN g ELSE IF mark[u] = None THEN None ELSE mark[u].pending]
           owed == IF crossed # {} THEN {g} ELSE Pending
<1>1. g \in Nat /\ gen' = g
  BY DEF Evaluate, TypeOK
<1>2. ASSUME NEW u \in Users
      PROVE  moved[u] \in {None} \cup Nat
  BY <1>1 DEF TypeOK, Mark
<1>3. mark' = [u \in Users |->
                  IF u \in candidates
                  THEN [MarkOf(u, user[u], t, None) EXCEPT !.pending =
                            IF u \in crossed THEN g ELSE moved[u]]
                  ELSE IF mark[u] = None THEN None
                  ELSE [mark[u] EXCEPT !.pending = moved[u]]]
  BY DEF Evaluate
<1>4. ASSUME NEW u \in candidates
      PROVE  [MarkOf(u, user[u], t, None) EXCEPT !.pending =
                 IF u \in crossed THEN g ELSE moved[u]] \in Mark
  <2>1. user[u] \in Row
    BY DEF TypeOK
  <2>2. MarkOf(u, user[u], t, None) \in Mark
    BY <2>1, MarkOfType DEF TypeOK
  <2>3. (IF u \in crossed THEN g ELSE moved[u]) \in {None} \cup Nat
    BY <1>1, <1>2
  <2>4. QED
    BY <2>2, <2>3 DEF Mark
<1>5. ASSUME NEW u \in Users, mark[u] # None
      PROVE  [mark[u] EXCEPT !.pending = moved[u]] \in Mark
  <2>1. mark[u] \in Mark
    BY <1>5 DEF TypeOK
  <2>2. QED
    BY <2>1, <1>2 DEF Mark
<1>6. mark' \in [Users -> {None} \cup Mark]
  BY <1>3, <1>4, <1>5
<1>7. \A u \in Users : mark'[u] # None => user[u] # None
  BY <1>3 DEF TypeOK
<1>8. owed \subseteq Nat
  <2>1. Pending \subseteq Nat
    BY DEF Pending, TypeOK, Mark
  <2>2. QED
    BY <2>1, <1>1
<1>9. task' \in [Tasks -> Task] /\ repaired' \in BOOLEAN
  <2>1. CASE owed = {}
    <3>1. repaired' = TRUE /\ task' = [task EXCEPT ![Checker] = Idle]
      BY <2>1 DEF Evaluate
    <3>2. Idle \in Task
      BY DEF Idle, Task
    <3>3. QED
      BY <3>1, <3>2 DEF TypeOK
  <2>2. CASE owed # {}
    <3>1. PICK h \in owed :
              task' = [task EXCEPT ![Checker] = [at |-> "publish", gen |-> h]]
      BY <2>2 DEF Evaluate
    <3>2. [at |-> "publish", gen |-> h] \in Task
      BY <1>8, <3>1 DEF Task
    <3>3. repaired' = repaired
      BY <2>2 DEF Evaluate
    <3>4. QED
      BY <3>1, <3>2, <3>3 DEF TypeOK
  <2>3. QED
    BY <2>1, <2>2
<1>10. missed' \in SUBSET Users
  BY DEF Evaluate, TypeOK
<1>11. QED
  BY <1>1, <1>6, <1>7, <1>9, <1>10

LEMMA TypePreserved == ASSUME TypeOK, [Next]_vars PROVE TypeOK'
<1> USE ConstantsAssumption
<1>0. now \in Nat /\ Readings \subseteq Nat
  BY ConstantsAssumption, ReadingsType DEF TypeOK
<1>1. ASSUME NEW u \in Users, NEW t \in Readings, NEW label \in Labels, NEW expires \in Expiries,
             CreateUserAction(u, label, expires, t)
      PROVE  TypeOK'
  <2>1. t \in Nat
    BY <1>0
  <2>2. NewRow(label, expires, t) \in Row
    BY <2>1 DEF NewRow, Row
  <2>3. Save(u, NewRow(label, expires, t), t, TRUE)
    BY <1>1 DEF CreateUserAction, CreateUser, Request
  <2>4. edits' \in 0..MaxEdits /\ used' = used \cup {u}
    BY <1>1 DEF CreateUserAction, CreateUser, Request, Edit, TypeOK
  <2>5. QED
    BY <1>1, <2>1, <2>2, <2>3, <2>4, SaveType
      DEF CreateUserAction, CreateUser, Request, TypeOK, clock, runtime
<1>2. ASSUME NEW u \in Users, OpenForm(u)
      PROVE  TypeOK'
  <2>1. [id |-> u, row |-> user[u]] \in [id : Users, row : Row]
    BY <1>2 DEF OpenForm, TypeOK
  <2>2. QED
    BY <1>2, <2>1 DEF OpenForm, TypeOK, clock, bounds, table, runtime
<1>3. ASSUME NEW u \in Users, NEW t \in Readings, NEW label \in Labels, NEW expires \in Expiries,
             EditUserAction(u, label, expires, t)
      PROVE  TypeOK'
  <2> DEFINE r == [user[u] EXCEPT !.label = label, !.expires = expires,
                                    !.ver = NextVersion(user[u], t)]
  <2>1. t \in Nat /\ user[u] \in Row /\ u \in used
    BY <1>0, <1>3 DEF EditUserAction, UpdateUser, Request, FormIsCurrent, TypeOK
  <2>2. r \in Row
    <3>1. NextVersion(user[u], t) \in Nat
      BY <2>1, VersionGrows
    <3>2. QED
      BY <2>1, <3>1 DEF Row
  <2>3. PICK bump \in BOOLEAN : Save(u, r, t, bump)
    BY <1>3, <2>1, <2>2, AccessType DEF EditUserAction, UpdateUser, Request
  <2>4. edits' \in 0..MaxEdits
    BY <1>3 DEF EditUserAction, UpdateUser, Request, Edit, TypeOK
  <2>5. QED
    BY <1>3, <2>1, <2>2, <2>3, <2>4, SaveType
      DEF EditUserAction, UpdateUser, Request, TypeOK, clock, runtime
<1>4. ASSUME NEW u \in Users, NEW t \in Readings, RotateIdentityAction(u, t)
      PROVE  TypeOK'
  <2> DEFINE ver == NextVersion(user[u], t)
             r == [user[u] EXCEPT !.ident = ver, !.ver = ver]
  <2>1. t \in Nat /\ user[u] \in Row /\ u \in used
    BY <1>0, <1>4 DEF RotateIdentityAction, RotateIdentity, Request, FormIsCurrent, TypeOK
  <2>2. r \in Row
    <3>1. ver \in Nat
      BY <2>1, VersionGrows
    <3>2. QED
      BY <2>1, <3>1 DEF Row
  <2>3. Save(u, r, t, TRUE)
    BY <1>4 DEF RotateIdentityAction, RotateIdentity, Request
  <2>4. edits' \in 0..MaxEdits
    BY <1>4 DEF RotateIdentityAction, RotateIdentity, Request, Edit, TypeOK
  <2>5. QED
    BY <1>4, <2>1, <2>2, <2>3, <2>4, SaveType
      DEF RotateIdentityAction, RotateIdentity, Request, TypeOK, clock, runtime
<1>5. ASSUME NEW u \in Users, NEW t \in Readings, NEW enabled \in BOOLEAN,
             ToggleUserAction(u, enabled, t)
      PROVE  TypeOK'
  <2> DEFINE r == [user[u] EXCEPT !.enabled = enabled, !.ver = NextVersion(user[u], t)]
  <2>1. t \in Nat /\ user[u] \in Row /\ u \in used
    BY <1>0, <1>5 DEF ToggleUserAction, SetEnabled, Request, TypeOK
  <2>2. r \in Row
    <3>1. NextVersion(user[u], t) \in Nat
      BY <2>1, VersionGrows
    <3>2. QED
      BY <2>1, <3>1 DEF Row
  <2>3. PICK bump \in BOOLEAN : Save(u, r, t, bump)
    BY <1>5, <2>1, <2>2, AccessType DEF ToggleUserAction, SetEnabled, Request
  <2>4. edits' \in 0..MaxEdits
    BY <1>5 DEF ToggleUserAction, SetEnabled, Request, Edit, TypeOK
  <2>5. QED
    BY <1>5, <2>1, <2>2, <2>3, <2>4, SaveType
      DEF ToggleUserAction, SetEnabled, Request, TypeOK, clock, runtime
<1>6. ASSUME NEW u \in Users, NEW t \in Readings, ResetTokenAction(u, t)
      PROVE  TypeOK'
  <2> DEFINE r == [user[u] EXCEPT !.ver = NextVersion(user[u], t)]
  <2>1. t \in Nat /\ user[u] \in Row /\ u \in used
    BY <1>0, <1>6 DEF ResetTokenAction, ResetToken, Request, TypeOK
  <2>2. r \in Row
    <3>1. NextVersion(user[u], t) \in Nat
      BY <2>1, VersionGrows
    <3>2. QED
      BY <2>1, <3>1 DEF Row
  <2>3. Save(u, r, t, FALSE)
    BY <1>6 DEF ResetTokenAction, ResetToken, Request
  <2>4. edits' \in 0..MaxEdits
    BY <1>6 DEF ResetTokenAction, ResetToken, Request, Edit, TypeOK
  <2>5. QED
    BY <1>6, <2>1, <2>2, <2>3, <2>4, SaveType
      DEF ResetTokenAction, ResetToken, Request, TypeOK, clock, runtime
<1>7. ASSUME NEW u \in Users, NEW t \in Readings, DeleteUserAction(u, t)
      PROVE  TypeOK'
  <2>1. gen' \in Nat /\ edits' \in 0..MaxEdits
    BY <1>7 DEF DeleteUserAction, DeleteUser, Request, Edit, TypeOK
  <2>2. task' \in [Tasks -> Task]
    <3>1. PICK h \in Handlers : task' = task \/ task' = [task EXCEPT ![h].at = "read"]
      BY <1>7 DEF DeleteUserAction, DeleteUser, Request, Queue
    <3>2. h \in Tasks /\ [task[h] EXCEPT !.at = "read"] \in Task
      BY DEF Tasks, TypeOK, Task
    <3>3. QED
      BY <3>1, <3>2 DEF TypeOK
  <2>3. /\ user' = [user EXCEPT ![u] = None]
        /\ mark' = [mark EXCEPT ![u] = None]
    BY <1>7 DEF DeleteUserAction, DeleteUser, Request
  <2>4. missed' \in SUBSET Users
    BY <1>7 DEF DeleteUserAction, DeleteUser, Decide, TypeOK
  <2>5. QED
    BY <1>7, <2>1, <2>2, <2>3, <2>4
       DEF DeleteUserAction, DeleteUser, Request, TypeOK, clock, runtime
<1>8. CASE StartupRepair
  <2>1. /\ RepairCandidates(reading) \subseteq Users
        /\ \A u \in RepairCandidates(reading) : user[u] # None
    BY DEF RepairCandidates
  <2>2. Evaluate(RepairCandidates(reading), reading)
    BY <1>8 DEF StartupRepair
  <2>3. reading \in Nat
    BY DEF TypeOK
  <2>4. /\ gen' \in Nat
        /\ mark' \in [Users -> {None} \cup Mark]
        /\ task' \in [Tasks -> Task]
        /\ repaired' \in BOOLEAN
        /\ missed' \in SUBSET Users
        /\ \A u \in Users : mark'[u] # None => user[u] # None
    BY <2>1, <2>2, <2>3, EvaluateType
  <2>5. UNCHANGED <<clock, bounds, user, used, form, request, runtime>> /\ reading' = 0
    BY <2>2 DEF Evaluate
  <2>6. QED
    BY <2>4, <2>5 DEF TypeOK, clock, bounds, runtime
<1>9. CASE DeadlineScan
  <2>1. /\ DeadlineCandidates(reading) \subseteq Users
        /\ \A u \in DeadlineCandidates(reading) : user[u] # None
    BY DEF DeadlineCandidates
  <2>2. Evaluate(DeadlineCandidates(reading), reading)
    BY <1>9 DEF DeadlineScan
  <2>3. reading \in Nat
    BY DEF TypeOK
  <2>4. /\ gen' \in Nat
        /\ mark' \in [Users -> {None} \cup Mark]
        /\ task' \in [Tasks -> Task]
        /\ repaired' \in BOOLEAN
        /\ missed' \in SUBSET Users
        /\ \A u \in Users : mark'[u] # None => user[u] # None
    BY <2>1, <2>2, <2>3, EvaluateType
  <2>5. UNCHANGED <<clock, bounds, user, used, form, request, runtime>> /\ reading' = 0
    BY <2>2 DEF Evaluate
  <2>6. QED
    BY <2>4, <2>5 DEF TypeOK, clock, bounds, runtime
<1>10. ASSUME NEW h \in Handlers, ReadLatest(h)
       PROVE  TypeOK'
  <2>1. [at |-> "publish", gen |-> gen] \in Task
    BY DEF TypeOK, Task
  <2>2. QED
    BY <1>10, <2>1 DEF ReadLatest, TypeOK, Tasks, clock, bounds, table, runtime
<1>11. ASSUME NEW h \in Tasks, Publish(h)
       PROVE  TypeOK'
  <2>1. [task[h] EXCEPT !.at = "ack"] \in Task
    BY DEF TypeOK, Task
  <2>2. QED
    BY <1>11, <2>1 DEF Publish, TypeOK, clock, bounds, table, runtime
<1>12. ASSUME NEW h \in Tasks, PublishFails(h)
       PROVE  TypeOK'
  BY <1>12 DEF PublishFails, Fault, Idle, TypeOK, Task, clock, table, runtime
<1>13. ASSUME NEW h \in Tasks, Acknowledge(h)
       PROVE  TypeOK'
  <2>1. ASSUME NEW u \in Users, mark[u] # None
        PROVE  [mark[u] EXCEPT !.pending = None] \in Mark
    BY <2>1 DEF TypeOK, Mark
  <2>2. Idle \in Task
    BY DEF Idle, Task
  <2>3. mark' = [u \in Users |->
                    IF mark[u] # None /\ mark[u].pending # None
                         /\ mark[u].pending <= task[h].gen
                    THEN [mark[u] EXCEPT !.pending = None] ELSE mark[u]]
    BY <1>13 DEF Acknowledge
  <2>4. mark' \in [Users -> {None} \cup Mark] /\ \A u \in Users : mark'[u] # None => mark[u] # None
    BY <2>1, <2>3 DEF TypeOK
  <2>5. repaired' \in BOOLEAN
    BY <1>13 DEF Acknowledge, TypeOK
  <2>6. QED
    BY <1>13, <2>2, <2>4, <2>5 DEF Acknowledge, TypeOK, clock, bounds, runtime
<1>14. CASE PanelRestart
  <2>1. Idle \in Task /\ faults' \in 0..MaxFaults
    BY <1>14 DEF PanelRestart, Fault, Idle, TypeOK, Task
  <2>2. task' \in [Tasks -> Task] /\ repaired' \in BOOLEAN
    BY <1>14, <2>1 DEF PanelRestart
  <2>3. reading' \in 0..MaxTime
    BY <1>14 DEF PanelRestart
  <2>4. QED
    BY <1>14, <2>1, <2>2, <2>3 DEF PanelRestart, TypeOK, clock, table, runtime
<1>15. ASSUME NEW t \in Readings, WorkerReads(t)
       PROVE  TypeOK'
  <2>1. View(t) \in [Users -> {None} \cup Grant]
    BY <1>0, ViewType DEF TypeOK
  <2>2. worker' \in [busy : BOOLEAN, gen : Nat, view : [Users -> {None} \cup Grant]]
    BY <1>15, <2>1 DEF WorkerReads, TypeOK
  <2>3. missed' \in SUBSET Users
    BY <1>15 DEF WorkerReads, Misread, TypeOK
  <2>4. QED
    BY <1>15, <2>2, <2>3 DEF WorkerReads, TypeOK, clock, bounds
<1>16. Ended \in [busy : BOOLEAN, gen : Nat, view : [Users -> {None} \cup Grant]]
  BY DEF Ended, Nobody, TypeOK
<1>17. CASE WorkerApplies
  BY <1>16, <1>17 DEF WorkerApplies, TypeOK, clock, bounds, table
<1>18. CASE WorkerFails
  BY <1>16, <1>18 DEF WorkerFails, Fault, TypeOK, clock, table
<1>19. CASE Tick \/ StepBack
  BY <1>19 DEF Tick, StepBack, TypeOK, bounds, table, runtime
<1>20. CASE UNCHANGED vars
  BY <1>20 DEF vars, TypeOK
<1>21. CASE CheckerReads
  <2>1. [task[Checker] EXCEPT !.at = "evaluate"] \in Task
    BY DEF TypeOK, Task, Tasks
  <2>2. QED
    BY <1>21, <2>1 DEF CheckerReads, TypeOK, clock, bounds, table, runtime
<1>22. QED
  BY <1>1, <1>2, <1>3, <1>4, <1>5, <1>6, <1>7, <1>8, <1>9, <1>10, <1>11, <1>12, <1>13,
     <1>14, <1>15, <1>17, <1>18, <1>19, <1>20, <1>21
     DEF Next, Admin, CheckerStep, HandlerStep, WorkerStep, Failure, Tasks

(* Every variable keeps its type, checkpoints belong to rows, rows to ids     *)
(* that were given out (foreign key and cascade of user_lifecycle_state).     *)
THEOREM UserTypeCorrect == Spec => []TypeOK
<1>1. Init => TypeOK
  BY TypeInitially
<1>2. TypeOK /\ [Next]_vars => TypeOK'
  BY TypePreserved
<1>3. QED
  BY <1>1, <1>2, PTL DEF Spec

-----------------------------------------------------------------------------
(* The inductive invariants *)

(* An open form is no newer than its row, and equal to it when their versions *)
(* are equal.                                                                 *)
FormIsOlder ==
    form # None =>
        /\ form.id \in used
        /\ user[form.id] # None =>
               /\ form.row.ver <= user[form.id].ver
               /\ form.row.ver = user[form.id].ver => user[form.id] = form.row

(* The checker has committed a transaction whose generation it publishes.     *)
AtWork == task[Checker].at \notin {"idle", "evaluate"}

(* From the transaction of the startup repair on, every row has a checkpoint  *)
(* of its current version.                                                    *)
MarksFollowRows ==
    (repaired \/ AtWork) =>
        \A u \in Users : user[u] # None => mark[u] # None /\ mark[u].source = user[u].ver

(* What is about to be acknowledged was requested or read, and nothing is     *)
(* ahead of the desired generation.                                           *)
RequestsReach ==
    /\ worker.gen <= gen
    /\ \A u \in Users : mark[u] # None /\ mark[u].pending # None => mark[u].pending <= gen
    /\ \A t \in Tasks :
           /\ task[t].gen <= gen
           /\ task[t].at = "ack" => request \/ worker.gen >= task[t].gen

UserInv == FormIsOlder /\ MarksFollowRows /\ RequestsReach

(* A mark leaves the outbox.                                                  *)
Clears(u) ==
    /\ mark[u] # None /\ mark'[u] # None
    /\ mark[u].pending # None /\ mark'[u].pending = None

(* What the operations that end in Save have in common.                       *)
Saves(u) ==
    \E r \in Row, t \in Nat, bump \in BOOLEAN :
        /\ Save(u, r, t, bump)
        /\ IF user[u] = None THEN u \notin used ELSE r.ver > user[u].ver
        /\ used \subseteq used'
        /\ UNCHANGED <<form, repaired, request, worker>>

LEMMA OperationSaves ==
    ASSUME TypeOK, NEW u \in Users, NEW t \in Readings,
           \/ \E label \in Labels, expires \in Expiries :
                  CreateUserAction(u, label, expires, t) \/ EditUserAction(u, label, expires, t)
           \/ \E enabled \in BOOLEAN : ToggleUserAction(u, enabled, t)
           \/ RotateIdentityAction(u, t) \/ ResetTokenAction(u, t)
    PROVE  Saves(u)
<1>1. t \in Nat
  BY ConstantsAssumption, ReadingsType DEF TypeOK
<1>2. ASSUME NEW label \in Labels, NEW expires \in Expiries, CreateUserAction(u, label, expires, t)
      PROVE  Saves(u)
  <2>1. NewRow(label, expires, t) \in Row
    BY <1>1 DEF NewRow, Row
  <2>2. user[u] = None /\ u \notin used /\ used' = used \cup {u}
    BY <1>2 DEF CreateUserAction, CreateUser, Request, TypeOK
  <2>3. Save(u, NewRow(label, expires, t), t, TRUE)
    BY <1>2 DEF CreateUserAction, CreateUser, Request
  <2>4. UNCHANGED <<form, repaired, request, worker>>
    BY <1>2 DEF CreateUserAction, CreateUser, Request, runtime
  <2>5. QED
    BY <1>1, <2>1, <2>2, <2>3, <2>4 DEF Saves
<1>3. ASSUME user[u] # None
      PROVE  user[u] \in Row /\ NextVersion(user[u], t) \in Nat
             /\ NextVersion(user[u], t) > user[u].ver
  BY <1>1, <1>3, VersionGrows DEF TypeOK
<1>4. ASSUME NEW label \in Labels, NEW expires \in Expiries, EditUserAction(u, label, expires, t)
      PROVE  Saves(u)
  <2> DEFINE r == [user[u] EXCEPT !.label = label, !.expires = expires,
                                    !.ver = NextVersion(user[u], t)]
  <2>1. user[u] # None
    BY <1>4 DEF EditUserAction, UpdateUser, Request, FormIsCurrent
  <2>2. r \in Row /\ r.ver > user[u].ver
    BY <2>1, <1>3 DEF Row
  <2>3. PICK bump \in BOOLEAN : Save(u, r, t, bump)
    BY <1>1, <1>4, <2>1, <2>2, <1>3, AccessType DEF EditUserAction, UpdateUser, Request
  <2>4. UNCHANGED <<used, form, repaired, request, worker>>
    BY <1>4 DEF EditUserAction, UpdateUser, Request, runtime
  <2>5. QED
    BY <1>1, <2>1, <2>2, <2>3, <2>4 DEF Saves
<1>5. CASE RotateIdentityAction(u, t)
  <2> DEFINE ver == NextVersion(user[u], t)
             r == [user[u] EXCEPT !.ident = ver, !.ver = ver]
  <2>1. user[u] # None
    BY <1>5 DEF RotateIdentityAction, RotateIdentity, Request, FormIsCurrent
  <2>2. r \in Row /\ r.ver > user[u].ver
    BY <2>1, <1>3 DEF Row
  <2>3. Save(u, r, t, TRUE)
    BY <1>5 DEF RotateIdentityAction, RotateIdentity, Request
  <2>4. UNCHANGED <<used, form, repaired, request, worker>>
    BY <1>5 DEF RotateIdentityAction, RotateIdentity, Request, runtime
  <2>5. QED
    BY <1>1, <2>1, <2>2, <2>3, <2>4 DEF Saves
<1>6. ASSUME NEW enabled \in BOOLEAN, ToggleUserAction(u, enabled, t)
      PROVE  Saves(u)
  <2> DEFINE r == [user[u] EXCEPT !.enabled = enabled, !.ver = NextVersion(user[u], t)]
  <2>1. user[u] # None
    BY <1>6 DEF ToggleUserAction, SetEnabled, Request
  <2>2. r \in Row /\ r.ver > user[u].ver
    BY <2>1, <1>3 DEF Row
  <2>3. PICK bump \in BOOLEAN : Save(u, r, t, bump)
    BY <1>1, <1>6, <2>1, <2>2, <1>3, AccessType DEF ToggleUserAction, SetEnabled, Request
  <2>4. UNCHANGED <<used, form, repaired, request, worker>>
    BY <1>6 DEF ToggleUserAction, SetEnabled, Request, runtime
  <2>5. QED
    BY <1>1, <2>1, <2>2, <2>3, <2>4 DEF Saves
<1>7. CASE ResetTokenAction(u, t)
  <2> DEFINE r == [user[u] EXCEPT !.ver = NextVersion(user[u], t)]
  <2>1. user[u] # None
    BY <1>7 DEF ResetTokenAction, ResetToken, Request
  <2>2. r \in Row /\ r.ver > user[u].ver
    BY <2>1, <1>3 DEF Row
  <2>3. Save(u, r, t, FALSE)
    BY <1>7 DEF ResetTokenAction, ResetToken, Request
  <2>4. UNCHANGED <<used, form, repaired, request, worker>>
    BY <1>7 DEF ResetTokenAction, ResetToken, Request, runtime
  <2>5. QED
    BY <1>1, <2>1, <2>2, <2>3, <2>4 DEF Saves
<1>8. QED
  BY <1>2, <1>4, <1>5, <1>6, <1>7

(* What Save does to the checkpoint, the generation and the tasks.            *)
LEMMA SaveMarks ==
    ASSUME TypeOK, NEW u \in Users, NEW r \in Row, NEW t \in Nat, NEW bump \in BOOLEAN,
           Save(u, r, t, bump), RequestsReach
    PROVE  /\ user'[u] = r /\ mark'[u] # None /\ mark'[u].source = r.ver
           /\ gen' \in Nat /\ gen <= gen'
           /\ mark'[u].pending # None => mark'[u].pending <= gen'
           /\ ~Clears(u)
           /\ task'[Checker] = task[Checker]
           /\ \A h \in Tasks : /\ task'[h].gen = task[h].gen
                               /\ task'[h].at = "ack" => task[h].at = "ack"
<1> DEFINE g == IF bump THEN gen + 1 ELSE gen
           m == MarkOf(u, r, t, IF bump THEN g ELSE None)
<1>1. gen' = g /\ g \in Nat /\ gen <= g
  BY DEF Save, TypeOK
<1>2. user'[u] = r /\ mark'[u] = m
  BY DEF Save, TypeOK
<1>3. (IF bump THEN g ELSE None) \in {None} \cup Nat
  BY <1>1
<1>4. m # None /\ m.source = r.ver
  BY <1>3, MarkOfType DEF TypeOK
<1>5. m.pending = IF (IF bump THEN g ELSE None) = None /\ mark[u] # None
                  THEN mark[u].pending ELSE IF bump THEN g ELSE None
  BY DEF MarkOf
<1>6. (mark[u] # None => mark[u] \in Mark) /\ None \notin Nat
  BY ConstantsAssumption DEF TypeOK
<1>7. m.pending # None => m.pending <= g
  BY <1>1, <1>5, <1>6 DEF RequestsReach, TypeOK, Mark
<1>8. ~Clears(u)
  BY <1>1, <1>2, <1>5, <1>6 DEF Clears
<1>9. /\ task'[Checker] = task[Checker]
      /\ \A h \in Tasks : /\ task'[h].gen = task[h].gen
                          /\ task'[h].at = "ack" => task[h].at = "ack"
  <2>1. PICK h \in Handlers :
            task' = IF bump THEN [task EXCEPT ![h].at = "read"] ELSE task
    BY DEF Save, Queue
  <2>2. h # Checker
    BY ConstantsAssumption
  <2>3. CASE bump
    <3>1. task' = [task EXCEPT ![h] = [task[h] EXCEPT !.at = "read"]]
      BY <2>1, <2>3 DEF TypeOK
    <3>2. task[h] \in Task /\ h \in Tasks
      BY DEF TypeOK, Tasks
    <3>3. /\ [task[h] EXCEPT !.at = "read"].gen = task[h].gen
          /\ [task[h] EXCEPT !.at = "read"].at = "read"
      BY <3>2 DEF Task
    <3>4. QED
      BY <2>2, <3>1, <3>2, <3>3 DEF TypeOK, Tasks
  <2>4. CASE ~bump
    BY <2>1, <2>4
  <2>5. QED
    BY <2>3, <2>4
<1>10. QED
  BY <1>1, <1>2, <1>4, <1>7, <1>8, <1>9

LEMMA SavesPreserve ==
    ASSUME TypeOK, TypeOK', UserInv, NEW u \in Users, Saves(u)
    PROVE  UserInv' /\ \A v \in Users : ~Clears(v)
<1>1. PICK r \in Row, t \in Nat, bump \in BOOLEAN :
          /\ Save(u, r, t, bump)
          /\ IF user[u] = None THEN u \notin used ELSE r.ver > user[u].ver
          /\ used \subseteq used'
          /\ UNCHANGED <<form, repaired, request, worker>>
  BY DEF Saves
<1>2. \A v \in Users \ {u} : user'[v] = user[v] /\ mark'[v] = mark[v]
  BY <1>1, SaveType
<1>3. /\ user'[u] = r /\ mark'[u] # None /\ mark'[u].source = r.ver
      /\ gen' \in Nat /\ gen <= gen'
      /\ mark'[u].pending # None => mark'[u].pending <= gen'
      /\ ~Clears(u)
      /\ task'[Checker] = task[Checker]
      /\ \A h \in Tasks : /\ task'[h].gen = task[h].gen
                          /\ task'[h].at = "ack" => task[h].at = "ack"
  BY <1>1, SaveMarks DEF UserInv
<1>4. FormIsOlder'
  <2>1. CASE form = None
    BY <1>1, <2>1 DEF FormIsOlder
  <2>2. CASE form # None /\ form.id = u
    <3>1. form.row.ver \in Nat /\ r.ver \in Nat
      BY <2>2 DEF TypeOK, Row
    <3>2. user[u] # None /\ form.row.ver <= user[u].ver /\ user[u].ver \in Nat
      BY <1>1, <2>2 DEF UserInv, FormIsOlder, TypeOK, Row
    <3>3. QED
      BY <1>1, <1>3, <2>2, <3>1, <3>2 DEF UserInv, FormIsOlder
  <2>3. CASE form # None /\ form.id # u
    <3>1. form.id \in Users \ {u}
      BY <2>3 DEF TypeOK
    <3>2. user'[form.id] = user[form.id]
      BY <1>2, <3>1
    <3>3. QED
      BY <1>1, <2>3, <3>2 DEF UserInv, FormIsOlder
  <2>4. QED
    BY <2>1, <2>2, <2>3
<1>5. MarksFollowRows'
  BY <1>1, <1>2, <1>3 DEF UserInv, MarksFollowRows, AtWork
<1>6. RequestsReach'
  <2>1. worker'.gen <= gen'
    BY <1>1, <1>3 DEF UserInv, RequestsReach, TypeOK
  <2>2. ASSUME NEW v \in Users, mark'[v] # None, mark'[v].pending # None
        PROVE  mark'[v].pending <= gen'
    <3>1. CASE v = u
      BY <1>3, <2>2, <3>1
    <3>2. CASE v # u
      <4>1. mark'[v] = mark[v] /\ mark[v] \in Mark
        BY <1>2, <2>2, <3>2 DEF TypeOK
      <4>2. mark[v].pending <= gen /\ mark[v].pending \in Nat
        BY <2>2, <4>1 DEF UserInv, RequestsReach, Mark
      <4>3. QED
        BY <1>3, <4>1, <4>2 DEF TypeOK
    <3>3. QED
      BY <3>1, <3>2
  <2>3. ASSUME NEW h \in Tasks
        PROVE  /\ task'[h].gen <= gen'
               /\ task'[h].at = "ack" => request' \/ worker'.gen >= task'[h].gen
    <3>1. task[h] \in Task
      BY DEF TypeOK
    <3>2. task[h].gen \in Nat /\ task[h].gen <= gen
      BY <3>1 DEF UserInv, RequestsReach, Task
    <3>3. QED
      BY <1>1, <1>3, <3>2 DEF UserInv, RequestsReach, TypeOK
  <2>4. QED
    BY <2>1, <2>2, <2>3 DEF RequestsReach
<1>7. QED
  BY <1>2, <1>3, <1>4, <1>5, <1>6 DEF UserInv, Clears

LEMMA DeletePreserves ==
    ASSUME TypeOK, TypeOK', UserInv, NEW u \in Users, NEW t \in Readings, DeleteUserAction(u, t)
    PROVE  UserInv' /\ \A v \in Users : ~Clears(v)
<1>1. /\ user' = [user EXCEPT ![u] = None] /\ mark' = [mark EXCEPT ![u] = None]
      /\ gen' \in {gen, gen + 1} /\ UNCHANGED <<used, form, repaired, request, worker>>
  BY DEF DeleteUserAction, DeleteUser, Request, runtime
<1>2. /\ task'[Checker] = task[Checker]
      /\ \A h \in Tasks : /\ task'[h].gen = task[h].gen
                          /\ task'[h].at = "ack" => task[h].at = "ack"
  <2>1. PICK h \in Handlers : task' = task \/ task' = [task EXCEPT ![h].at = "read"]
    BY DEF DeleteUserAction, DeleteUser, Request, Queue
  <2>2. h # Checker /\ h \in Tasks /\ task[h] \in Task
    BY ConstantsAssumption DEF TypeOK, Tasks
  <2>3. [task EXCEPT ![h].at = "read"] = [task EXCEPT ![h] = [task[h] EXCEPT !.at = "read"]]
    BY <2>2 DEF TypeOK
  <2>4. /\ [task[h] EXCEPT !.at = "read"].gen = task[h].gen
        /\ [task[h] EXCEPT !.at = "read"].at = "read"
    BY <2>2 DEF Task
  <2>5. QED
    BY <2>1, <2>2, <2>3, <2>4 DEF TypeOK, Tasks
<1>3. FormIsOlder'
  BY <1>1 DEF UserInv, FormIsOlder, TypeOK
<1>4. MarksFollowRows'
  BY <1>1, <1>2 DEF UserInv, MarksFollowRows, AtWork, TypeOK
<1>5. gen \in Nat /\ gen' \in Nat /\ gen <= gen' /\ worker.gen \in Nat
  BY <1>1 DEF TypeOK
<1>6. ASSUME NEW v \in Users, mark'[v] # None, mark'[v].pending # None
      PROVE  mark'[v].pending <= gen'
  <2>1. mark'[v] = mark[v] /\ mark[v] \in Mark
    BY <1>1, <1>6 DEF TypeOK
  <2>2. mark[v].pending \in Nat /\ mark[v].pending <= gen
    BY <1>6, <2>1 DEF UserInv, RequestsReach, Mark
  <2>3. QED
    BY <1>5, <2>1, <2>2
<1>7. ASSUME NEW h \in Tasks
      PROVE  task[h].gen \in Nat /\ task[h].gen <= gen
  BY DEF UserInv, RequestsReach, TypeOK, Task
<1>8. RequestsReach'
  BY <1>1, <1>2, <1>5, <1>6, <1>7 DEF UserInv, RequestsReach
<1>9. QED
  BY <1>1, <1>3, <1>4, <1>8 DEF UserInv, Clears, TypeOK

(* The checker commits crossings and marks, and takes the largest mark.       *)
LEMMA EvaluatePreserves ==
    ASSUME TypeOK, TypeOK', UserInv, NEW t \in Nat, NEW candidates \in SUBSET Users,
           \A u \in candidates : user[u] # None,
           (\A u \in Users \ candidates :
                user[u] # None => mark[u] # None /\ mark[u].source = user[u].ver),
           Evaluate(candidates, t)
    PROVE  UserInv' /\ \A v \in Users : ~Clears(v)
<1> DEFINE crossed == Transitions(candidates, t)
           g == IF crossed = {} THEN gen ELSE gen + 1
           moved == [u \in Users |->
                        IF crossed # {} /\ mark[u] # None /\ mark[u].pending # None
                        THEN g ELSE IF mark[u] = None THEN None ELSE mark[u].pending]
           owed == IF crossed # {} THEN {g} ELSE Pending
<1>1. g \in Nat /\ gen \in Nat /\ gen' = g /\ gen <= g /\ None \notin Nat
  BY ConstantsAssumption DEF Evaluate, TypeOK
<1>2. ASSUME NEW u \in Users
      PROVE  /\ moved[u] \in {None} \cup Nat
             /\ moved[u] # None => moved[u] <= g
             /\ mark[u] # None /\ mark[u].pending # None => moved[u] # None
  BY <1>1 DEF UserInv, RequestsReach, TypeOK, Mark
<1>3. mark' = [u \in Users |->
                  IF u \in candidates
                  THEN [MarkOf(u, user[u], t, None) EXCEPT !.pending =
                            IF u \in crossed THEN g ELSE moved[u]]
                  ELSE IF mark[u] = None THEN None
                  ELSE [mark[u] EXCEPT !.pending = moved[u]]]
  BY DEF Evaluate
<1>4. UNCHANGED <<user, used, form, request, worker>>
  BY DEF Evaluate, runtime
<1>5. ASSUME NEW u \in candidates
      PROVE  /\ mark'[u] # None
             /\ mark'[u].source = user[u].ver
             /\ mark'[u].pending = IF u \in crossed THEN g ELSE moved[u]
  <2>1. user[u] \in Row /\ u \in Users
    BY DEF TypeOK
  <2>2. /\ MarkOf(u, user[u], t, None) \in Mark
        /\ MarkOf(u, user[u], t, None).source = user[u].ver
    BY <1>1, <2>1, MarkOfType DEF TypeOK
  <2>3. mark'[u] = [MarkOf(u, user[u], t, None) EXCEPT !.pending =
                       IF u \in crossed THEN g ELSE moved[u]]
    BY <1>3, <2>1
  <2>4. mark'[u] \in Mark
    BY <2>2, <2>3, <1>1, <1>2, <2>1 DEF Mark
  <2>5. QED
    BY <2>2, <2>3, <2>4, NoneIsNoValue DEF Mark
<1>6. ASSUME NEW u \in Users \ candidates
      PROVE  /\ mark[u] = None => mark'[u] = None
             /\ mark[u] # None => /\ mark'[u] # None
                                  /\ mark'[u].source = mark[u].source
                                  /\ mark'[u].pending = moved[u]
  <2>1. CASE mark[u] = None
    BY <1>3, <2>1
  <2>2. CASE mark[u] # None
    <3>1. mark[u] \in Mark /\ mark'[u] = [mark[u] EXCEPT !.pending = moved[u]]
      BY <1>3, <2>2 DEF TypeOK
    <3>2. mark'[u] \in Mark
      BY <3>1, <1>2 DEF Mark
    <3>3. QED
      BY <2>2, <3>1, <3>2, NoneIsNoValue DEF Mark
  <2>3. QED
    BY <2>1, <2>2
<1>7. FormIsOlder'
  BY <1>4 DEF UserInv, FormIsOlder
<1>8. MarksFollowRows'
  BY <1>4, <1>5, <1>6 DEF MarksFollowRows
<1>9. ASSUME NEW u \in Users, mark'[u] # None, mark'[u].pending # None
      PROVE  mark'[u].pending <= gen'
  <2>1. CASE u \in candidates
    <3>1. mark'[u].pending = IF u \in crossed THEN g ELSE moved[u]
      BY <1>5, <2>1
    <3>2. g <= gen' /\ (moved[u] # None => moved[u] <= gen')
      BY <1>1, <1>2
    <3>3. QED
      BY <1>9, <3>1, <3>2
  <2>2. CASE u \notin candidates
    <3>1. mark'[u].pending = moved[u]
      BY <1>6, <1>9, <2>2
    <3>2. QED
      BY <1>1, <1>2, <1>9, <3>1
  <2>3. QED
    BY <2>1, <2>2
<1>10. ASSUME NEW h \in Tasks
       PROVE  /\ task'[h].gen <= gen'
              /\ task'[h].at = "ack" => request' \/ worker'.gen >= task'[h].gen
  <2>1. task[h] \in Task /\ task[h].gen \in Nat /\ task[h].gen <= gen
    BY DEF TypeOK, Task, UserInv, RequestsReach
  <2>2. CASE task' = [task EXCEPT ![Checker] = Idle]
    <3>1. CASE h = Checker
      BY <1>1, <2>2, <3>1 DEF TypeOK, Idle
    <3>2. CASE h # Checker
      <4>1. task'[h] = task[h]
        BY <2>2, <3>2 DEF TypeOK
      <4>2. QED
        BY <1>1, <1>4, <2>1, <4>1 DEF UserInv, RequestsReach
    <3>3. QED
      BY <3>1, <3>2
  <2>3. CASE \E i \in owed : task' = [task EXCEPT ![Checker] = [at |-> "publish", gen |-> i]]
    <3>1. PICK i \in owed : task' = [task EXCEPT ![Checker] = [at |-> "publish", gen |-> i]]
      BY <2>3
    <3>2. i <= g
      BY <1>1, <3>1 DEF Pending, UserInv, RequestsReach
    <3>3. CASE h = Checker
      BY <1>1, <3>1, <3>2, <3>3 DEF TypeOK, Tasks
    <3>4. CASE h # Checker
      <4>1. task'[h] = task[h]
        BY <3>1, <3>4 DEF TypeOK
      <4>2. QED
        BY <1>1, <1>4, <2>1, <4>1 DEF UserInv, RequestsReach
    <3>5. QED
      BY <3>3, <3>4
  <2>4. QED
    BY <2>2, <2>3 DEF Evaluate
<1>11. worker'.gen <= gen'
  BY <1>1, <1>4 DEF UserInv, RequestsReach, TypeOK
<1>12. RequestsReach'
  BY <1>9, <1>10, <1>11 DEF RequestsReach
<1>13. ASSUME NEW u \in Users
       PROVE  ~Clears(u)
  <2>1. SUFFICES ASSUME mark[u] # None, mark[u].pending # None
                 PROVE  mark'[u].pending # None
    BY DEF Clears
  <2>2. moved[u] # None /\ g # None
    BY <1>1, <1>2, <2>1
  <2>3. CASE u \in candidates
    BY <1>5, <2>2, <2>3
  <2>4. CASE u \notin candidates
    BY <1>6, <2>1, <2>2, <2>4
  <2>5. QED
    BY <2>3, <2>4
<1>14. QED
  BY <1>7, <1>8, <1>12, <1>13 DEF UserInv

(* Reading the clock or the generation, publishing it and giving up leave     *)
(* rows, forms and marks alone.                                               *)
LEMMA RequestPreserves ==
    ASSUME TypeOK, TypeOK', UserInv,
           \/ \E h \in Handlers : ReadLatest(h)
           \/ \E h \in Tasks : Publish(h) \/ PublishFails(h)
           \/ PanelRestart \/ CheckerReads
    PROVE  UserInv' /\ \A v \in Users : ~Clears(v)
<1>1. UNCHANGED <<user, used, mark, gen, form, worker>>
  BY DEF ReadLatest, Publish, PublishFails, PanelRestart, CheckerReads, table, runtime
<1>2. ASSUME NEW h \in Tasks
      PROVE  task[h] \in Task /\ task[h].gen \in Nat /\ task[h].gen <= gen
  BY DEF TypeOK, Task, UserInv, RequestsReach
<1>3. Checker \notin Handlers
  BY ConstantsAssumption
<1>4. ASSUME NEW h \in Handlers, ReadLatest(h)
      PROVE  RequestsReach' /\ MarksFollowRows'
  <2>1. /\ task' = [task EXCEPT ![h] = [at |-> "publish", gen |-> gen]]
        /\ UNCHANGED <<repaired, request>>
    BY <1>4 DEF ReadLatest
  <2>2. task'[Checker] = task[Checker]
    BY <1>3, <2>1 DEF TypeOK, Tasks
  <2>3. ASSUME NEW i \in Tasks
        PROVE  /\ task'[i].gen <= gen
               /\ task'[i].at = "ack" => request \/ worker.gen >= task'[i].gen
    BY <1>2, <2>1 DEF UserInv, RequestsReach, TypeOK
  <2>4. QED
    BY <1>1, <2>1, <2>2, <2>3 DEF UserInv, RequestsReach, MarksFollowRows, AtWork
<1>5. ASSUME NEW h \in Tasks, Publish(h)
      PROVE  RequestsReach' /\ MarksFollowRows'
  <2>1. /\ task' = [task EXCEPT ![h] = [task[h] EXCEPT !.at = "ack"]]
        /\ task[h].at = "publish" /\ request' /\ UNCHANGED repaired
    <3>1. task' = [task EXCEPT ![h].at = "ack"] /\ request' = TRUE
          /\ task[h].at = "publish" /\ UNCHANGED repaired
      BY <1>5 DEF Publish
    <3>2. [task EXCEPT ![h].at = "ack"] = [task EXCEPT ![h] = [task[h] EXCEPT !.at = "ack"]]
      BY DEF TypeOK
    <3>3. QED
      BY <3>1, <3>2
  <2>2. /\ [task[h] EXCEPT !.at = "ack"].gen = task[h].gen
        /\ [task[h] EXCEPT !.at = "ack"].at = "ack"
    BY <1>2 DEF Task
  <2>3. \A i \in Tasks : task'[i].gen <= gen
    BY <1>2, <2>1, <2>2 DEF TypeOK
  <2>4. AtWork' => AtWork
    BY <2>1 DEF AtWork, TypeOK, Tasks
  <2>5. QED
    BY <1>1, <2>1, <2>3, <2>4 DEF UserInv, RequestsReach, MarksFollowRows
<1>6. ASSUME NEW h \in Tasks, PublishFails(h)
      PROVE  RequestsReach' /\ MarksFollowRows'
  <2>1. /\ task' = [task EXCEPT ![h] = [at |-> "idle", gen |-> 0]]
        /\ UNCHANGED <<repaired, request>>
    BY <1>6 DEF PublishFails, Idle
  <2>2. gen \in Nat
    BY DEF TypeOK
  <2>3. ASSUME NEW i \in Tasks
        PROVE  /\ task'[i].gen <= gen
               /\ task'[i].at = "ack" => request \/ worker.gen >= task'[i].gen
    BY <1>2, <2>1, <2>2 DEF UserInv, RequestsReach, TypeOK
  <2>4. AtWork' => AtWork
    BY <2>1 DEF AtWork, TypeOK, Tasks
  <2>5. QED
    BY <1>1, <2>1, <2>3, <2>4 DEF UserInv, RequestsReach, MarksFollowRows, AtWork
<1>7. ASSUME PanelRestart
      PROVE  RequestsReach' /\ MarksFollowRows'
  <2>1. task' = [i \in Tasks |-> [at |-> "idle", gen |-> 0]] /\ ~repaired' /\ request' = request
    BY <1>7 DEF PanelRestart, Idle
  <2>2. \A i \in Tasks : task'[i].at = "idle" /\ task'[i].gen = 0
    BY <2>1
  <2>3. gen \in Nat /\ Checker \in Tasks
    BY DEF TypeOK, Tasks
  <2>4. RequestsReach'
    BY <1>1, <2>2, <2>3 DEF UserInv, RequestsReach
  <2>5. MarksFollowRows'
    BY <2>1, <2>2, <2>3 DEF MarksFollowRows, AtWork
  <2>6. QED
    BY <2>4, <2>5
<1>8. ASSUME CheckerReads
      PROVE  RequestsReach' /\ MarksFollowRows'
  <2>1. /\ task' = [task EXCEPT ![Checker] = [task[Checker] EXCEPT !.at = "evaluate"]]
        /\ UNCHANGED <<repaired, request>>
    <3>1. task' = [task EXCEPT ![Checker].at = "evaluate"] /\ UNCHANGED <<repaired, request>>
      BY <1>8 DEF CheckerReads
    <3>2. [task EXCEPT ![Checker].at = "evaluate"]
              = [task EXCEPT ![Checker] = [task[Checker] EXCEPT !.at = "evaluate"]]
      BY DEF TypeOK
    <3>3. QED
      BY <3>1, <3>2
  <2>2. Checker \in Tasks
    BY DEF Tasks
  <2>3. /\ [task[Checker] EXCEPT !.at = "evaluate"].gen = task[Checker].gen
        /\ [task[Checker] EXCEPT !.at = "evaluate"].at = "evaluate"
    BY <1>2, <2>2 DEF Task
  <2>4. ASSUME NEW i \in Tasks
        PROVE  /\ task'[i].gen <= gen
               /\ task'[i].at = "ack" => request \/ worker.gen >= task'[i].gen
    BY <1>2, <2>1, <2>2, <2>3 DEF UserInv, RequestsReach, TypeOK
  <2>5. ~AtWork'
    BY <2>1, <2>2, <2>3 DEF AtWork, TypeOK
  <2>6. QED
    BY <1>1, <2>1, <2>4, <2>5 DEF UserInv, RequestsReach, MarksFollowRows
<1>9. FormIsOlder'
  BY <1>1 DEF UserInv, FormIsOlder
<1>10. \A v \in Users : ~Clears(v)
  BY <1>1 DEF Clears
<1>11. QED
  BY <1>4, <1>5, <1>6, <1>7, <1>8, <1>9, <1>10 DEF UserInv

(* The acknowledgement clears only what was requested.                        *)
LEMMA AcknowledgePreserves ==
    ASSUME TypeOK, TypeOK', UserInv, NEW h \in Tasks, Acknowledge(h)
    PROVE  /\ UserInv'
           /\ \A v \in Users : Clears(v) => request \/ worker.gen >= mark[v].pending
<1>1. /\ task[h].at = "ack"
      /\ mark' = [u \in Users |->
                     IF mark[u] # None /\ mark[u].pending # None
                          /\ mark[u].pending <= task[h].gen
                     THEN [mark[u] EXCEPT !.pending = None] ELSE mark[u]]
      /\ task' = [task EXCEPT ![h] = [at |-> "idle", gen |-> 0]]
      /\ repaired' = (repaired \/ h = Checker)
      /\ UNCHANGED <<user, used, gen, form, request, worker>>
  BY DEF Acknowledge, Idle, runtime
<1>2. gen \in Nat /\ worker.gen \in Nat /\ task[h].gen \in Nat
  BY DEF TypeOK, Task
<1>3. ASSUME NEW u \in Users
      PROVE  /\ mark'[u] # None <=> mark[u] # None
             /\ mark[u] # None => mark'[u].source = mark[u].source
             /\ mark[u] # None => \/ mark'[u].pending = mark[u].pending
                                  \/ /\ mark'[u].pending = None
                                     /\ mark[u].pending <= task[h].gen
  <2>1. CASE mark'[u] = mark[u]
    BY <2>1
  <2>2. CASE /\ mark[u] # None /\ mark[u].pending <= task[h].gen
             /\ mark'[u] = [mark[u] EXCEPT !.pending = None]
    <3>1. mark[u] \in Mark
      BY <2>2 DEF TypeOK
    <3>2. mark'[u] \in Mark
      BY <2>2, <3>1 DEF Mark
    <3>3. QED
      BY <2>2, <3>1, <3>2, NoneIsNoValue DEF Mark
  <2>3. QED
    BY <1>1, <2>1, <2>2
<1>4. FormIsOlder'
  BY <1>1 DEF UserInv, FormIsOlder
<1>5. MarksFollowRows'
  <2>1. AtWork' => AtWork
    BY <1>1 DEF AtWork, TypeOK, Tasks
  <2>2. (repaired' \/ AtWork') => (repaired \/ AtWork)
    BY <1>1, <2>1 DEF AtWork
  <2>3. QED
    BY <1>1, <1>3, <2>2 DEF UserInv, MarksFollowRows
<1>6. ASSUME NEW i \in Tasks
      PROVE  /\ task'[i].gen <= gen
             /\ task'[i].at = "ack" => request \/ worker.gen >= task'[i].gen
  <2>1. CASE i = h
    BY <1>1, <1>2, <2>1 DEF TypeOK
  <2>2. CASE i # h
    <3>1. task'[i] = task[i]
      BY <1>1, <2>2 DEF TypeOK
    <3>2. QED
      BY <3>1 DEF UserInv, RequestsReach
  <2>3. QED
    BY <2>1, <2>2
<1>7. \A u \in Users : mark'[u] # None /\ mark'[u].pending # None => mark'[u].pending <= gen
  BY <1>3 DEF UserInv, RequestsReach
<1>8. RequestsReach'
  BY <1>1, <1>6, <1>7 DEF UserInv, RequestsReach
<1>9. ASSUME NEW v \in Users, Clears(v)
      PROVE  request \/ worker.gen >= mark[v].pending
  <2>1. mark[v].pending <= task[h].gen /\ mark[v].pending \in Nat
    BY <1>3, <1>9 DEF Clears, TypeOK, Mark
  <2>2. request \/ worker.gen >= task[h].gen
    BY <1>1 DEF UserInv, RequestsReach
  <2>3. QED
    BY <1>2, <2>1, <2>2
<1>10. QED
  BY <1>4, <1>5, <1>8, <1>9 DEF UserInv

(* Between two reads of the worker, worker.gen stands still; a read brings it *)
(* to the desired generation.                                                 *)
LEMMA WorkerPreserves ==
    ASSUME TypeOK, TypeOK', UserInv,
           (\E t \in Readings : WorkerReads(t)) \/ WorkerApplies \/ WorkerFails
    PROVE  UserInv' /\ \A v \in Users : ~Clears(v)
<1>1. UNCHANGED <<user, used, mark, gen, form, task, repaired>>
  BY DEF WorkerReads, WorkerApplies, WorkerFails, table
<1>2. gen \in Nat /\ worker.gen \in Nat
  BY DEF TypeOK
<1>3. (worker'.gen = worker.gen /\ request' = request) \/ worker'.gen = gen
  <2>1. ASSUME NEW t \in Readings, WorkerReads(t)
        PROVE  worker'.gen = gen
    <3>1. CASE gen > appliedGen
      BY <2>1, <3>1 DEF WorkerReads
    <3>2. CASE ~(gen > appliedGen)
      <4>1. worker' = [worker EXCEPT !.gen = gen]
        BY <2>1, <3>2 DEF WorkerReads
      <4>2. QED
        BY <4>1 DEF TypeOK
    <3>3. QED
      BY <3>1, <3>2
  <2>2. CASE WorkerApplies \/ WorkerFails
    <3>1. worker' = Ended /\ request' = request
      BY <2>2 DEF WorkerApplies, WorkerFails
    <3>2. Ended.gen = worker.gen
      BY DEF Ended, TypeOK
    <3>3. QED
      BY <3>1, <3>2
  <2>3. QED
    BY <2>1, <2>2
<1>4. ASSUME NEW h \in Tasks
      PROVE  task[h].gen \in Nat /\ task[h].gen <= gen
  BY DEF UserInv, RequestsReach, TypeOK, Task
<1>5. RequestsReach'
  BY <1>1, <1>2, <1>3, <1>4 DEF UserInv, RequestsReach
<1>6. FormIsOlder' /\ MarksFollowRows'
  BY <1>1 DEF UserInv, FormIsOlder, MarksFollowRows, AtWork
<1>7. QED
  BY <1>1, <1>5, <1>6 DEF UserInv, Clears

(* Every step of every actor keeps the invariants and the outbox.             *)
LEMMA UserStep ==
    ASSUME TypeOK, TypeOK', UserInv, [Next]_vars
    PROVE  /\ UserInv'
           /\ \A v \in Users : Clears(v) => request \/ worker.gen >= mark[v].pending
<1>0. reading \in Nat
  BY ConstantsAssumption DEF TypeOK
<1>1. ASSUME NEW u \in Users, NEW t \in Readings,
             \/ \E label \in Labels, expires \in Expiries :
                    CreateUserAction(u, label, expires, t) \/ EditUserAction(u, label, expires, t)
             \/ \E enabled \in BOOLEAN : ToggleUserAction(u, enabled, t)
             \/ RotateIdentityAction(u, t) \/ ResetTokenAction(u, t)
      PROVE  UserInv' /\ \A v \in Users : ~Clears(v)
  BY <1>1, OperationSaves, SavesPreserve
<1>2. ASSUME NEW u \in Users, NEW t \in Readings, DeleteUserAction(u, t)
      PROVE  UserInv' /\ \A v \in Users : ~Clears(v)
  BY <1>2, DeletePreserves
<1>3. ASSUME NEW u \in Users, OpenForm(u)
      PROVE  UserInv' /\ \A v \in Users : ~Clears(v)
  <2>1. /\ form' = [id |-> u, row |-> user[u]] /\ user[u] # None
        /\ UNCHANGED <<user, used, mark, gen, task, repaired, request, worker>>
    BY <1>3 DEF OpenForm, table, runtime
  <2>2. user[u].ver \in Nat /\ u \in used
    BY <2>1 DEF TypeOK, Row
  <2>3. FormIsOlder'
    BY <2>1, <2>2 DEF FormIsOlder
  <2>4. MarksFollowRows' /\ RequestsReach'
    BY <2>1 DEF UserInv, MarksFollowRows, AtWork, RequestsReach
  <2>5. QED
    BY <2>1, <2>3, <2>4 DEF UserInv, Clears
<1>4. CASE StartupRepair
  <2>1. RepairCandidates(reading) \in SUBSET Users
        /\ \A u \in RepairCandidates(reading) : user[u] # None
    BY DEF RepairCandidates
  <2>2. \A u \in Users \ RepairCandidates(reading) :
            user[u] # None => mark[u] # None /\ mark[u].source = user[u].ver
    BY DEF RepairCandidates
  <2>3. Evaluate(RepairCandidates(reading), reading)
    BY <1>4 DEF StartupRepair
  <2>4. QED
    BY <1>0, <2>1, <2>2, <2>3, EvaluatePreserves
<1>5. CASE DeadlineScan
  <2>1. DeadlineCandidates(reading) \in SUBSET Users
        /\ \A u \in DeadlineCandidates(reading) : user[u] # None
    BY DEF DeadlineCandidates
  <2>2. \A u \in Users : user[u] # None => mark[u] # None /\ mark[u].source = user[u].ver
    BY <1>5 DEF DeadlineScan, UserInv, MarksFollowRows
  <2>3. Evaluate(DeadlineCandidates(reading), reading)
    BY <1>5 DEF DeadlineScan
  <2>4. QED
    BY <1>0, <2>1, <2>2, <2>3, EvaluatePreserves
<1>6. CASE \/ \E h \in Handlers : ReadLatest(h)
           \/ \E h \in Tasks : Publish(h) \/ PublishFails(h)
           \/ PanelRestart \/ CheckerReads
  BY <1>6, RequestPreserves
<1>7. CASE \E h \in Tasks : Acknowledge(h)
  BY <1>7, AcknowledgePreserves
<1>8. CASE (\E t \in Readings : WorkerReads(t)) \/ WorkerApplies \/ WorkerFails
  BY <1>8, WorkerPreserves
<1>9. CASE Tick \/ StepBack \/ UNCHANGED vars
  <2>1. UNCHANGED <<user, used, mark, gen, form, task, repaired, request, worker>>
    BY <1>9 DEF Tick, StepBack, vars, table, runtime
  <2>2. QED
    BY <2>1 DEF UserInv, FormIsOlder, MarksFollowRows, AtWork, RequestsReach, Clears
<1>10. QED
  BY <1>1, <1>2, <1>3, <1>4, <1>5, <1>6, <1>7, <1>8, <1>9
     DEF Next, Admin, CheckerStep, HandlerStep, WorkerStep, Failure, Tasks

LEMMA UserInitially == Init => UserInv
<1> SUFFICES ASSUME Init PROVE UserInv
  OBVIOUS
<1>1. FormIsOlder
  BY DEF Init, FormIsOlder
<1>2. MarksFollowRows
  BY DEF Init, MarksFollowRows, AtWork, Idle, Tasks
<1>3. RequestsReach
  BY DEF Init, RequestsReach, Idle
<1>4. QED
  BY <1>1, <1>2, <1>3 DEF UserInv

LEMMA UserInvariant == Spec => [](TypeOK /\ UserInv)
<1>1. Init => TypeOK /\ UserInv
  BY TypeInitially, UserInitially
<1>2. TypeOK /\ UserInv /\ [Next]_vars => (TypeOK /\ UserInv)'
  BY TypePreserved, UserStep
<1>3. QED
  BY <1>1, <1>2, PTL DEF Spec

(* A form that passes the optimistic check of update_user_audited shows the   *)
(* very row it changes, whatever the clock did in between.                    *)
THEOREM FormsAreCurrent == Spec => []VersionIdentifiesRow
<1>1. TypeOK /\ UserInv => VersionIdentifiesRow
  BY DEF UserInv, FormIsOlder, VersionIdentifiesRow, FormIsCurrent
<1>2. QED
  BY <1>1, UserInvariant, PTL

(* The bounded deadline scan of the checker is as good as the full repair of  *)
(* panel start, for any deadlines and any clock.                              *)
THEOREM ScanIsComplete == Spec => []BoundedScanSuffices
<1>1. TypeOK /\ UserInv => BoundedScanSuffices
  <2>1. SUFFICES ASSUME UserInv, repaired
                 PROVE  RepairCandidates(now) = DeadlineCandidates(now)
    BY DEF BoundedScanSuffices
  <2>2. \A u \in Users : user[u] # None => mark[u] # None /\ mark[u].source = user[u].ver
    BY <2>1 DEF UserInv, MarksFollowRows
  <2>3. QED
    BY <2>2 DEF RepairCandidates, DeadlineCandidates
<1>2. QED
  BY <1>1, UserInvariant, PTL

(* mark_user_lifecycle_reconcile_published never drops a generation that no   *)
(* request and no run of the worker covers, however many handlers and commits *)
(* interleave with it.                                                        *)
THEOREM NoRequestIsLost == Spec => OutboxIsRequested
<1>1. TypeOK /\ UserInv /\ (TypeOK /\ UserInv)' /\ [Next]_vars =>
          [\A u \in Users :
              (/\ mark[u] # None /\ mark'[u] # None
               /\ mark[u].pending # None /\ mark'[u].pending = None) =>
                  request \/ worker.gen >= mark[u].pending]_vars
  BY UserStep DEF Clears
<1>2. QED
  BY <1>1, UserInvariant, PTL DEF Spec, OutboxIsRequested
-----------------------------------------------------------------------------
(* What users are granted, and what their deadlines cost, as long as the     *)
(* clock does not go back.                                                   *)

(* The invariants *)

ReadingIsPast == backs = 0 => reading <= now

(* Who is allowed now was allowed when the last checkpoint was made.          *)
MarksForesee ==
    backs = 0 => \A u \in Users :
        user[u] # None /\ mark[u] # None /\ Allowed(user[u], now) => mark[u].allowed

GrantOf(r) == [ident |-> r.ident, label |-> r.label]

(* Who is allowed now is in a view of the current generation, and nobody is   *)
(* whom the last checkpoint saw blocked, but for users the generation misses. *)
Covers(view) ==
    \A u \in Users \ missed :
        /\ user[u] = None => view[u] = None
        /\ user[u] # None /\ Allowed(user[u], now) => view[u] = GrantOf(user[u])
        /\ mark[u] # None /\ ~mark[u].allowed => view[u] = None

ViewsCover ==
    backs = 0 =>
        /\ appliedGen = gen => Covers(granted)
        /\ worker.busy /\ worker.gen = gen => Covers(worker.view)

AppliedIsBehind == appliedGen <= gen

(* Those whose deadline may still cost a generation.                          *)
MayCross == {u \in Users : user[u] # None /\ (mark[u] = None \/ mark[u].allowed)}

(* Those whom an operation saw blocked after the checker had read the clock:  *)
(* its evaluation finds them allowed, and the next one blocked again.         *)
Ahead == {u \in Users : /\ task[Checker].at = "evaluate"
                        /\ user[u] # None /\ mark[u] # None /\ ~mark[u].allowed
                        /\ Allowed(user[u], reading)}

StormIsPaid ==
    backs = 0 => gen + Cardinality(MayCross) + 2 * Cardinality(Ahead)
                     <= Cardinality(Users) + 2 * edits

-----------------------------------------------------------------------------
(* The operations *)

(* Time only takes a user's access away.                                      *)
LEMMA AccessEnds ==
    ASSUME NEW r \in Row, NEW s \in Nat, NEW t \in Nat, s <= t, Allowed(r, t)
    PROVE  Allowed(r, s)
<1>1. r.expires = None \/ r.expires \in Nat
  BY ConstantsAssumption DEF Row, Expiries
<1>2. QED
  BY <1>1 DEF Allowed, Expired

(* An operation whose transaction commits no generation changes nothing that  *)
(* the runtimes know, and not who is allowed at its reading of the clock.     *)
Tells(u, r, t, bump) ==
    bump \/ /\ user[u] # None
            /\ Allowed(r, t) = Allowed(user[u], t)
            /\ Allowed(r, t) => GrantOf(r) = GrantOf(user[u])

(* One that commits a generation is about a user who is or was allowed, or    *)
(* leaves its terms alone.                                                    *)
Earns(u, r, t, bump) ==
    bump => \/ Allowed(r, t)
            \/ user[u] # None /\ Allowed(user[u], t)
            \/ user[u] # None /\ r.enabled = user[u].enabled /\ r.expires = user[u].expires

Operates(u, r, t, bump) ==
    /\ Save(u, r, t, bump) /\ Tells(u, r, t, bump) /\ Earns(u, r, t, bump)
    /\ edits' = edits + 1
    /\ UNCHANGED <<now, backs, reading, worker, appliedGen, granted>>

LEMMA OperationTells ==
    ASSUME TypeOK, NEW u \in Users, NEW t \in Readings,
           \/ \E label \in Labels, expires \in Expiries :
                  CreateUserAction(u, label, expires, t) \/ EditUserAction(u, label, expires, t)
           \/ \E enabled \in BOOLEAN : ToggleUserAction(u, enabled, t)
           \/ RotateIdentityAction(u, t) \/ ResetTokenAction(u, t)
    PROVE  \E r \in Row, bump \in BOOLEAN : Operates(u, r, t, bump)
<1>1. t \in Nat
  BY ConstantsAssumption, ReadingsType DEF TypeOK
<1>2. ASSUME user[u] # None
      PROVE  user[u] \in Row /\ NextVersion(user[u], t) \in Nat
  BY <1>1, <1>2, VersionGrows DEF TypeOK
<1> DEFINE next == NextVersion(user[u], t)
<1>3. ASSUME NEW label \in Labels, NEW expires \in Expiries, CreateUserAction(u, label, expires, t)
      PROVE  \E r \in Row, bump \in BOOLEAN : Operates(u, r, t, bump)
  <2>1. NewRow(label, expires, t) \in Row
    BY <1>1 DEF NewRow, Row
  <2>2. Allowed(NewRow(label, expires, t), t)
    BY <1>1, <1>3, ConstantsAssumption
       DEF CreateUserAction, CreateUser, NewRow, Allowed, Expired, Expiries
  <2>3. Operates(u, NewRow(label, expires, t), t, TRUE)
    BY <1>3, <2>2 DEF CreateUserAction, CreateUser, Request, Edit, Operates, Tells, Earns,
                      clock, runtime
  <2>4. QED
    BY <2>1, <2>3
<1>4. ASSUME NEW label \in Labels, NEW expires \in Expiries, EditUserAction(u, label, expires, t)
      PROVE  \E r \in Row, bump \in BOOLEAN : Operates(u, r, t, bump)
  <2> DEFINE r == [user[u] EXCEPT !.label = label, !.expires = expires, !.ver = next]
             before == Allowed(user[u], t)
             after == Allowed(r, t)
             bump == (label # user[u].label /\ (before \/ after)) \/ before # after
  <2>1. user[u] # None
    BY <1>4 DEF EditUserAction, UpdateUser, FormIsCurrent
  <2>2. r \in Row /\ r.label = label /\ r.ident = user[u].ident
    BY <1>2, <2>1 DEF Row
  <2>3. before \in BOOLEAN /\ after \in BOOLEAN /\ bump \in BOOLEAN
    BY <1>1, <1>2, <2>1, <2>2, AccessType
  <2>4. Save(u, r, t, bump)
    BY <1>4 DEF EditUserAction, UpdateUser
  <2>5. Tells(u, r, t, bump)
    <3>1. ~bump => before = after /\ (after => r.label = user[u].label)
      BY <2>2, <2>3
    <3>2. QED
      BY <2>1, <2>2, <3>1 DEF Tells, GrantOf
  <2>6. Earns(u, r, t, bump)
    <3>1. bump => before \/ after
      BY <2>3
    <3>2. QED
      BY <2>1, <3>1 DEF Earns
  <2>7. Operates(u, r, t, bump)
    BY <1>4, <2>4, <2>5, <2>6 DEF EditUserAction, Request, Edit, Operates, clock, runtime
  <2>8. QED
    BY <2>2, <2>3, <2>7
<1>5. CASE RotateIdentityAction(u, t)
  <2> DEFINE r == [user[u] EXCEPT !.ident = next, !.ver = next]
  <2>1. user[u] # None /\ Save(u, r, t, TRUE)
    BY <1>5 DEF RotateIdentityAction, RotateIdentity, FormIsCurrent
  <2>2. r \in Row /\ r.enabled = user[u].enabled /\ r.expires = user[u].expires
    BY <1>2, <2>1 DEF Row
  <2>3. Operates(u, r, t, TRUE)
    BY <1>5, <2>1, <2>2 DEF RotateIdentityAction, Request, Edit, Operates, Tells, Earns,
                            clock, runtime
  <2>4. QED
    BY <2>2, <2>3
<1>6. ASSUME NEW enabled \in BOOLEAN, ToggleUserAction(u, enabled, t)
      PROVE  \E r \in Row, bump \in BOOLEAN : Operates(u, r, t, bump)
  <2> DEFINE r == [user[u] EXCEPT !.enabled = enabled, !.ver = next]
             bump == Allowed(user[u], t) # Allowed(r, t)
  <2>1. user[u] # None /\ Save(u, r, t, bump)
    BY <1>6 DEF ToggleUserAction, SetEnabled
  <2>2. r \in Row /\ r.label = user[u].label /\ r.ident = user[u].ident
    BY <1>2, <2>1 DEF Row
  <2>3. Tells(u, r, t, bump) /\ Earns(u, r, t, bump) /\ bump \in BOOLEAN
    <3>1. Allowed(user[u], t) \in BOOLEAN /\ Allowed(r, t) \in BOOLEAN
      BY <1>1, <1>2, <2>1, <2>2, AccessType
    <3>2. QED
      BY <2>1, <2>2, <3>1 DEF Tells, Earns, GrantOf
  <2>4. Operates(u, r, t, bump)
    BY <1>6, <2>1, <2>3 DEF ToggleUserAction, Request, Edit, Operates, clock, runtime
  <2>5. QED
    BY <2>2, <2>3, <2>4
<1>7. CASE ResetTokenAction(u, t)
  <2> DEFINE r == [user[u] EXCEPT !.ver = next]
  <2>1. user[u] # None /\ Save(u, r, t, FALSE)
    BY <1>7 DEF ResetTokenAction, ResetToken
  <2>2. r \in Row /\ r.label = user[u].label /\ r.ident = user[u].ident
        /\ r.expires = user[u].expires /\ r.enabled = user[u].enabled
    BY <1>2, <2>1 DEF Row
  <2>3. Tells(u, r, t, FALSE)
    BY <2>1, <2>2 DEF Tells, GrantOf, Allowed, Expired
  <2>4. Operates(u, r, t, FALSE)
    BY <1>7, <2>1, <2>3 DEF ResetTokenAction, Request, Edit, Operates, Earns, clock, runtime
  <2>5. QED
    BY <2>2, <2>4
<1>8. QED
  BY <1>3, <1>4, <1>5, <1>6, <1>7

(* The task of a request is another one than the checker's.                   *)
LEMMA QueueLeavesChecker ==
    ASSUME TypeOK, NEW bump \in BOOLEAN, Queue(bump)
    PROVE  task'[Checker] = task[Checker]
<1>1. PICK h \in Handlers : task' = IF bump THEN [task EXCEPT ![h].at = "read"] ELSE task
  BY DEF Queue
<1>2. h # Checker
  BY ConstantsAssumption
<1>3. [task EXCEPT ![h].at = "read"] = [task EXCEPT ![h] = [task[h] EXCEPT !.at = "read"]]
  BY DEF TypeOK
<1>4. QED
  BY <1>1, <1>2, <1>3 DEF TypeOK, Tasks

(* What such an operation leaves.                                             *)
LEMMA OperationLeaves ==
    ASSUME TypeOK, NEW u \in Users, NEW t \in Readings, NEW r \in Row, NEW bump \in BOOLEAN,
           Operates(u, r, t, bump)
    PROVE  /\ user' = [user EXCEPT ![u] = r] /\ user'[u] = r /\ r # None
           /\ mark'[u] # None /\ mark'[u].allowed = Allowed(r, t)
           /\ \A v \in Users \ {u} : user'[v] = user[v] /\ mark'[v] = mark[v]
           /\ gen' = IF bump THEN gen + 1 ELSE gen
           /\ missed' = IF bump THEN {} ELSE IF Judged(u, t) THEN missed ELSE missed \cup {u}
           /\ task'[Checker] = task[Checker]
<1>1. t \in Nat
  BY ConstantsAssumption, ReadingsType DEF TypeOK
<1> DEFINE g == IF bump THEN gen + 1 ELSE gen
           p == IF bump THEN g ELSE None
<1>2. /\ gen' = g /\ user' = [user EXCEPT ![u] = r]
      /\ mark' = [mark EXCEPT ![u] = MarkOf(u, r, t, p)]
  BY DEF Operates, Save
<1>3. p \in {None} \cup Nat
  BY DEF TypeOK
<1>4. MarkOf(u, r, t, p) # None
  BY <1>1, <1>3, MarkOfType DEF TypeOK
<1>5. MarkOf(u, r, t, p).allowed = Allowed(r, t)
  BY DEF MarkOf
<1>6. missed' = IF bump THEN {} ELSE IF Judged(u, t) THEN missed ELSE missed \cup {u}
  BY DEF Operates, Save, Decide
<1>7. task'[Checker] = task[Checker]
  BY QueueLeavesChecker DEF Operates, Save
<1>8. QED
  BY <1>2, <1>4, <1>5, <1>6, <1>7, NoneIsNoValue DEF TypeOK

(* And a scan.                                                                *)
LEMMA ScanLeaves ==
    ASSUME TypeOK, NEW t \in Nat, NEW candidates \in SUBSET Users,
           \A u \in candidates : user[u] # None,
           Evaluate(candidates, t)
    PROVE  /\ UNCHANGED <<now, backs, edits, user, worker, appliedGen, granted>>
           /\ gen' = IF Transitions(candidates, t) = {} THEN gen ELSE gen + 1
           /\ missed' = IF Transitions(candidates, t) = {} THEN missed ELSE {}
           /\ task[Checker].at = "evaluate" /\ task'[Checker].at # "evaluate"
           /\ reading' = 0
           /\ \A u \in Users :
                 /\ u \in candidates => mark'[u] # None /\ mark'[u].allowed = Allowed(user[u], t)
                 /\ u \notin candidates /\ mark[u] = None => mark'[u] = None
                 /\ u \notin candidates /\ mark[u] # None
                       => mark'[u] # None /\ mark'[u].allowed = mark[u].allowed
<1> DEFINE crossed == Transitions(candidates, t)
           g == IF crossed = {} THEN gen ELSE gen + 1
           moved == [u \in Users |->
                        IF crossed # {} /\ mark[u] # None /\ mark[u].pending # None
                        THEN g ELSE IF mark[u] = None THEN None ELSE mark[u].pending]
<1>1. /\ gen' = g /\ reading' = 0 /\ missed' = IF crossed = {} THEN missed ELSE {}
      /\ UNCHANGED <<now, backs, edits, user, worker, appliedGen, granted>>
  BY DEF Evaluate, clock, bounds, runtime
<1>2. mark' = [u \in Users |->
                  IF u \in candidates
                  THEN [MarkOf(u, user[u], t, None) EXCEPT !.pending =
                            IF u \in crossed THEN g ELSE moved[u]]
                  ELSE IF mark[u] = None THEN None
                  ELSE [mark[u] EXCEPT !.pending = moved[u]]]
  BY DEF Evaluate
<1>3. g \in Nat
  BY DEF TypeOK
<1>4. ASSUME NEW u \in Users
      PROVE  moved[u] \in {None} \cup Nat
  BY <1>3 DEF TypeOK, Mark
<1> DEFINE next(u) == IF u \in crossed THEN g ELSE moved[u]
<1>5. ASSUME NEW u \in Users
      PROVE  next(u) \in {None} \cup Nat
  BY <1>3, <1>4
<1> HIDE DEF crossed, g, moved, next
<1>6. ASSUME NEW m \in Mark, NEW p \in {None} \cup Nat
      PROVE  [m EXCEPT !.pending = p] # None /\ [m EXCEPT !.pending = p].allowed = m.allowed
  <2>1. [m EXCEPT !.pending = p] \in Mark /\ [m EXCEPT !.pending = p].allowed = m.allowed
    BY DEF Mark
  <2>2. QED
    BY <2>1, NoneIsNoValue
<1>7. ASSUME NEW u \in candidates
      PROVE  mark'[u] # None /\ mark'[u].allowed = Allowed(user[u], t)
  <2>1. u \in Users /\ user[u] \in Row
    BY DEF TypeOK
  <2>2. MarkOf(u, user[u], t, None) \in Mark
    BY <1>3, <2>1, MarkOfType DEF TypeOK
  <2>3. MarkOf(u, user[u], t, None).allowed = Allowed(user[u], t)
    BY DEF MarkOf
  <2>4. mark'[u] = [MarkOf(u, user[u], t, None) EXCEPT !.pending = next(u)]
    BY <1>2, <2>1 DEF next
  <2>5. QED
    BY <1>5, <1>6, <2>1, <2>2, <2>3, <2>4
<1>8. ASSUME NEW u \in Users \ candidates, mark[u] # None
      PROVE  mark'[u] # None /\ mark'[u].allowed = mark[u].allowed
  <2>1. mark[u] \in Mark /\ moved[u] \in {None} \cup Nat
    BY <1>4, <1>8 DEF TypeOK
  <2>2. mark'[u] = [mark[u] EXCEPT !.pending = moved[u]]
    BY <1>2, <1>8
  <2>3. QED
    BY <1>6, <2>1, <2>2
<1>9. ASSUME NEW u \in Users \ candidates, mark[u] = None
      PROVE  mark'[u] = None
  BY <1>2, <1>9
<1>10. task[Checker].at = "evaluate" /\ task'[Checker].at # "evaluate"
  <2>1. \/ task' = [task EXCEPT ![Checker] = Idle]
        \/ \E h : task' = [task EXCEPT ![Checker] = [at |-> "publish", gen |-> h]]
    BY DEF Evaluate
  <2>2. QED
    BY <2>1 DEF Evaluate, Idle, Tasks, TypeOK
<1>11. QED
  BY <1>1, <1>7, <1>8, <1>9, <1>10 DEF g, crossed
-----------------------------------------------------------------------------
(* The kinds of steps *)

(* No reading of the checker that it does not hold already.                   *)
KeepsReading ==
    task'[Checker].at = "evaluate" => task[Checker].at = "evaluate" /\ reading' = reading

(* Neither the rows nor what the checkpoints say of them.                     *)
Quiet ==
    /\ UNCHANGED <<now, backs, edits, user, gen, missed, worker, appliedGen, granted>>
    /\ reading' \in {0, reading} /\ KeepsReading
    /\ \A u \in Users : /\ (mark'[u] = None) = (mark[u] = None)
                        /\ mark[u] # None => mark'[u].allowed = mark[u].allowed

Scans == \E candidates \in SUBSET Users :
             (\A u \in candidates : user[u] # None) /\ Evaluate(candidates, reading)

LEMMA AcknowledgeIsQuiet ==
    ASSUME TypeOK, NEW h \in Tasks, Acknowledge(h)
    PROVE  Quiet
<1>1. ASSUME NEW u \in Users, mark[u] # None
      PROVE  /\ [mark[u] EXCEPT !.pending = None] # None
             /\ [mark[u] EXCEPT !.pending = None].allowed = mark[u].allowed
  <2>1. mark[u] \in Mark
    BY <1>1 DEF TypeOK
  <2>2. /\ [mark[u] EXCEPT !.pending = None] \in Mark
        /\ [mark[u] EXCEPT !.pending = None].allowed = mark[u].allowed
    BY <2>1 DEF Mark
  <2>3. QED
    BY <2>2, NoneIsNoValue
<1>2. mark' = [u \in Users |->
                  IF mark[u] # None /\ mark[u].pending # None
                       /\ mark[u].pending <= task[h].gen
                  THEN [mark[u] EXCEPT !.pending = None] ELSE mark[u]]
  BY DEF Acknowledge
<1>3. \A u \in Users : /\ (mark'[u] = None) = (mark[u] = None)
                       /\ mark[u] # None => mark'[u].allowed = mark[u].allowed
  BY <1>1, <1>2
<1>4. KeepsReading
  BY DEF Acknowledge, KeepsReading, Idle, Tasks, TypeOK
<1>5. QED
  BY <1>3, <1>4 DEF Acknowledge, Quiet, clock, bounds, runtime

LEMMA StepIs ==
    ASSUME TypeOK, [Next]_vars
    PROVE  \/ \E u \in Users, t \in Readings, r \in Row, bump \in BOOLEAN :
                  Operates(u, r, t, bump)
           \/ \E u \in Users, t \in Readings : DeleteUserAction(u, t)
           \/ Scans
           \/ (\E t \in Readings : WorkerReads(t)) \/ WorkerApplies \/ WorkerFails
           \/ Tick \/ StepBack
           \/ CheckerReads
           \/ Quiet
<1>1. ASSUME NEW u \in Users, NEW t \in Readings,
             \/ \E label \in Labels, expires \in Expiries :
                    CreateUserAction(u, label, expires, t) \/ EditUserAction(u, label, expires, t)
             \/ \E enabled \in BOOLEAN : ToggleUserAction(u, enabled, t)
             \/ RotateIdentityAction(u, t) \/ ResetTokenAction(u, t)
      PROVE  \E r \in Row, bump \in BOOLEAN : Operates(u, r, t, bump)
  BY <1>1, OperationTells
<1>2. CASE StartupRepair
  BY <1>2 DEF StartupRepair, RepairCandidates, Scans
<1>3. CASE DeadlineScan
  BY <1>3 DEF DeadlineScan, DeadlineCandidates, Scans
<1>4. CASE \E h \in Tasks : Acknowledge(h)
  BY <1>4, AcknowledgeIsQuiet
<1>5. CASE \/ \E u \in Users : OpenForm(u)
           \/ \E h \in Handlers : ReadLatest(h)
           \/ \E h \in Tasks : Publish(h) \/ PublishFails(h)
           \/ PanelRestart \/ UNCHANGED vars
  <2>1. UNCHANGED <<now, backs, edits, user, mark, gen, missed, worker, appliedGen, granted>>
    BY <1>5 DEF OpenForm, ReadLatest, Publish, PublishFails, PanelRestart, vars,
                clock, bounds, table, runtime
  <2>2. reading' \in {0, reading}
    BY <1>5 DEF OpenForm, ReadLatest, Publish, PublishFails, PanelRestart, vars
  <2>3. Checker \in Tasks /\ task[Checker] \in Task
    BY DEF Tasks, TypeOK
  <2>4. KeepsReading
    <3>1. ASSUME NEW h \in Handlers, ReadLatest(h)
          PROVE  task'[Checker] = task[Checker] /\ reading' = reading
      <4>1. h # Checker
        BY ConstantsAssumption
      <4>2. QED
        BY <2>3, <3>1, <4>1 DEF ReadLatest, TypeOK
    <3>2. ASSUME NEW h \in Tasks, Publish(h)
          PROVE  KeepsReading
      <4>1. task' = [task EXCEPT ![h] = [task[h] EXCEPT !.at = "ack"]]
        <5>1. task' = [task EXCEPT ![h].at = "ack"]
          BY <3>2 DEF Publish
        <5>2. [task EXCEPT ![h].at = "ack"] = [task EXCEPT ![h] = [task[h] EXCEPT !.at = "ack"]]
          BY DEF TypeOK
        <5>3. QED
          BY <5>1, <5>2
      <4>2. [task[h] EXCEPT !.at = "ack"].at = "ack"
        BY DEF TypeOK, Task
      <4>3. reading' = reading
        BY <3>2 DEF Publish
      <4>4. QED
        BY <2>3, <4>1, <4>2, <4>3 DEF KeepsReading, TypeOK
    <3>3. ASSUME NEW h \in Tasks, PublishFails(h)
          PROVE  KeepsReading
      BY <2>3, <3>3 DEF PublishFails, KeepsReading, Idle, TypeOK
    <3>4. ASSUME PanelRestart
          PROVE  KeepsReading
      BY <2>3, <3>4 DEF PanelRestart, KeepsReading, Idle
    <3>5. QED
      BY <1>5, <3>1, <3>2, <3>3, <3>4 DEF OpenForm, vars, KeepsReading
  <2>5. QED
    BY <2>1, <2>2, <2>4 DEF Quiet
<1>6. QED
  BY <1>1, <1>2, <1>3, <1>4, <1>5
     DEF Next, Admin, CheckerStep, HandlerStep, WorkerStep, Failure, Tasks

(* What the deletion of a user leaves.                                        *)
LEMMA DeletionLeaves ==
    ASSUME TypeOK, NEW u \in Users, NEW t \in Readings, DeleteUserAction(u, t)
    PROVE  /\ user[u] # None /\ user'[u] = None /\ mark'[u] = None
           /\ \A v \in Users \ {u} : user'[v] = user[v] /\ mark'[v] = mark[v]
           /\ gen' = IF Allowed(user[u], t) THEN gen + 1 ELSE gen
           /\ missed' = IF Allowed(user[u], t) THEN {}
                         ELSE IF Judged(u, t) THEN missed ELSE missed \cup {u}
           /\ edits' = edits + 1 /\ task'[Checker] = task[Checker]
           /\ UNCHANGED <<now, backs, reading, worker, appliedGen, granted>>
<1>1. t \in Nat /\ user[u] \in Row
  BY ConstantsAssumption, ReadingsType DEF DeleteUserAction, DeleteUser, TypeOK
<1>2. task'[Checker] = task[Checker]
  BY <1>1, AccessType, QueueLeavesChecker DEF DeleteUserAction, DeleteUser
<1>3. QED
  BY <1>2 DEF DeleteUserAction, DeleteUser, Decide, Request, Edit, TypeOK, clock, runtime

-----------------------------------------------------------------------------
(* Every step preserves the invariants *)

LEMMA ReadingStaysPast ==
    ASSUME TypeOK, ReadingIsPast, [Next]_vars
    PROVE  ReadingIsPast'
<1>0. now \in Nat /\ backs \in Nat /\ reading \in Nat
  BY ConstantsAssumption DEF TypeOK
<1>1. CASE \/ \E u \in Users, t \in Readings, r \in Row, bump \in BOOLEAN :
                  Operates(u, r, t, bump)
           \/ \E u \in Users, t \in Readings : DeleteUserAction(u, t)
  <2>1. UNCHANGED <<now, backs, reading>>
    BY <1>1, DeletionLeaves DEF Operates
  <2>2. QED
    BY <2>1 DEF ReadingIsPast
<1>2. CASE Scans
  <2>1. UNCHANGED <<now, backs>> /\ reading' = 0
    BY <1>2 DEF Scans, Evaluate, clock
  <2>2. QED
    BY <1>0, <2>1 DEF ReadingIsPast
<1>3. CASE (\E t \in Readings : WorkerReads(t)) \/ WorkerApplies \/ WorkerFails
  BY <1>3 DEF WorkerReads, WorkerApplies, WorkerFails, clock, ReadingIsPast
<1>4. CASE Tick \/ StepBack
  BY <1>0, <1>4 DEF Tick, StepBack, ReadingIsPast
<1>5. CASE CheckerReads
  BY <1>0, <1>5 DEF CheckerReads, clock, ReadingIsPast
<1>6. CASE Quiet
  BY <1>0, <1>6 DEF Quiet, ReadingIsPast
<1>7. QED
  BY <1>1, <1>2, <1>3, <1>4, <1>5, <1>6, StepIs

LEMMA MarksStillForesee ==
    ASSUME TypeOK, ReadingIsPast, MarksForesee, [Next]_vars
    PROVE  MarksForesee'
<1> SUFFICES ASSUME backs' = 0, NEW v \in Users, user'[v] # None, mark'[v] # None,
                    Allowed(user'[v], now')
             PROVE  mark'[v].allowed
  BY DEF MarksForesee
<1>0. now \in Nat /\ backs \in Nat /\ reading \in Nat /\ Readings \subseteq Nat
      /\ (user[v] # None => user[v] \in Row)
  BY ConstantsAssumption, ReadingsType DEF TypeOK
<1>1. ASSUME NEW u \in Users, NEW t \in Readings, NEW r \in Row, NEW bump \in BOOLEAN,
             Operates(u, r, t, bump)
      PROVE  mark'[v].allowed
  <2>1. backs = 0 /\ now' = now /\ t \in Nat /\ t <= now
    BY <1>0, <1>1 DEF Operates, Readings
  <2>2. CASE v = u
    BY <1>0, <1>1, <2>1, <2>2, OperationLeaves, AccessEnds
  <2>3. CASE v # u
    BY <1>1, <2>1, <2>3, OperationLeaves DEF MarksForesee
  <2>4. QED
    BY <2>2, <2>3
<1>2. ASSUME NEW u \in Users, NEW t \in Readings, DeleteUserAction(u, t)
      PROVE  mark'[v].allowed
  BY <1>2, DeletionLeaves DEF MarksForesee
<1>3. CASE Scans
  <2>1. PICK candidates \in SUBSET Users :
            (\A u \in candidates : user[u] # None) /\ Evaluate(candidates, reading)
    BY <1>3 DEF Scans
  <2>2. backs = 0 /\ now' = now /\ user' = user
    BY <1>0, <2>1, ScanLeaves
  <2>3. Allowed(user[v], reading)
    BY <1>0, <2>2, AccessEnds DEF ReadingIsPast
  <2>4. QED
    BY <1>0, <2>1, <2>2, <2>3, ScanLeaves DEF MarksForesee
<1>4. CASE (\E t \in Readings : WorkerReads(t)) \/ WorkerApplies \/ WorkerFails
  BY <1>4 DEF WorkerReads, WorkerApplies, WorkerFails, clock, table, MarksForesee
<1>5. CASE Tick
  <2>1. UNCHANGED <<backs, user, mark>> /\ now' = now + 1
    BY <1>5 DEF Tick, table
  <2>2. Allowed(user[v], now)
    BY <1>0, <2>1, AccessEnds
  <2>3. QED
    BY <2>1, <2>2 DEF MarksForesee
<1>6. CASE StepBack
  BY <1>0, <1>6 DEF StepBack
<1>7. CASE Quiet
  BY <1>7 DEF Quiet, MarksForesee
<1>8. CASE CheckerReads
  BY <1>8 DEF CheckerReads, clock, table, MarksForesee
<1>9. QED
  BY <1>1, <1>2, <1>3, <1>4, <1>5, <1>6, <1>7, <1>8, StepIs

(* A generation is applied after it was read, and read after it was made.     *)
LEMMA AppliedStaysBehind ==
    ASSUME TypeOK, UserInv, AppliedIsBehind, [Next]_vars
    PROVE  AppliedIsBehind'
<1>0. gen \in Nat /\ appliedGen \in Nat /\ worker.gen \in Nat /\ worker.gen <= gen /\ appliedGen <= gen
  BY DEF TypeOK, UserInv, RequestsReach, AppliedIsBehind
<1>1. ASSUME NEW u \in Users, NEW t \in Readings, NEW r \in Row, NEW bump \in BOOLEAN,
             Operates(u, r, t, bump)
      PROVE  AppliedIsBehind'
  <2>1. appliedGen' = appliedGen /\ gen' = IF bump THEN gen + 1 ELSE gen
    BY <1>1, OperationLeaves DEF Operates
  <2>2. QED
    BY <1>0, <2>1 DEF AppliedIsBehind
<1>2. ASSUME NEW u \in Users, NEW t \in Readings, DeleteUserAction(u, t)
      PROVE  AppliedIsBehind'
  <2>1. appliedGen' = appliedGen /\ gen' = IF Allowed(user[u], t) THEN gen + 1 ELSE gen
    BY <1>2, DeletionLeaves
  <2>2. QED
    BY <1>0, <2>1 DEF AppliedIsBehind
<1>3. CASE Scans
  <2>1. appliedGen' = appliedGen /\ (gen' = gen \/ gen' = gen + 1)
    BY <1>3 DEF Scans, Evaluate, runtime
  <2>2. QED
    BY <1>0, <2>1 DEF AppliedIsBehind
<1>4. CASE (\E t \in Readings : WorkerReads(t)) \/ WorkerApplies \/ WorkerFails
  BY <1>0, <1>4 DEF WorkerReads, WorkerApplies, WorkerFails, table, AppliedIsBehind
<1>5. CASE Tick \/ StepBack
  BY <1>0, <1>5 DEF Tick, StepBack, table, runtime, AppliedIsBehind
<1>6. CASE Quiet \/ CheckerReads
  BY <1>0, <1>6 DEF Quiet, CheckerReads, table, runtime, AppliedIsBehind
<1>7. QED
  BY <1>1, <1>2, <1>3, <1>4, <1>5, <1>6, StepIs

(* A step without a generation keeps every view that covers the users, but    *)
(* for those whom the generation misses from then on.                         *)
SameAccess ==
    /\ missed \subseteq missed'
    /\ \A u \in Users \ missed' :
        /\ user'[u] = None => user[u] = None \/ (mark[u] # None /\ ~mark[u].allowed)
        /\ user'[u] # None /\ Allowed(user'[u], now') =>
               user[u] # None /\ Allowed(user[u], now) /\ GrantOf(user'[u]) = GrantOf(user[u])
        /\ mark'[u] # None /\ ~mark'[u].allowed => mark[u] # None /\ ~mark[u].allowed

LEMMA SameViewsCover ==
    ASSUME ViewsCover, backs' = 0 => backs = 0 /\ SameAccess,
           UNCHANGED <<gen, worker, appliedGen, granted>>
    PROVE  ViewsCover'
<1>1. SUFFICES ASSUME backs' = 0 PROVE ViewsCover'
  BY DEF ViewsCover
<1>2. ASSUME NEW view, Covers(view)
      PROVE  Covers(view)'
  BY <1>1, <1>2 DEF Covers, SameAccess
<1>3. appliedGen' = gen' => Covers(granted)'
  BY <1>1, <1>2 DEF ViewsCover
<1>4. worker'.busy /\ worker'.gen = gen' => Covers(worker.view)'
  BY <1>1, <1>2 DEF ViewsCover
<1>5. QED
  BY <1>3, <1>4 DEF ViewsCover

(* No view is of a generation that was just made.                             *)
LEMMA NewGenerationIsUnread ==
    ASSUME TypeOK, UserInv, AppliedIsBehind, gen' = gen + 1, UNCHANGED <<worker, appliedGen>>
    PROVE  ViewsCover'
<1>1. gen \in Nat /\ appliedGen \in Nat /\ worker.gen \in Nat /\ worker.gen <= gen /\ appliedGen <= gen
  BY DEF TypeOK, UserInv, RequestsReach, AppliedIsBehind
<1>2. appliedGen' # gen' /\ worker'.gen # gen'
  BY <1>1
<1>3. QED
  BY <1>2 DEF ViewsCover

LEMMA ViewsStillCover ==
    ASSUME TypeOK, UserInv, ReadingIsPast, MarksForesee, AppliedIsBehind, ViewsCover,
           [Next]_vars
    PROVE  ViewsCover'
<1>0. now \in Nat /\ backs \in Nat /\ reading \in Nat /\ Readings \subseteq Nat
      /\ (backs = 0 => \A t \in Readings : t <= now)
      /\ \A u \in Users : /\ user[u] # None => user[u] \in Row
                          /\ mark[u] # None => mark[u].allowed \in BOOLEAN /\ user[u] # None
  BY ConstantsAssumption DEF TypeOK, Readings, Mark
<1>1. ASSUME NEW u \in Users, NEW t \in Readings, NEW r \in Row, NEW bump \in BOOLEAN,
             Operates(u, r, t, bump)
      PROVE  ViewsCover'
  <2>1. CASE bump
    BY <1>1, <2>1, OperationLeaves, NewGenerationIsUnread DEF Operates
  <2>2. CASE ~bump
    <3>1. /\ t \in Nat /\ UNCHANGED <<now, backs, gen, worker, appliedGen, granted>>
          /\ user[u] # None /\ Allowed(r, t) = Allowed(user[u], t)
          /\ Allowed(r, t) => GrantOf(r) = GrantOf(user[u])
      BY <1>0, <1>1, <2>2, OperationLeaves DEF Operates, Tells
    <3>2. missed' = IF Judged(u, t) THEN missed ELSE missed \cup {u}
      BY <1>1, <2>2, OperationLeaves
    <3>3. ASSUME backs = 0, NEW v \in Users \ missed'
          PROVE  \/ user'[v] = user[v] /\ mark'[v] = mark[v]
                 \/ /\ user'[v] # None
                    /\ Allowed(user'[v], now) =>
                           /\ user[v] # None /\ Allowed(user[v], now)
                           /\ GrantOf(user'[v]) = GrantOf(user[v])
                    /\ ~mark'[v].allowed => mark[v] # None /\ ~mark[v].allowed
      <4>1. CASE v # u
        BY <1>1, <4>1, OperationLeaves
      <4>2. CASE v = u
        <5>1. /\ mark[u] # None /\ mark[u].allowed = Allowed(user[u], now)
              /\ Allowed(user[u], t) = Allowed(user[u], now)
          BY <3>1, <3>2, <3>3, <4>2 DEF Judged, Observed
        <5>2. user'[u] = r /\ r # None /\ mark'[u].allowed = Allowed(r, t)
          BY <1>1, OperationLeaves
        <5>3. Allowed(r, now) => Allowed(r, t)
          BY <1>0, <3>1, <3>3, AccessEnds
        <5>4. QED
          BY <3>1, <4>2, <5>1, <5>2, <5>3
      <4>3. QED
        BY <4>1, <4>2
    <3>4. backs = 0 => SameAccess
      BY <3>1, <3>2, <3>3 DEF SameAccess
    <3>5. QED
      BY <3>1, <3>4, SameViewsCover
  <2>3. QED
    BY <2>1, <2>2
<1>2. ASSUME NEW u \in Users, NEW t \in Readings, DeleteUserAction(u, t)
      PROVE  ViewsCover'
  <2>1. CASE Allowed(user[u], t)
    BY <1>2, <2>1, DeletionLeaves, NewGenerationIsUnread
  <2>2. CASE ~Allowed(user[u], t)
    <3>1. /\ UNCHANGED <<now, backs, gen, worker, appliedGen, granted>>
          /\ user[u] # None /\ user'[u] = None /\ mark'[u] = None
          /\ missed' = IF Judged(u, t) THEN missed ELSE missed \cup {u}
          /\ \A v \in Users \ {u} : user'[v] = user[v] /\ mark'[v] = mark[v]
      BY <1>2, <2>2, DeletionLeaves
    <3>2. u \notin missed' => mark[u] # None /\ ~mark[u].allowed
      BY <2>2, <3>1 DEF Judged, Observed
    <3>3. SameAccess
      BY <3>1, <3>2 DEF SameAccess
    <3>4. QED
      BY <3>1, <3>3, SameViewsCover
  <2>3. QED
    BY <2>1, <2>2
<1>3. CASE Scans
  <2>1. PICK candidates \in SUBSET Users :
            (\A u \in candidates : user[u] # None) /\ Evaluate(candidates, reading)
    BY <1>3 DEF Scans
  <2>2. CASE Transitions(candidates, reading) # {}
    <3>1. gen' = gen + 1 /\ UNCHANGED <<worker, appliedGen>>
      BY <1>0, <2>1, <2>2, ScanLeaves
    <3>2. QED
      BY <3>1, NewGenerationIsUnread
  <2>3. CASE Transitions(candidates, reading) = {}
    <3>1. \A u \in candidates :
              /\ mark[u] = None => Allowed(user[u], reading)
              /\ mark[u] # None => mark[u].allowed = Allowed(user[u], reading)
      BY <2>3 DEF Transitions
    <3>2. /\ UNCHANGED <<now, backs, user, gen, missed, worker, appliedGen, granted>>
          /\ \A u \in Users :
                /\ u \in candidates =>
                       mark'[u] # None /\ mark'[u].allowed = Allowed(user[u], reading)
                /\ u \notin candidates /\ mark[u] = None => mark'[u] = None
                /\ u \notin candidates /\ mark[u] # None
                      => mark'[u] # None /\ mark'[u].allowed = mark[u].allowed
      BY <1>0, <2>1, <2>3, ScanLeaves
    <3>3. SameAccess
      BY <3>1, <3>2 DEF SameAccess
    <3>4. QED
      BY <3>2, <3>3, SameViewsCover
  <2>4. QED
    BY <2>2, <2>3
<1>4. ASSUME NEW t \in Readings, WorkerReads(t)
      PROVE  ViewsCover'
  <2>1. /\ UNCHANGED <<now, backs, user, mark, gen, appliedGen, granted>> /\ ~worker.busy
        /\ t \in Nat /\ (backs = 0 => t <= now)
    BY <1>0, <1>4 DEF WorkerReads, clock
  <2>2. CASE gen > appliedGen
    <3>1. worker'.view = View(t) /\ missed' = Misread(t) /\ appliedGen' # gen'
      BY <1>4, <2>1, <2>2 DEF WorkerReads, TypeOK
    <3>2. ASSUME backs = 0, NEW u \in Users \ Misread(t)
          PROVE  /\ user[u] = None => View(t)[u] = None
                 /\ user[u] # None /\ Allowed(user[u], now) => View(t)[u] = GrantOf(user[u])
                 /\ mark[u] # None /\ ~mark[u].allowed => View(t)[u] = None
      <4>1. user[u] # None /\ Allowed(user[u], now) => Allowed(user[u], t)
        BY <1>0, <2>1, <3>2, AccessEnds
      <4>2. mark[u] # None /\ ~mark[u].allowed => View(t)[u] = None
        BY <3>2 DEF Misread
      <4>3. QED
        BY <4>1, <4>2 DEF View, GrantOf
    <3>3. QED
      BY <2>1, <3>1, <3>2 DEF ViewsCover, Covers
  <2>3. CASE ~(gen > appliedGen)
    <3>1. missed' = missed /\ ~worker'.busy
      BY <1>4, <2>1, <2>3 DEF WorkerReads, TypeOK
    <3>2. QED
      BY <2>1, <3>1 DEF ViewsCover, Covers
  <2>4. QED
    BY <2>2, <2>3
<1>5. CASE WorkerApplies
  <2>1. /\ UNCHANGED <<now, backs, user, mark, gen, missed>>
        /\ worker.busy /\ ~worker'.busy /\ appliedGen' = worker.gen /\ granted' = worker.view
    BY <1>5 DEF WorkerApplies, Ended, clock, table, TypeOK
  <2>2. QED
    BY <2>1 DEF ViewsCover, Covers
<1>6. CASE WorkerFails
  <2>1. UNCHANGED <<now, backs, user, mark, gen, missed, appliedGen, granted>> /\ ~worker'.busy
    BY <1>6 DEF WorkerFails, Ended, clock, table, TypeOK
  <2>2. QED
    BY <2>1 DEF ViewsCover, Covers
<1>7. CASE Tick
  <2>1. /\ UNCHANGED <<backs, user, mark, gen, missed, worker, appliedGen, granted>>
        /\ now' = now + 1
    BY <1>7 DEF Tick, table, runtime
  <2>2. SameAccess
    BY <1>0, <2>1, AccessEnds DEF SameAccess
  <2>3. QED
    BY <2>1, <2>2, SameViewsCover
<1>8. CASE StepBack
  BY <1>0, <1>8 DEF StepBack, ViewsCover
<1>9. CASE Quiet
  <2>1. SameAccess
    BY <1>9 DEF Quiet, SameAccess
  <2>2. QED
    BY <1>9, <2>1, SameViewsCover DEF Quiet
<1>10. CASE CheckerReads
  BY <1>10 DEF CheckerReads, clock, table, runtime, ViewsCover, Covers
<1>11. QED
  BY <1>1, <1>2, <1>3, <1>4, <1>5, <1>6, <1>7, <1>8, <1>9, <1>10, StepIs

(* One more member at most.                                                   *)
LEMMA OneMore ==
    ASSUME NEW S, IsFiniteSet(S), NEW x, NEW T \in SUBSET (S \cup {x})
    PROVE  Cardinality(T) <= Cardinality(S) + 1
<1>1. /\ IsFiniteSet(S \cup {x})
      /\ Cardinality(S \cup {x}) = IF x \in S THEN Cardinality(S) ELSE Cardinality(S) + 1
  BY FS_AddElement
<1>2. IsFiniteSet(T) /\ Cardinality(T) <= Cardinality(S \cup {x})
  BY <1>1, FS_Subset
<1>3. Cardinality(S) \in Nat /\ Cardinality(T) \in Nat
  BY <1>2, FS_CardinalityType
<1>4. QED
  BY <1>1, <1>2, <1>3

(* A step of the clock back ends what is claimed; the rest is counted.        *)
LEMMA StormStaysPaid ==
    ASSUME IsFiniteSet(Users), TypeOK, ReadingIsPast, MarksForesee, StormIsPaid, [Next]_vars
    PROVE  StormIsPaid'
<1> DEFINE before == MayCross
           after == MayCross'
           ahead == Ahead
           later == Ahead'
           k == Cardinality(MayCross)
           l == Cardinality(after)
           a == Cardinality(Ahead)
           b == Cardinality(later)
           n == Cardinality(Users)
<1>0. /\ now \in Nat /\ backs \in Nat /\ gen \in Nat /\ edits \in Nat /\ reading \in Nat
      /\ \A u \in Users : /\ user[u] # None => user[u] \in Row
                          /\ mark[u] # None => mark[u].allowed \in BOOLEAN /\ user[u] # None
  BY ConstantsAssumption DEF TypeOK, Mark
<1>1. /\ before \subseteq Users /\ after \subseteq Users
      /\ ahead \subseteq Users /\ later \subseteq Users
      /\ IsFiniteSet(before) /\ IsFiniteSet(after)
      /\ IsFiniteSet(ahead) /\ IsFiniteSet(later)
  BY FS_Subset DEF MayCross, Ahead
<1>2. k \in Nat /\ l \in Nat /\ a \in Nat /\ b \in Nat /\ n \in Nat
  BY <1>1, FS_CardinalityType
<1>3. backs = 0 => gen + k + 2 * a <= n + 2 * edits
  BY DEF StormIsPaid
<1>4. SUFFICES ASSUME backs' = 0
               PROVE  gen' + l + 2 * b <= n + 2 * edits'
  BY DEF StormIsPaid
<1>5. later \subseteq ahead => b <= a
  BY <1>1, FS_Subset
<1>6. ASSUME after = before
      PROVE  l = k
  BY <1>6
<1>7. ASSUME NEW u \in Users
      PROVE  /\ after \subseteq before \cup {u} => l <= k + 1
             /\ later \subseteq ahead \cup {u} => b <= a + 1
             /\ u \in before /\ after \subseteq before \ {u} => l <= k - 1
  <2>1. after \subseteq before \cup {u} => l <= k + 1
    BY <1>1, OneMore
  <2>2. later \subseteq ahead \cup {u} => b <= a + 1
    BY <1>1, OneMore
  <2>3. ASSUME u \in before, after \subseteq before \ {u}
        PROVE  l <= k - 1
    <3>1. IsFiniteSet(before \ {u}) /\ Cardinality(before \ {u}) = k - 1
      BY <1>1, <2>3, FS_RemoveElement
    <3>2. l <= Cardinality(before \ {u})
      BY <2>3, <3>1, FS_Subset
    <3>3. QED
      BY <3>1, <3>2
  <2>4. QED
    BY <2>1, <2>2, <2>3
<1> HIDE DEF before, after, ahead, later, k, l, a, b, n
<1>8. ASSUME NEW u \in Users, NEW t \in Readings, NEW r \in Row, NEW bump \in BOOLEAN,
             Operates(u, r, t, bump)
      PROVE  gen' + l + 2 * b <= n + 2 * edits'
  <2>1. /\ backs = 0 /\ edits' = edits + 1 /\ reading' = reading /\ t \in Nat
        /\ task'[Checker] = task[Checker] /\ gen' = IF bump THEN gen + 1 ELSE gen
    BY <1>0, <1>4, <1>8, OperationLeaves, ConstantsAssumption, ReadingsType DEF Operates, TypeOK
  <2>2. /\ user'[u] = r /\ mark'[u] # None /\ mark'[u].allowed = Allowed(r, t)
        /\ \A v \in Users \ {u} : user'[v] = user[v] /\ mark'[v] = mark[v]
    BY <1>8, OperationLeaves
  <2>3. after \subseteq before \cup {u} /\ later \subseteq ahead \cup {u}
    BY <2>1, <2>2 DEF before, after, ahead, later, MayCross, Ahead
  <2>4. CASE u \notin later
    <3>1. b <= a
      BY <1>5, <2>3, <2>4
    <3>2. l <= k + 1
      BY <1>7, <2>3
    <3>3. QED
      BY <1>0, <1>2, <1>3, <2>1, <3>1, <3>2
  <2>5. CASE u \in later
    <3>1. /\ task[Checker].at = "evaluate" /\ ~Allowed(r, t) /\ Allowed(r, reading)
      BY <2>1, <2>2, <2>5 DEF later, Ahead
    <3>2. after \subseteq before \ {u}
      BY <2>2, <2>3, <3>1 DEF after, MayCross
    <3>3. CASE u \in before
      <4>1. l <= k - 1 /\ b <= a + 1
        BY <1>7, <2>3, <3>2, <3>3
      <4>2. QED
        BY <1>0, <1>2, <1>3, <2>1, <4>1
    <3>4. CASE u \in ahead
      <4>1. b <= a
        BY <1>5, <2>3, <3>4
      <4>2. l <= k + 1
        BY <1>7, <2>3
      <4>3. QED
        BY <1>0, <1>2, <1>3, <2>1, <4>1, <4>2
    <3>5. CASE u \notin before /\ u \notin ahead
      <4>1. ~bump
        <5>1. SUFFICES ASSUME bump PROVE FALSE
          OBVIOUS
        <5>2. ~(t <= reading)
          BY <1>0, <2>1, <3>1, AccessEnds
        <5>3. user[u] # None
          BY <1>8, <3>1, <5>1 DEF Operates, Earns
        <5>4. mark[u] # None /\ ~mark[u].allowed
          BY <3>5, <5>3 DEF before, MayCross
        <5>5. ~Allowed(user[u], reading)
          BY <3>1, <3>5, <5>3, <5>4 DEF ahead, Ahead
        <5>6. ~Allowed(user[u], t)
          <6>1. reading <= t
            BY <1>0, <2>1, <5>2
          <6>2. QED
            BY <1>0, <2>1, <5>3, <5>5, <6>1, AccessEnds
        <5>7. r.enabled = user[u].enabled /\ r.expires = user[u].expires
          BY <1>8, <3>1, <5>1, <5>6 DEF Operates, Earns
        <5>8. QED
          BY <3>1, <5>5, <5>7 DEF Allowed, Expired
      <4>2. after \subseteq before
        BY <3>2
      <4>3. l <= k
        BY <1>1, <4>2, FS_Subset DEF k, l, before
      <4>4. b <= a + 1
        BY <1>7, <2>3
      <4>5. QED
        BY <1>0, <1>2, <1>3, <2>1, <4>1, <4>3, <4>4
    <3>6. QED
      BY <3>3, <3>4, <3>5
  <2>6. QED
    BY <2>4, <2>5
<1>9. ASSUME NEW u \in Users, NEW t \in Readings, DeleteUserAction(u, t)
      PROVE  gen' + l + 2 * b <= n + 2 * edits'
  <2>1. /\ backs = 0 /\ edits' = edits + 1 /\ (gen' = gen \/ gen' = gen + 1)
        /\ task'[Checker] = task[Checker] /\ reading' = reading
        /\ user'[u] = None /\ mark'[u] = None
        /\ \A v \in Users \ {u} : user'[v] = user[v] /\ mark'[v] = mark[v]
    BY <1>4, <1>9, DeletionLeaves
  <2>2. after \subseteq before /\ later \subseteq ahead
    BY <2>1 DEF before, after, ahead, later, MayCross, Ahead
  <2>3. l <= k + 1 /\ b <= a
    BY <1>5, <1>7, <2>2
  <2>4. QED
    BY <1>0, <1>2, <1>3, <2>1, <2>3
<1>10. CASE Scans
  <2>1. PICK candidates \in SUBSET Users :
            (\A u \in candidates : user[u] # None) /\ Evaluate(candidates, reading)
    BY <1>10 DEF Scans
  <2>2. /\ backs = 0 /\ edits' = edits /\ user' = user
        /\ task[Checker].at = "evaluate" /\ task'[Checker].at # "evaluate"
        /\ gen' = IF Transitions(candidates, reading) = {} THEN gen ELSE gen + 1
        /\ \A u \in Users :
              /\ u \in candidates =>
                     mark'[u] # None /\ mark'[u].allowed = Allowed(user[u], reading)
              /\ u \notin candidates /\ mark[u] = None => mark'[u] = None
              /\ u \notin candidates /\ mark[u] # None
                    => mark'[u] # None /\ mark'[u].allowed = mark[u].allowed
    BY <1>0, <1>4, <2>1, ScanLeaves
  <2>3. later = {}
    BY <2>2 DEF later, Ahead
  <2>4. b = 0
    BY <2>3, FS_EmptySet DEF b
  <2>5. after \subseteq before \cup ahead
    BY <2>1, <2>2 DEF before, after, ahead, MayCross, Ahead
  <2>6. CASE Transitions(candidates, reading) = {}
    <3>1. \A u \in candidates : mark[u] # None => mark[u].allowed = Allowed(user[u], reading)
      BY <2>6 DEF Transitions
    <3>2. after \subseteq before
      BY <2>1, <2>2, <3>1 DEF before, after, MayCross
    <3>3. l <= k
      BY <1>1, <3>2, FS_Subset DEF k, l, before
    <3>4. QED
      BY <1>0, <1>2, <1>3, <2>2, <2>4, <2>6, <3>3
  <2>7. CASE Transitions(candidates, reading) # {} /\ ahead = {}
    <3>1. PICK c \in candidates : IF mark[c] = None THEN ~Allowed(user[c], reading)
                                  ELSE mark[c].allowed # Allowed(user[c], reading)
      BY <2>7 DEF Transitions
    <3>2. c \in Users /\ user[c] \in Row /\ Allowed(user[c], reading) \in BOOLEAN
      BY <1>0, <2>1, AccessType
    <3>3. ~Allowed(user[c], reading) /\ (mark[c] = None \/ mark[c].allowed)
      BY <1>0, <2>1, <2>2, <2>7, <3>1, <3>2 DEF ahead, Ahead
    <3>4. c \in before /\ c \notin after
      BY <2>1, <2>2, <3>2, <3>3 DEF before, after, MayCross
    <3>5. l <= k - 1
      BY <1>7, <2>5, <2>7, <3>2, <3>4
    <3>6. QED
      BY <1>0, <1>2, <1>3, <2>2, <2>4, <2>7, <3>5
  <2>8. CASE Transitions(candidates, reading) # {} /\ ahead # {}
    <3>1. a # 0
      BY <1>1, <2>8, FS_EmptySet DEF a, ahead
    <3>2. IsFiniteSet(before \cup ahead) /\ Cardinality(before \cup ahead) <= k + a
      <4>1. /\ IsFiniteSet(before \cup ahead)
            /\ Cardinality(before \cup ahead) = k + a - Cardinality(before \cap ahead)
        BY <1>1, FS_Union DEF k, a, before, ahead
      <4>2. Cardinality(before \cap ahead) \in Nat
        BY <1>1, FS_Intersection, FS_CardinalityType
      <4>3. QED
        BY <1>2, <4>1, <4>2
    <3>3. l <= Cardinality(before \cup ahead) /\ Cardinality(before \cup ahead) \in Nat
      BY <2>5, <3>2, FS_Subset, FS_CardinalityType DEF l
    <3>4. QED
      BY <1>0, <1>2, <1>3, <2>2, <2>4, <2>8, <3>1, <3>2, <3>3
  <2>9. QED
    BY <2>6, <2>7, <2>8
<1>11. CASE (\E t \in Readings : WorkerReads(t)) \/ WorkerApplies \/ WorkerFails \/ Tick
  <2>1. UNCHANGED <<backs, edits, user, mark, gen, task, reading>>
    BY <1>11 DEF WorkerReads, WorkerApplies, WorkerFails, Tick, clock, bounds, table
  <2>2. after = before /\ later = ahead
    BY <2>1 DEF before, after, ahead, later, MayCross, Ahead
  <2>3. l = k /\ b = a
    BY <1>6, <2>2 DEF a, b, ahead
  <2>4. QED
    BY <1>3, <1>4, <2>1, <2>3
<1>12. CASE StepBack
  BY <1>0, <1>4, <1>12 DEF StepBack
<1>13. CASE CheckerReads
  <2>1. UNCHANGED <<now, backs, edits, user, mark, gen>> /\ reading' = now
    BY <1>13 DEF CheckerReads, clock, bounds, table
  <2>2. after = before
    BY <2>1 DEF before, after, MayCross
  <2>3. later = {}
    BY <1>4, <2>1 DEF later, Ahead, MarksForesee
  <2>4. b = 0
    BY <2>3, FS_EmptySet DEF b
  <2>5. l = k
    BY <1>6, <2>2
  <2>6. QED
    BY <1>0, <1>2, <1>3, <1>4, <2>1, <2>4, <2>5
<1>14. CASE Quiet
  <2>1. after = before
    BY <1>14 DEF Quiet, before, after, MayCross
  <2>2. later \subseteq ahead
    BY <1>14 DEF Quiet, KeepsReading, ahead, later, Ahead
  <2>3. l = k /\ b <= a
    BY <1>5, <1>6, <2>1, <2>2
  <2>4. QED
    BY <1>0, <1>2, <1>3, <1>4, <1>14, <2>3 DEF Quiet
<1>15. QED
  BY <1>8, <1>9, <1>10, <1>11, <1>12, <1>13, <1>14, StepIs

-----------------------------------------------------------------------------
(* The theorems *)

LEMMA AccessInitially ==
    ASSUME Init
    PROVE  /\ ReadingIsPast /\ MarksForesee /\ AppliedIsBehind /\ ViewsCover
           /\ IsFiniteSet(Users) => StormIsPaid
<1>1. ReadingIsPast /\ MarksForesee
  BY DEF Init, ReadingIsPast, MarksForesee
<1>2. AppliedIsBehind
  BY DEF Init, AppliedIsBehind
<1>3. ViewsCover
  <2>1. granted = View(now) /\ ~worker.busy /\ \A u \in Users : mark[u] = None
    BY DEF Init
  <2>2. Covers(granted)
    BY <2>1 DEF Covers, View, GrantOf
  <2>3. QED
    BY <2>1, <2>2 DEF ViewsCover
<1>4. ASSUME IsFiniteSet(Users)
      PROVE  StormIsPaid
  <2>1. MayCross \in SUBSET Users
    BY DEF MayCross
  <2>2. Cardinality(MayCross) <= Cardinality(Users)
    BY <1>4, <2>1, FS_Subset
  <2>3. Cardinality(MayCross) \in Nat /\ Cardinality(Users) \in Nat
    BY <1>4, <2>1, FS_Subset, FS_CardinalityType
  <2>4. Ahead = {}
    BY DEF Init, Ahead, Idle, Tasks
  <2>5. Cardinality(Ahead) = 0
    BY <2>4, FS_EmptySet
  <2>6. gen = 0 /\ edits = 0
    BY DEF Init
  <2>7. QED
    BY <2>2, <2>3, <2>5, <2>6 DEF StormIsPaid
<1>5. QED
  BY <1>1, <1>2, <1>3, <1>4

LEMMA MarksInvariant ==
    Spec => [](TypeOK /\ UserInv /\ ReadingIsPast /\ MarksForesee /\ AppliedIsBehind)
<1>1. Init => ReadingIsPast /\ MarksForesee /\ AppliedIsBehind
  BY AccessInitially
<1>2. TypeOK /\ UserInv /\ ReadingIsPast /\ MarksForesee /\ AppliedIsBehind /\ [Next]_vars
          => (ReadingIsPast /\ MarksForesee /\ AppliedIsBehind)'
  BY ReadingStaysPast, MarksStillForesee, AppliedStaysBehind
<1>3. QED
  BY <1>1, <1>2, UserInvariant, PTL DEF Spec

(* Once the latest generation is applied, the runtimes authorize each user    *)
(* whose checkpoint has seen the clock exactly as the row says, whatever      *)
(* readings of the clock the checker, the worker and the operations work      *)
(* with, and whatever administrators do between a deadline and its scan.      *)
(* Excepted are the users whom the generation misses: an operation without a  *)
(* generation of its own misjudged their access, or the worker loaded them    *)
(* with a reading older than the crossing.                                    *)
THEOREM GrantsAreCurrent == Spec => []AppliedIsCurrent
<1>1. Init => ViewsCover
  BY AccessInitially
<1>2. TypeOK /\ UserInv /\ ReadingIsPast /\ MarksForesee /\ AppliedIsBehind /\ ViewsCover
      /\ [Next]_vars => ViewsCover'
  BY ViewsStillCover
<1>3. TypeOK /\ ViewsCover => AppliedIsCurrent
  <2>1. SUFFICES ASSUME TypeOK, ViewsCover, backs = 0, appliedGen = gen,
                        NEW u \in Users \ missed, Observed(u)
                 PROVE  granted[u] = View(now)[u]
    BY DEF AppliedIsCurrent
  <2>2. Covers(granted)
    BY <2>1 DEF ViewsCover
  <2>3. CASE user[u] # None /\ Allowed(user[u], now)
    BY <2>2, <2>3 DEF Covers, View, GrantOf
  <2>4. CASE user[u] # None /\ ~Allowed(user[u], now)
    BY <2>1, <2>2, <2>4 DEF Covers, View, Observed
  <2>5. CASE user[u] = None
    BY <2>2, <2>5 DEF Covers, View
  <2>6. QED
    BY <2>3, <2>4, <2>5
<1>4. QED
  BY <1>1, <1>2, <1>3, MarksInvariant, PTL DEF Spec

(* Deadlines cost at most one generation each, whatever the number of scans,  *)
(* failed publications and restarts, of administrators at work and of late    *)
(* readings of the clock, as long as the clock does not go back.              *)
THEOREM DeadlinesCostOnce == IsFiniteSet(Users) /\ Spec => []NoGenerationStorm
<1> SUFFICES ASSUME IsFiniteSet(Users)
             PROVE  Spec => []NoGenerationStorm
  OBVIOUS
<1>1. Init => StormIsPaid
  BY AccessInitially
<1>2. TypeOK /\ ReadingIsPast /\ MarksForesee /\ StormIsPaid /\ [Next]_vars => StormIsPaid'
  BY StormStaysPaid
<1>3. TypeOK /\ StormIsPaid => NoGenerationStorm
  <2>1. MayCross \in SUBSET Users /\ Ahead \in SUBSET Users
    BY DEF MayCross, Ahead
  <2>2. /\ Cardinality(MayCross) \in Nat /\ Cardinality(Ahead) \in Nat
        /\ Cardinality(Users) \in Nat
    BY <2>1, FS_Subset, FS_CardinalityType
  <2>3. QED
    BY <2>2 DEF TypeOK, StormIsPaid, NoGenerationStorm
<1>4. QED
  BY <1>1, <1>2, <1>3, MarksInvariant, PTL DEF Spec

-----------------------------------------------------------------------------
(* The adapter contract *)

(* What a server calls the protocol of a proxy.                            *)
KindOf(c) == IF ProxyKind(c) = "ss" THEN "shadowtls" ELSE ProxyKind(c)

(* A listener is the one a client of the capability expects, but that      *)
(* sing-box has no vision flow, and carries every secret field a server is *)
(* given.                                                                  *)
MatchesWith(listener, f, c, shape, fields) ==
    /\ listener = Listener(f, KindOf(c), Layer(c), shape, fields)
    /\ (RequiredFields(c) \cup OptionalFields(c)) \ {"public_key"} \subseteq fields
    /\ shape = Shape(c) \/ c = <<"vless", "reality-tcp">>

Matches(listener, f, c) ==
    \E shape, fields : MatchesWith(listener, f, c, shape, fields)

(* A public key comes with a private one, and with no other use of either. *)
LEMMA PairedKeys ==
    ASSUME NEW c
    PROVE  /\ "public_key" \in RequiredFields(c) <=> "private_key" \in RequiredFields(c)
           /\ "public_key" \notin OptionalFields(c) /\ "private_key" \notin OptionalFields(c)
           /\ "public_key" \notin BaseFields(c) /\ "private_key" \notin BaseFields(c)
<1>1. "public_key" \notin BaseFields(c) /\ "private_key" \notin BaseFields(c)
  BY DEF BaseFields
<1>2. "public_key" \in WrapperFields(c) <=> "private_key" \in WrapperFields(c)
  BY DEF WrapperFields
<1>3. QED
  BY <1>1, <1>2 DEF RequiredFields, OptionalFields

(* Each composer makes of a fragment the listener that the client half of  *)
(* its adapter has in mind, for every capability its core offers.          *)
LEMMA XrayMatches ==
    ASSUME NEW f, f.cap \in Offers("xray")
    PROVE  Matches(ListenerOf("xray", f), f, f.cap) /\ ListenerOf("xray", f).shape = Shape(f.cap)
<1> DEFINE fields == {"private_key", "short_id"}
<1>1. f.cap \in {<<"vless", "reality-tcp">>, <<"vless", "reality-xhttp">>}
  BY DEF Offers
<1>2. ListenerOf("xray", f) = Listener(f, "vless", "reality", Shape(f.cap), fields)
  BY <1>1 DEF ListenerOf, XrayListener, Shape
<1>3. KindOf(f.cap) = "vless" /\ Layer(f.cap) = "reality"
  BY <1>1 DEF KindOf, ProxyKind, Layer, Camouflage, NeedsTls, Plain
<1>4. (RequiredFields(f.cap) \cup OptionalFields(f.cap)) \ {"public_key"} \subseteq fields
  BY <1>1, <1>3 DEF RequiredFields, OptionalFields, BaseFields, WrapperFields
<1>5. Matches(ListenerOf("xray", f), f, f.cap)
  BY <1>2, <1>3, <1>4 DEF Matches, MatchesWith
<1>6. QED
  BY <1>2, <1>5 DEF Listener

(* sing-box offers one capability it composes without the flow of vision.  *)
LEMMA SingBoxMatches ==
    ASSUME NEW f, f.cap \in Offers("sing-box")
    PROVE  Matches(ListenerOf("sing-box", f), f, f.cap)
<1>1. f.cap \in {<<"vless", "reality-tcp">>, <<"shadowsocks2022", "shadow-tls">>,
                 <<"hysteria2", Plain>>, <<"any", "tls">>, <<"tuic", Plain>>}
  BY DEF Offers
<1>2. ListenerOf("sing-box", f) = SingBoxListener(f)
  BY DEF ListenerOf
<1>3. CASE f.cap = <<"vless", "reality-tcp">>
  <2>1. SingBoxListener(f) = Listener(f, "vless", "reality", "plain", {"private_key", "short_id"})
    BY <1>3 DEF SingBoxListener
  <2>2. KindOf(f.cap) = "vless" /\ Layer(f.cap) = "reality"
    BY <1>3 DEF KindOf, ProxyKind, Layer, Camouflage, NeedsTls, Plain
  <2>3. (RequiredFields(f.cap) \cup OptionalFields(f.cap)) \ {"public_key"} \subseteq {"private_key", "short_id"}
    BY <1>3, <2>2 DEF RequiredFields, OptionalFields, BaseFields, WrapperFields
  <2>4. QED
    BY <1>2, <1>3, <2>1, <2>2, <2>3 DEF Matches, MatchesWith
<1>4. CASE f.cap = <<"shadowsocks2022", "shadow-tls">>
  <2>1. SingBoxListener(f) = Listener(f, "shadowtls", "shadowtls-v3", "plain", {"password", "shadow_tls_password"})
    BY <1>4 DEF SingBoxListener
  <2>2. KindOf(f.cap) = "shadowtls" /\ Layer(f.cap) = "shadowtls-v3" /\ Shape(f.cap) = "plain"
    BY <1>4 DEF KindOf, ProxyKind, Layer, Shape, Camouflage, NeedsTls, Plain
  <2>3. (RequiredFields(f.cap) \cup OptionalFields(f.cap)) \ {"public_key"} \subseteq {"password", "shadow_tls_password"}
    BY <1>4, <2>2 DEF RequiredFields, OptionalFields, BaseFields, WrapperFields
  <2>4. QED
    BY <1>2, <2>1, <2>2, <2>3 DEF Matches, MatchesWith
<1>5. CASE f.cap = <<"hysteria2", Plain>>
  <2>1. SingBoxListener(f) = Listener(f, "hysteria2", "tls", "plain", {"password", "obfs_password"})
    BY <1>5 DEF SingBoxListener, Plain
  <2>2. KindOf(f.cap) = "hysteria2" /\ Layer(f.cap) = "tls" /\ Shape(f.cap) = "plain"
    BY <1>5 DEF KindOf, ProxyKind, Layer, Shape, Camouflage, Plain, NeedsTls
  <2>3. (RequiredFields(f.cap) \cup OptionalFields(f.cap)) \ {"public_key"} \subseteq {"password", "obfs_password"}
    BY <1>5, <2>2 DEF RequiredFields, OptionalFields, BaseFields, WrapperFields, Plain
  <2>4. QED
    BY <1>2, <2>1, <2>2, <2>3 DEF Matches, MatchesWith
<1>6. CASE f.cap = <<"any", "tls">>
  <2>1. SingBoxListener(f) = Listener(f, "anytls", "tls", "plain", {"password"})
    BY <1>6 DEF SingBoxListener, Plain
  <2>2. KindOf(f.cap) = "anytls" /\ Layer(f.cap) = "tls" /\ Shape(f.cap) = "plain"
    BY <1>6 DEF KindOf, ProxyKind, Layer, Shape, Camouflage, NeedsTls
  <2>3. (RequiredFields(f.cap) \cup OptionalFields(f.cap)) \ {"public_key"} \subseteq {"password"}
    BY <1>6, <2>2 DEF RequiredFields, OptionalFields, BaseFields, WrapperFields
  <2>4. QED
    BY <1>2, <2>1, <2>2, <2>3 DEF Matches, MatchesWith
<1>7. CASE f.cap = <<"tuic", Plain>>
  <2>1. SingBoxListener(f) = Listener(f, "tuic", "tls", "plain", {"password"})
    BY <1>7 DEF SingBoxListener, Plain
  <2>2. KindOf(f.cap) = "tuic" /\ Layer(f.cap) = "tls" /\ Shape(f.cap) = "plain"
    BY <1>7 DEF KindOf, ProxyKind, Layer, Shape, Camouflage, Plain, NeedsTls
  <2>3. (RequiredFields(f.cap) \cup OptionalFields(f.cap)) \ {"public_key"} \subseteq {"password"}
    BY <1>7, <2>2 DEF RequiredFields, OptionalFields, BaseFields, WrapperFields
  <2>4. QED
    BY <1>2, <2>1, <2>2, <2>3 DEF Matches, MatchesWith
<1>8. QED
  BY <1>1, <1>3, <1>4, <1>5, <1>6, <1>7

LEMMA NativeMatches ==
    ASSUME NEW core \in {"hysteria", "tuic"}, NEW f, f.cap \in Offers(core)
    PROVE  Matches(ListenerOf(core, f), f, f.cap) /\ ListenerOf(core, f).shape = Shape(f.cap)
<1>1. CASE core = "hysteria"
  <2>1. f.cap = <<"hysteria2", "plain">>
    BY <1>1 DEF Offers, Plain
  <2>2. ListenerOf(core, f) = Listener(f, "hysteria2", "tls", "plain", {"password", "obfs_password"})
    BY <1>1 DEF ListenerOf, HysteriaListener
  <2>3. KindOf(f.cap) = "hysteria2" /\ Layer(f.cap) = "tls" /\ Shape(f.cap) = "plain"
    BY <2>1 DEF KindOf, ProxyKind, Layer, Shape, Camouflage, Plain, NeedsTls
  <2>4. (RequiredFields(f.cap) \cup OptionalFields(f.cap)) \ {"public_key"} \subseteq {"password", "obfs_password"}
    BY <2>1, <2>3 DEF RequiredFields, OptionalFields, BaseFields, WrapperFields
  <2>5. Matches(ListenerOf(core, f), f, f.cap)
    BY <2>2, <2>3, <2>4 DEF Matches, MatchesWith
  <2>6. QED
    BY <2>2, <2>3, <2>5 DEF Listener
<1>2. CASE core = "tuic"
  <2>1. f.cap = <<"tuic", "plain">>
    BY <1>2 DEF Offers, Plain
  <2>2. ListenerOf(core, f) = Listener(f, "tuic", "tls", "plain", {"password"})
    BY <1>2 DEF ListenerOf, TuicListener
  <2>3. KindOf(f.cap) = "tuic" /\ Layer(f.cap) = "tls" /\ Shape(f.cap) = "plain"
    BY <2>1 DEF KindOf, ProxyKind, Layer, Shape, Camouflage, Plain, NeedsTls
  <2>4. (RequiredFields(f.cap) \cup OptionalFields(f.cap)) \ {"public_key"} \subseteq {"password"}
    BY <2>1, <2>3 DEF RequiredFields, OptionalFields, BaseFields, WrapperFields
  <2>5. Matches(ListenerOf(core, f), f, f.cap)
    BY <2>2, <2>3, <2>4 DEF Matches, MatchesWith
  <2>6. QED
    BY <2>2, <2>3, <2>5 DEF Listener
<1>3. QED
  BY <1>1, <1>2

(* wrapper_for_capability, which goes by the ID, names the wrapper of the  *)
(* Implementation.                                                         *)
LEMMA MihomoWraps ==
    ASSUME NEW c \in Offers("mihomo")
    PROVE  WrapperForCapability(c) = Layer(c)
<1>1. CASE c \in Vless
  <2>1. PICK v \in {"reality-xhttp", "reality-tcp", "shadowtls-v3", "restls", "jls"} : c = <<"vless", v>>
    BY <1>1 DEF Vless, Camouflage
  <2>2. QED
    BY <2>1 DEF WrapperForCapability, Layer, Camouflage, NeedsTls
<1>2. CASE c \in Trojan
  <2>1. PICK v \in {"tls", "reality", "shadowtls-v3", "restls", "jls"} : c = <<"trojan", v>>
    BY <1>2 DEF Trojan, Camouflage
  <2>2. QED
    BY <2>1 DEF WrapperForCapability, Layer, Camouflage, NeedsTls
<1>3. CASE c \in AnyTls
  <2>1. PICK v \in {"tls", "shadowtls-v3", "restls", "jls"} : c = <<"anytls", v>>
    BY <1>3 DEF AnyTls, Camouflage
  <2>2. QED
    BY <2>1 DEF WrapperForCapability, Layer, Camouflage, NeedsTls
<1>4. CASE c \in Snell
  <2>1. PICK v \in {"plain", "shadowtls-v3", "restls", "jls"} : c = <<"snell-v5", v>>
    BY <1>4 DEF Snell, Camouflage, Plain
  <2>2. QED
    BY <2>1 DEF WrapperForCapability, Layer, Camouflage, NeedsTls, Plain
<1>5. CASE c \in {<<"mieru", "plain">>, <<"trusttunnel", "h2">>, <<"shadowquic", "plain">>, <<"sudoku", "httpmask">>}
  BY <1>5 DEF WrapperForCapability, Layer, Camouflage, NeedsTls, Plain
<1>6. QED
  BY <1>1, <1>2, <1>3, <1>4, <1>5 DEF Offers, Plain

LEMMA MihomoMatches ==
    ASSUME NEW f, f.cap \in Offers("mihomo")
    PROVE  Matches(ListenerOf("mihomo", f), f, f.cap) /\ ListenerOf("mihomo", f).shape = Shape(f.cap)
<1> DEFINE c == f.cap
           fields == {"password", "psk", "key"} \cup ServerWrapperFields(Layer(c))
<1>1. c[1] \in {"vless", "trojan", "anytls", "snell-v5", "mieru", "trusttunnel", "shadowquic", "sudoku"}
  BY DEF Offers, Vless, Trojan, AnyTls, Snell
<1>2. MihomoKind(c) = KindOf(c)
  BY <1>1 DEF MihomoKind, KindOf, ProxyKind
<1>3. MihomoShape(c) = Shape(c)
  <2>1. c[2] \in {"reality-tcp", "reality-xhttp"} => c \in Vless
    BY DEF Offers, Vless, Trojan, AnyTls, Snell, Camouflage, Plain
  <2>2. c \in Vless => c = <<"vless", c[2]>>
    BY DEF Vless
  <2>3. QED
    BY <2>1, <2>2 DEF MihomoShape, Shape
<1>4. ListenerOf("mihomo", f) = Listener(f, KindOf(c), Layer(c), Shape(c), fields)
  BY <1>2, <1>3, MihomoWraps DEF ListenerOf, MihomoListener
<1>5. (RequiredFields(c) \cup OptionalFields(c)) \ {"public_key"} \subseteq fields
  <2>1. BaseFields(c) \subseteq {"password", "psk", "key"} /\ OptionalFields(c) = {}
    BY <1>1 DEF BaseFields, OptionalFields
  <2>2. WrapperFields(c) \ {"public_key"} \subseteq ServerWrapperFields(Layer(c))
    BY DEF WrapperFields, ServerWrapperFields
  <2>3. QED
    BY <2>1, <2>2 DEF RequiredFields
<1>6. Matches(ListenerOf("mihomo", f), f, f.cap)
  BY <1>4, <1>5 DEF Matches, MatchesWith
<1>7. QED
  BY <1>4, <1>6 DEF Listener

(* For all cores: only sing-box composes another shape than the client     *)
(* expects.                                                                *)
LEMMA OfferedMatches ==
    ASSUME NEW core \in Cores, NEW f, f.cap \in Offers(core)
    PROVE  /\ Matches(ListenerOf(core, f), f, f.cap)
           /\ core # "sing-box" => ListenerOf(core, f).shape = Shape(f.cap)
  BY XrayMatches, SingBoxMatches, NativeMatches, MihomoMatches DEF Cores

LEMMA ListenerNames ==
    ASSUME NEW core \in Cores, NEW f, f.cap \in Offers(core)
    PROVE  /\ ListenerOf(core, f).name = f.name
           /\ ListenerOf(core, f).kind = KindOf(f.cap)
           /\ \/ ListenerOf(core, f).shape = Shape(f.cap)
              \/ core = "sing-box" /\ ListenerOf(core, f).kind = "vless"
<1>1. PICK shape, fields : MatchesWith(ListenerOf(core, f), f, f.cap, shape, fields)
  BY OfferedMatches DEF Matches
<1>2. ListenerOf(core, f) = Listener(f, KindOf(f.cap), Layer(f.cap), shape, fields)
  BY <1>1 DEF MatchesWith
<1>3. f.cap = <<"vless", "reality-tcp">> => KindOf(f.cap) = "vless"
  BY DEF KindOf, ProxyKind
<1>4. shape = Shape(f.cap) \/ f.cap = <<"vless", "reality-tcp">>
  BY <1>1 DEF MatchesWith
<1>5. core # "sing-box" => ListenerOf(core, f).shape = Shape(f.cap)
  BY OfferedMatches
<1>6. /\ ListenerOf(core, f).name = f.name /\ ListenerOf(core, f).kind = KindOf(f.cap)
      /\ ListenerOf(core, f).shape = shape
  BY <1>2 DEF Listener
<1>7. QED
  BY <1>3, <1>4, <1>5, <1>6

(* Where a client names its user the server was given the users.           *)
LEMMA KnownUsers ==
    ASSUME NEW c \in Capabilities,
           KindOf(c) \in {"vless", "trojan", "tuic", "mieru", "trusttunnel", "shadowquic"}
    PROVE  PerUser(c)
  BY DEF KindOf, ProxyKind, PerUser

(* The two halves of the adapter contract fit: the listener composed from  *)
(* a row accepts the proxy rendered from it, for every user with access    *)
(* and every core that offers the capability, if both read the same        *)
(* secrets.                                                                *)
THEOREM ServerAccepts ==
    ASSUME NEW core \in Cores, NEW p, NEW r \in ProfileRow, Accepted(r), r.cap \in Offers(core),
           NEW us, NEW u \in us, NEW store, NEW clients,
           \A g \in (DOMAIN r.refs) \ {"public_key"} :
              store[r.refs[g]] = clients[r.refs[Counterpart(g)]],
           ListenerOf(core, Fragment(p, r, us, store)).shape = Shape(r.cap)
    PROVE  Accepts(ListenerOf(core, Fragment(p, r, us, store)), Proxy(p, r, u, clients))
<1> DEFINE f == Fragment(p, r, us, store)
           l == ListenerOf(core, f)
           proxy == Proxy(p, r, u, clients)
           D == DOMAIN r.refs
<1>1. f.cap = r.cap /\ f.port = r.port /\ f.users = (IF PerUser(r.cap) THEN us ELSE {})
      /\ f.keys = Values(D \ {"public_key"}, r.refs, store)
  BY DEF Fragment
<1>2. PICK shape, fields : MatchesWith(l, f, r.cap, shape, fields)
  BY <1>1, OfferedMatches DEF Matches
<1>3. l = Listener(f, KindOf(r.cap), Layer(r.cap), shape, fields)
  BY <1>2 DEF MatchesWith
<1>4. /\ l.kind = KindOf(r.cap) /\ l.port = r.port /\ l.layer = Layer(r.cap)
      /\ l.users = (IF PerUser(r.cap) THEN us ELSE {})
      /\ l.keys = Restrict(f.keys, fields \cap DOMAIN f.keys)
  BY <1>1, <1>3 DEF Listener
<1>5. /\ proxy.kind = ProxyKind(r.cap) /\ proxy.port = r.port /\ proxy.layer = Layer(r.cap)
      /\ proxy.shape = Shape(r.cap) /\ proxy.user = u
      /\ proxy.keys = Values(BaseFields(r.cap) \cup OptionalFields(r.cap) \cup
                             ClientWrapperFields(r.cap), r.refs, clients)
  BY DEF Proxy
<1>6. /\ RequiredFields(r.cap) \subseteq D
      /\ D \subseteq RequiredFields(r.cap) \cup OptionalFields(r.cap)
  BY DEF Accepted, Configured
<1>7. (RequiredFields(r.cap) \cup OptionalFields(r.cap)) \ {"public_key"} \subseteq fields
  BY <1>2 DEF MatchesWith
<1>8. DOMAIN f.keys = D \ {"public_key"} /\ \A g \in D \ {"public_key"} : f.keys[g] = store[r.refs[g]]
  BY <1>1 DEF Values
<1>9. /\ DOMAIN l.keys = D \ {"public_key"}
      /\ \A g \in D \ {"public_key"} : l.keys[g] = store[r.refs[g]]
  <2>1. fields \cap DOMAIN f.keys = D \ {"public_key"}
    BY <1>6, <1>7, <1>8
  <2>2. l.keys = [g \in D \ {"public_key"} |-> f.keys[g]]
    BY <1>4, <2>1 DEF Restrict
  <2>3. QED
    BY <1>8, <2>2
<1>10. /\ DOMAIN proxy.keys = D \ {"private_key"}
       /\ \A g \in D \ {"private_key"} : proxy.keys[g] = clients[r.refs[g]]
  <2>1. (BaseFields(r.cap) \cup OptionalFields(r.cap) \cup ClientWrapperFields(r.cap)) \cap D
             = D \ {"private_key"}
    BY <1>6, PairedKeys DEF RequiredFields, ClientWrapperFields
  <2>2. QED
    BY <1>5, <2>1 DEF Values
<1>11. "public_key" \in D <=> "private_key" \in D
  BY <1>6, PairedKeys
<1>12. DOMAIN proxy.keys = {Counterpart(g) : g \in DOMAIN l.keys}
  BY <1>9, <1>10, <1>11 DEF Counterpart
<1>13. \A g \in DOMAIN l.keys : l.keys[g] = proxy.keys[Counterpart(g)]
  <2>1. ASSUME NEW g \in D \ {"public_key"} PROVE Counterpart(g) \in D \ {"private_key"}
    BY <1>11 DEF Counterpart
  <2>2. QED
    BY <1>9, <1>10, <2>1
<1>14. l.kind = (IF proxy.kind = "ss" THEN "shadowtls" ELSE proxy.kind)
  BY <1>4, <1>5 DEF KindOf
<1>15. l.kind \in {"vless", "trojan", "tuic", "mieru", "trusttunnel", "shadowquic"}
          => proxy.user \in l.users
  <2>1. r.cap \in Capabilities
    BY DEF ProfileRow
  <2>2. QED
    BY <1>4, <1>5, <2>1, KnownUsers
<1>16. l.shape = proxy.shape
  BY <1>5
<1>17. QED
  BY <1>4, <1>5, <1>12, <1>13, <1>14, <1>15, <1>16 DEF Accepts

-----------------------------------------------------------------------------
(* Selection and observation *)

(* CoreRegistry::select finds a core of the highest priority where one is  *)
(* compatible, and never one that does not offer the capability.           *)
LEMMA SelectedOffers ==
    ASSUME NEW c, NEW preferred, NEW tls, Select(c, preferred, tls) # None
    PROVE  /\ Select(c, preferred, tls) \in Cores
           /\ c \in Offers(Select(c, preferred, tls))
           /\ preferred # None => Select(c, preferred, tls) = preferred
<1> DEFINE candidates == Candidates(c, tls)
<1>1. candidates \subseteq Cores /\ \A core \in candidates : c \in Offers(core)
  BY DEF Candidates
<1>2. CASE preferred # None
  BY <1>1, <1>2 DEF Select
<1>3. CASE preferred = None
  <2>1. candidates # {} /\ Select(c, preferred, tls) =
            CHOOSE core \in candidates : \A other \in candidates : Priority(other) <= Priority(core)
    BY <1>3 DEF Select
  <2>2. \E core \in candidates : \A other \in candidates : Priority(other) <= Priority(core)
    <3>1. \A core \in Cores : Priority(core) \in {50, 100, 200}
                              /\ (Priority(core) = 50 <=> core = "sing-box")
                              /\ (Priority(core) = 100 <=> core = "xray")
      BY DEF Cores, Priority
    <3>2. CASE \E core \in candidates : core \notin {"xray", "sing-box"}
      BY <1>1, <3>1, <3>2
    <3>3. CASE (\A core \in candidates : core \in {"xray", "sing-box"}) /\ "xray" \in candidates
      BY <1>1, <3>1, <3>3
    <3>4. CASE (\A core \in candidates : core \in {"xray", "sing-box"}) /\ "xray" \notin candidates
      BY <1>1, <2>1, <3>1, <3>4
    <3>5. QED
      BY <3>2, <3>3, <3>4
  <2>3. Select(c, preferred, tls) \in candidates
    BY <2>1, <2>2
  <2>4. QED
    BY <1>1, <1>3, <2>3
<1>4. QED
  BY <1>2, <1>3

LEMMA OfferedKinds ==
    ASSUME NEW core, NEW c \in Offers(core), core = "hysteria"
    PROVE  ~PerUser(c)
  BY DEF Offers, PerUser, Plain

LEMMA CoreOffers ==
    ASSUME NEW rows, NEW p, Core(rows, p) # None
    PROVE  /\ Core(rows, p) \in Cores
           /\ rows[p].cap \in Offers(Core(rows, p))
           /\ rows[p].core # None => Core(rows, p) = rows[p].core
  BY SelectedOffers DEF Core

LEMMA FragmentUsers ==
    ASSUME NEW want, NEW core, NEW f \in Plan(want, core)
    PROVE  f.users \subseteq want.users
<1>1. PICK p \in On(want.row) : f = Fragment(p, want.row[p], want.users, want.store)
  BY DEF Plan
<1>2. f.users = IF PerUser(want.row[p].cap) THEN want.users ELSE {}
  BY <1>1 DEF Fragment
<1>3. QED
  BY <1>2

(* A core that was observed synced serves no user but those of the plan in *)
(* the listener of a profile that is in it.                                *)
LEMMA ObservedUsers ==
    ASSUME NEW p \in On(job.row), PerUser(job.row[p].cap), Core(job.row, p) # None,
           ObserveUsers(Core(job.row, p), Plan(job, Core(job.row, p)), conf[Core(job.row, p)]) = "synced",
           NEW l \in conf[Core(job.row, p)], l.name = p
    PROVE  l.users \subseteq job.users
<1> DEFINE core == Core(job.row, p)
           plan == Plan(job, core)
           own == Fragment(p, job.row[p], job.users, job.store)
<1>1. own \in Individual(plan) /\ own.name = p
  BY DEF Individual, Plan, Fragment
<1>2. core # "hysteria"
  BY CoreOffers, OfferedKinds
<1> DEFINE observed == IF core = "mihomo" THEN DiscoverMihomoUsers(plan, conf[core])
                       ELSE DiscoverConfigUsers(core, conf[core])
           expected == UNION {f.users : f \in Individual(plan)}
<1>3. expected = observed
  BY <1>1, Zenon DEF ObserveUsers, Compare
<1>4. l.users \subseteq observed
  <2>1. CASE core = "mihomo"
    BY <1>1, <2>1 DEF DiscoverMihomoUsers
  <2>2. CASE core # "mihomo"
    BY <1>2, <2>2 DEF DiscoverConfigUsers
  <2>3. QED
    BY <2>1, <2>2
<1>5. expected \subseteq job.users
  BY FragmentUsers DEF Individual
<1>6. QED
  BY <1>3, <1>4, <1>5

LEMMA OthersKeepJob ==
    /\ \A p, on, port, core : SaveProfile(p, on, port, core) => job' = job
    /\ \A n, v : SaveSecret(n, v) \/ StoreFile(n, v) => job' = job
    /\ \A n : DeleteSecret(n) \/ Adopt(n) => job' = job
    /\ \A u : SetAccess(u) => job' = job
    /\ \A new : SaveSettings(new) => job' = job
    /\ ChangeHost \/ PublishReport => job' = job
<1>1. \A p, on, port, core : SaveProfile(p, on, port, core) => job' = job
  BY DEF SaveProfile
<1>2. \A n, v : SaveSecret(n, v) \/ StoreFile(n, v) => job' = job
  BY DEF SaveSecret, StoreFile
<1>3. \A n : DeleteSecret(n) \/ Adopt(n) => job' = job
  BY DEF DeleteSecret, Adopt
<1>4. \A u : SetAccess(u) => job' = job
  BY DEF SetAccess
<1>5. \A new : SaveSettings(new) => job' = job
  BY DEF SaveSettings
<1>6. ChangeHost \/ PublishReport => job' = job
  BY DEF ChangeHost, PublishReport
<1>7. QED
  BY <1>1, <1>2, <1>3, <1>4, <1>5, <1>6

-----------------------------------------------------------------------------
(* The invariant of the plans *)

(* What the proofs need of the types.                                      *)
PlansTyping ==
    /\ row \in [Profiles -> ProfileRow] /\ \A p \in Profiles : Accepted(row[p])
    /\ secret \in [Names -> Secrets \cup {None}] /\ file \in [Names -> Secrets \cup {None}]
    /\ generation \in Nat /\ applied.gen \in Nat

(* What was read of the secrets is what would be read now, but for those   *)
(* that changed without a generation.                                      *)
Fits(store) ==
    /\ store \in [Needed(row) -> Secrets]
    /\ \A n \in Needed(row) \ quiet : store[n] = Resolved(row)[n]

(* The desired state a job has loaded, while no later generation is there. *)
Loaded ==
    /\ job.row \in [Profiles -> ProfileRow]
    /\ On(job.row) = On(row) /\ \A p \in On(row) : job.row[p] = row[p]
    /\ job.users = users /\ job.settings = settings
    /\ job.pc # "secrets" => Fits(job.store)

(* What the worker loaded is of no later generation than the one the panel *)
(* is at.                                                                  *)
JobFits ==
    job # None =>
        /\ job = [pc |-> job.pc, row |-> job.row, users |-> job.users, settings |-> job.settings,
                  gen |-> job.gen, store |-> job.store]
        /\ job.gen \in Nat /\ job.gen <= generation
        /\ job.gen = generation => Loaded

(* A core has the listener of an enabled profile.                          *)
Carried(p, core) ==
    /\ row[p].cap \in Offers(core)
    /\ row[p].core \in {None, core}
    /\ \E store \in [Needed(row) -> Secrets] :
          Fits(store) /\ ListenerOf(core, Fragment(p, row[p], users, store)) \in conf[core]

(* Nor is what was applied. While it is of that one, the site and the      *)
(* listeners are those of the rows.                                        *)
HostFits ==
    /\ applied.gen <= generation
    /\ Site \notin applied.cores => site = NoSite
    /\ applied.gen = generation =>
          /\ site = Installed(settings)
          /\ \A p \in On(row) : \E core \in Cores \cap applied.cores : Carried(p, core)

(* The inductive invariant: rows, job and host agree as long as they carry *)
(* the same generation.                                                    *)
PlansInv == PlansTyping /\ JobFits /\ HostFits

(* The first profile that needs a secret is one that needs it.             *)
LEMMA ReaderFound ==
    ASSUME NEW rows, NEW n \in Needed(rows)
    PROVE  First(rows, n) \in On(rows) /\ n \in ServerReferences(rows[First(rows, n)].refs)
<1>1. Readers(rows, n) # {}
  BY DEF Needed, Readers
<1>2. First(rows, n) \in Readers(rows, n)
  BY <1>1 DEF First
<1>3. QED
  BY <1>2 DEF Readers

(* What the servers read depends on the enabled profiles alone.               *)
LEMMA SameRows ==
    ASSUME NEW r, NEW s, On(r) = On(s), \A p \in On(r) : r[p] = s[p]
    PROVE  Needed(r) = Needed(s) /\ Resolved(r) = Resolved(s)
<1>1. Needed(r) = Needed(s)
  BY DEF Needed
<1>2. ASSUME NEW n \in Needed(r)
      PROVE  ServerOnlyReferences(r[First(r, n)].refs) = ServerOnlyReferences(s[First(s, n)].refs)
  <2>1. Readers(r, n) = Readers(s, n)
    BY DEF Readers
  <2>2. First(r, n) = First(s, n)
    BY <2>1 DEF First
  <2>3. QED
    BY <2>2, ReaderFound
<1> DEFINE only(x, n) == ServerOnlyReferences(x[First(x, n)].refs)
<1>3. Resolved(r) = [n \in Needed(r) |-> IF n \in only(r, n) \/ file[n] # None THEN file[n] ELSE secret[n]]
  BY DEF Resolved
<1>4. Resolved(s) = [n \in Needed(s) |-> IF n \in only(s, n) \/ file[n] # None THEN file[n] ELSE secret[n]]
  BY DEF Resolved
<1>5. \A n \in Needed(r) : only(r, n) = only(s, n)
  BY <1>2
<1> HIDE DEF only
<1>6. QED
  BY <1>1, <1>3, <1>4, <1>5

(* What the servers need are names of secrets.                             *)
LEMMA NeededNames ==
    ASSUME NEW rows \in [Profiles -> ProfileRow]
    PROVE  Needed(rows) \subseteq Names
<1>1. ASSUME NEW refs \in References PROVE ServerReferences(refs) \subseteq Names
  BY DEF References, ServerReferences
<1>2. ASSUME NEW p \in On(rows) PROVE rows[p].refs \in References
  <2>1. rows[p] \in ProfileRow
    BY DEF On
  <2>2. QED
    BY <2>1 DEF ProfileRow
<1>3. QED
  BY <1>1, <1>2 DEF Needed

LEMMA PlansInitially == PlansInit => PlansInv
<1> SUFFICES ASSUME PlansInit PROVE PlansInv
  OBVIOUS
<1>1. PICK start \in Starts : row = start.row
  BY DEF PlansInit
<1>2. row \in [Profiles -> ProfileRow] /\ \A p \in Profiles : Accepted(row[p])
  BY <1>1, RuntimePlansAssumption DEF RuntimePlansAssumption
<1>3. (CHOOSE v \in Secrets : TRUE) \in Secrets
  BY NoneIsNoPlan DEF NoneIsNoPlan
<1>4. secret \in [Names -> Secrets \cup {None}] /\ file \in [Names -> Secrets \cup {None}]
  <2> DEFINE value == CHOOSE v \in Secrets : TRUE
  <2>1. \E kept \in {"file", "database"} :
          /\ secret = [n \in Names |->
                IF \/ n \in UNION {ClientReferences(row[p].refs) : p \in Profiles}
                   \/ n \in ServerOnlyNames /\ kept = "database"
                THEN value ELSE None]
          /\ file = [n \in Names |-> IF n \in ServerOnlyNames /\ kept = "file" THEN value ELSE None]
    BY DEF PlansInit
  <2>2. value \in Secrets
    BY <1>3
  <2> HIDE DEF value
  <2>3. QED
    BY <2>1, <2>2
<1>5. generation = 1 /\ applied.gen = 0 /\ job = None /\ site = NoSite
  BY DEF PlansInit
<1>6. QED
  BY <1>2, <1>4, <1>5 DEF PlansInv, PlansTyping, JobFits, HostFits

-----------------------------------------------------------------------------
(* Each action keeps it *)

(* A new generation: what is loaded or applied is of an older one.            *)
LEMMA CommitKeeps ==
    ASSUME PlansInv, PlansTyping', Commit, UNCHANGED <<job, applied, site>>
    PROVE  PlansInv'
<1>1. generation' = generation + 1 /\ generation \in Nat
  BY DEF Commit, PlansInv, PlansTyping
<1>2. JobFits'
  <2>1. job # None => job.gen \in Nat /\ job.gen <= generation
    BY DEF PlansInv, JobFits
  <2>2. job # None => job.gen \in Nat /\ job.gen <= generation + 1 /\ job.gen # generation + 1
    BY <1>1, <2>1
  <2>3. job # None =>
          job = [pc |-> job.pc, row |-> job.row, users |-> job.users, settings |-> job.settings,
                 gen |-> job.gen, store |-> job.store]
    BY DEF PlansInv, JobFits
  <2>4. QED
    BY <1>1, <2>2, <2>3 DEF JobFits
<1>3. HostFits'
  <2>1. applied.gen \in Nat /\ applied.gen <= generation
    BY DEF PlansInv, HostFits, PlansTyping
  <2>2. applied.gen <= generation + 1 /\ applied.gen # generation + 1
    BY <1>1, <2>1
  <2>3. QED
    BY <1>1, <2>2 DEF HostFits, PlansInv
<1>4. QED
  BY <1>2, <1>3 DEF PlansInv

(* The same generation: what is enabled stays, and what was read of the       *)
(* secrets fits for all that is not quiet.                                    *)
LEMMA FitsKept ==
    ASSUME On(row') = On(row), \A p \in On(row) : row'[p] = row[p],
           secret' = secret, quiet \subseteq quiet',
           \A n \in Needed(row) \ quiet' : file'[n] = file[n],
           NEW store, Fits(store)
    PROVE  /\ Needed(row)' = Needed(row)
           /\ (Fits(store))'
<1>1. Needed(row') = Needed(row)
  BY DEF Needed
<1>2. ASSUME NEW n \in Needed(row) PROVE First(row', n) = First(row, n) /\ row'[First(row, n)] = row[First(row, n)]
  <2>1. Readers(row', n) = Readers(row, n)
    BY DEF Readers
  <2>2. QED
    BY <2>1, ReaderFound DEF First
<1>3. ASSUME NEW n \in Needed(row) \ quiet' PROVE (Resolved(row)[n])' = Resolved(row)[n]
  <2> DEFINE only == ServerOnlyReferences(row[First(row, n)].refs)
  <2>1. only' = only
    BY <1>2
  <2>2. Resolved(row)[n] = IF n \in only \/ file[n] # None THEN file[n] ELSE secret[n]
    BY DEF Resolved
  <2>3. (Resolved(row)[n])' = IF n \in only' \/ file'[n] # None THEN file'[n] ELSE secret'[n]
    BY <1>1 DEF Resolved
  <2> HIDE DEF only
  <2>4. QED
    BY <2>1, <2>2, <2>3
<1>4. QED
  BY <1>1, <1>3 DEF Fits

LEMMA HostFitsStays ==
    ASSUME PlansInv, On(row') = On(row), \A p \in On(row) : row'[p] = row[p],
           UNCHANGED <<secret, users, settings, generation, served>>, quiet \subseteq quiet',
           \A n \in Needed(row) \ quiet' : file'[n] = file[n]
    PROVE  HostFits'
<1>1. Needed(row') = Needed(row)
  BY DEF Needed
<1>2. \A store : Fits(store) => (Fits(store))'
  BY FitsKept
<1>3. site' = site /\ applied' = applied /\ conf' = conf
  BY DEF served
<1>4. (applied.gen <= generation)' /\ (Site \notin applied.cores => site = NoSite)'
  BY <1>3 DEF PlansInv, HostFits
<1>5. (applied.gen = generation => site = Installed(settings))'
  <2>1. applied.gen = generation => site = Installed(settings)
    BY DEF PlansInv, HostFits
  <2>2. QED
    BY <1>3, <2>1 DEF Installed, Desired
<1>6. ASSUME applied.gen = generation, NEW p \in On(row)
      PROVE  \E core \in Cores \cap applied.cores : (Carried(p, core))'
  <2>1. PICK core \in Cores \cap applied.cores : Carried(p, core)
    BY <1>6 DEF PlansInv, HostFits
  <2>2. PICK store \in [Needed(row) -> Secrets] :
            Fits(store) /\ ListenerOf(core, Fragment(p, row[p], users, store)) \in conf[core]
    BY <2>1 DEF Carried
  <2>3. row'[p] = row[p] /\ conf' = conf /\ users' = users
    BY <1>3
  <2>4. (Fits(store))'
    BY <2>2, <1>2
  <2>5. (Carried(p, core))'
    BY <2>1, <2>2, <2>3, <2>4, <1>1 DEF Carried
  <2>6. QED
    BY <2>5
<1>7. QED
  BY <1>3, <1>4, <1>5, <1>6 DEF HostFits

LEMMA SameGenerationKeeps ==
    ASSUME PlansInv, PlansTyping', On(row') = On(row), \A p \in On(row) : row'[p] = row[p],
           UNCHANGED <<secret, users, settings, generation, job, served>>, quiet \subseteq quiet',
           \A n \in Needed(row) \ quiet' : file'[n] = file[n]
    PROVE  PlansInv'
<1>1. \A store : Fits(store) => (Fits(store))'
  BY FitsKept
<1>2. job # None =>
          job = [pc |-> job.pc, row |-> job.row, users |-> job.users, settings |-> job.settings,
                 gen |-> job.gen, store |-> job.store]
  BY DEF PlansInv, JobFits
<1>3. ASSUME job # None, job.gen = generation PROVE Loaded'
  <2>1. Loaded
    BY <1>3 DEF PlansInv, JobFits
  <2>2. job.pc # "secrets" => (Fits(job.store))'
    BY <2>1, <1>1 DEF Loaded
  <2>3. QED
    BY <2>1, <2>2 DEF Loaded
<1>4. JobFits'
  BY <1>2, <1>3 DEF PlansInv, JobFits
<1>5. QED
  BY <1>4, HostFitsStays DEF PlansInv

(* A form of a profile is a new generation where the profile is enabled    *)
(* before or after, and changes nothing that is served otherwise.          *)
LEMMA SaveProfilePreserves ==
    ASSUME PlansInv, NEW p \in Profiles, NEW on \in BOOLEAN, NEW port \in Ports,
           NEW core \in Cores \cup {None}, SaveProfile(p, on, port, core)
    PROVE  PlansInv'
<1> DEFINE new == [row[p] EXCEPT !.on = on, !.port = port, !.core = core]
<1>1. row[p] \in ProfileRow
  BY DEF PlansInv, PlansTyping
<1>2. new \in ProfileRow /\ new.on = on
  BY <1>1 DEF ProfileRow
<1>3. Accepted(new) /\ row' = [row EXCEPT ![p] = new]
  BY DEF SaveProfile
<1> HIDE DEF new
<1>4. UNCHANGED <<secret, file, users, settings, applied, site, job, served>>
  BY DEF SaveProfile, served
<1>5. \A q \in Profiles : row'[q] = IF q = p THEN new ELSE row[q]
  BY <1>3 DEF PlansInv, PlansTyping
<1>6. row' \in [Profiles -> ProfileRow] /\ \A q \in Profiles : Accepted(row'[q])
  <2>1. row' \in [Profiles -> ProfileRow]
    BY <1>2, <1>3 DEF PlansInv, PlansTyping
  <2>2. QED
    BY <2>1, <1>3, <1>5 DEF PlansInv, PlansTyping
<1>7. CASE on \/ row[p].on
  <2>1. Commit
    BY <1>7 DEF SaveProfile
  <2>2. PlansTyping'
    BY <1>4, <1>6, <2>1 DEF PlansInv, PlansTyping, Commit
  <2>3. QED
    BY <1>4, <2>1, <2>2, CommitKeeps
<1>8. CASE ~on /\ ~row[p].on
  <2>1. UNCHANGED <<generation, quiet>>
    BY <1>8 DEF SaveProfile
  <2>2. PlansTyping'
    BY <1>4, <1>6, <2>1 DEF PlansInv, PlansTyping
  <2>3. On(row') = On(row) /\ \A q \in On(row) : row'[q] = row[q]
    BY <1>2, <1>5, <1>8 DEF On
  <2>4. QED
    BY <1>4, <2>1, <2>2, <2>3, SameGenerationKeeps
<1>9. QED
  BY <1>7, <1>8

(* Every change of a secret in the database is a new generation.           *)
LEMMA SecretsPreserve ==
    ASSUME PlansInv, NEW n \in Names, NEW v \in Secrets,
           SaveSecret(n, v) \/ DeleteSecret(n) \/ Adopt(n)
    PROVE  PlansInv'
<1>1. PICK w \in Secrets \cup {None} : WriteSecret(n, w)
  BY DEF SaveSecret, DeleteSecret, Adopt
<1>2. Commit /\ UNCHANGED <<row, job, applied, site>>
  <2>1. Commit
    BY <1>1 DEF WriteSecret
  <2>2. UNCHANGED <<row, job, applied, site>>
    BY DEF SaveSecret, DeleteSecret, Adopt, served
  <2>3. QED
    BY <2>1, <2>2
<1>3. secret' \in [Names -> Secrets \cup {None}]
  BY <1>1 DEF WriteSecret, PlansInv, PlansTyping
<1>4. file' \in [Names -> Secrets \cup {None}]
  <2>1. CASE file' = file
    BY <2>1 DEF PlansInv, PlansTyping
  <2>2. CASE Adopt(n)
    BY <2>2 DEF Adopt, WriteNew, PlansInv, PlansTyping
  <2>3. QED
    BY <2>1, <2>2 DEF SaveSecret, DeleteSecret
<1>5. PlansTyping'
  BY <1>2, <1>3, <1>4 DEF PlansInv, PlansTyping, Commit
<1>6. QED
  BY <1>2, <1>5, CommitKeeps

(* A file of the manager changes without a generation and is quiet.        *)
LEMMA StoreFilePreserves ==
    ASSUME PlansInv, NEW n \in Names, NEW v \in Secrets \cup {None}, StoreFile(n, v)
    PROVE  PlansInv'
<1>1. file' = [file EXCEPT ![n] = v] /\ quiet' = quiet \cup {n}
  BY DEF StoreFile
<1>2. UNCHANGED <<row, secret, users, settings, generation, job, served, applied>>
  BY DEF StoreFile, panel, served
<1>3. PlansTyping'
  BY <1>1, <1>2 DEF PlansInv, PlansTyping
<1>4. Needed(row) \subseteq Names
  BY NeededNames DEF PlansInv, PlansTyping
<1>5. \A m \in Needed(row) \ quiet' : file'[m] = file[m]
  BY <1>1, <1>4 DEF PlansInv, PlansTyping
<1>6. QED
  BY <1>1, <1>2, <1>3, <1>5, SameGenerationKeeps

LEMMA FormsPreserve ==
    ASSUME PlansInv,
           \/ \E u \in Subscribers : SetAccess(u)
           \/ \E new \in [{Site, Node} -> Hosts] : SaveSettings(new)
    PROVE  PlansInv'
<1>1. Commit /\ UNCHANGED <<row, secret, file, job, applied, site>>
  BY DEF SetAccess, SaveSettings, served
<1>2. PlansTyping'
  BY <1>1 DEF PlansInv, PlansTyping, Commit
<1>3. QED
  BY <1>1, <1>2, CommitKeeps

LEMMA HostPreserves ==
    ASSUME PlansInv, ChangeHost \/ PublishReport \/ UNCHANGED planVars
    PROVE  PlansInv'
<1>1. UNCHANGED <<row, secret, file, users, settings, generation, job, served, applied, quiet>>
  BY DEF ChangeHost, PublishReport, panel, served, planVars
<1>2. PlansTyping'
  BY <1>1 DEF PlansInv, PlansTyping
<1>3. QED
  BY <1>1, <1>2, SameGenerationKeeps

LEMMA HostFitsKept ==
    ASSUME PlansInv, UNCHANGED <<panel, file, served, quiet>>
    PROVE  PlansTyping' /\ HostFits'
<1>1. UNCHANGED <<row, secret, file, users, settings, generation, quiet, conf, site, applied>>
  BY DEF panel, served
<1>2. PlansTyping'
  BY <1>1 DEF PlansInv, PlansTyping
<1>3. HostFits'
  BY <1>1, HostFitsStays
<1>4. QED
  BY <1>2, <1>3

LEMMA LoadPreserves == ASSUME PlansInv, Load PROVE PlansInv'
<1>1. UNCHANGED <<panel, file, served, quiet>>
  BY DEF Load
<1>2. PlansTyping' /\ HostFits'
  BY <1>1, HostFitsKept
<1>3. \/ job' = None
      \/ job' = [pc |-> "secrets", row |-> row, users |-> users, settings |-> settings,
                 gen |-> generation, store |-> None]
  BY DEF Load
<1>4. JobFits'
  BY <1>1, <1>3 DEF JobFits, Loaded, panel, PlansInv, PlansTyping
<1>5. QED
  BY <1>2, <1>4 DEF PlansInv

LEMMA ReadSecretsPreserves == ASSUME PlansInv, ReadSecrets PROVE PlansInv'
<1>1. UNCHANGED <<panel, file, served, quiet>>
  BY DEF ReadSecrets
<1>2. PlansTyping' /\ HostFits'
  BY <1>1, HostFitsKept
<1>3. SUFFICES ASSUME job' # None PROVE JobFits'
  BY <1>2 DEF PlansInv, JobFits
<1> DEFINE store == Resolved(job.row)
           pc == IF job.gen > applied.gen THEN "apply" ELSE "observe"
<1>4. job # None /\ (\A n \in Needed(job.row) : store[n] # None)
      /\ job' = [job EXCEPT !.store = store, !.pc = pc]
  BY <1>3 DEF ReadSecrets
<1>5. /\ job = [pc |-> job.pc, row |-> job.row, users |-> job.users, settings |-> job.settings,
                gen |-> job.gen, store |-> job.store]
      /\ job.gen \in Nat /\ job.gen <= generation
      /\ job.gen = generation => Loaded
  BY <1>4 DEF PlansInv, JobFits
<1> HIDE DEF store, pc
<1>6. job' = [pc |-> pc, row |-> job.row, users |-> job.users, settings |-> job.settings,
              gen |-> job.gen, store |-> store]
  BY <1>4, <1>5
<1>7. UNCHANGED <<row, secret, file, users, settings, generation, quiet>>
  BY <1>1 DEF panel
<1>8. ASSUME job.gen = generation PROVE Fits(store) /\ Loaded
  <2>1. Loaded
    BY <1>5, <1>8
  <2>2. Needed(job.row) = Needed(row) /\ store = Resolved(row)
    BY <2>1, SameRows DEF Loaded, store
  <2>3. store \in [Needed(row) -> Secrets]
    <3>1. Needed(row) \subseteq Names
      BY NeededNames DEF PlansInv, PlansTyping
    <3>2. \A n \in Needed(row) : file[n] \in Secrets \cup {None} /\ secret[n] \in Secrets \cup {None}
      BY <3>1 DEF PlansInv, PlansTyping
    <3>3. \A n \in Needed(row) : store[n] \in Secrets \cup {None}
      BY <2>2, <3>2 DEF Resolved
    <3>4. store = [n \in Needed(row) |-> store[n]]
      BY <2>2 DEF Resolved
    <3>5. QED
      BY <1>4, <2>2, <3>3, <3>4
  <2>4. QED
    BY <2>1, <2>2, <2>3 DEF Fits
<1>9. ASSUME job.gen = generation PROVE Loaded'
  <2>1. (Fits(job.store))'
    BY <1>6, <1>7, <1>8, <1>9, FitsKept
  <2>2. job'.row = job.row /\ job'.users = job.users /\ job'.settings = job.settings
    BY <1>6
  <2>3. Loaded
    BY <1>8, <1>9
  <2>4. QED
    BY <1>7, <2>1, <2>2, <2>3 DEF Loaded, On
<1>10. QED
  BY <1>5, <1>6, <1>7, <1>9 DEF JobFits

(* The job goes on with what it has loaded.                                *)
LEMMA AfterApply ==
    ASSUME PlansInv, job # None, UNCHANGED <<panel, file, quiet>>,
           job' = None \/ job' = [job EXCEPT !.pc = "observe"],
           job.pc # "secrets"
    PROVE  JobFits'
<1>1. /\ job = [pc |-> job.pc, row |-> job.row, users |-> job.users, settings |-> job.settings,
                gen |-> job.gen, store |-> job.store]
      /\ job.gen \in Nat /\ job.gen <= generation
      /\ job.gen = generation => Loaded
  BY DEF PlansInv, JobFits
<1>2. SUFFICES ASSUME job' # None PROVE JobFits'
  BY DEF JobFits
<1>3. job' = [pc |-> "observe", row |-> job.row, users |-> job.users, settings |-> job.settings,
              gen |-> job.gen, store |-> job.store]
  BY <1>1, <1>2
<1>4. UNCHANGED <<row, secret, file, users, settings, generation, quiet>>
  BY DEF panel
<1>5. ASSUME job.gen = generation PROVE Loaded'
  <2>1. Loaded
    BY <1>1, <1>5
  <2>2. Fits(job.store)
    BY <2>1 DEF Loaded
  <2>3. (Fits(job.store))'
    BY <2>2, <1>3, <1>4, FitsKept
  <2>4. QED
    BY <1>3, <1>4, <2>1, <2>3 DEF Loaded, On
<1>6. QED
  BY <1>1, <1>3, <1>4, <1>5 DEF JobFits

LEMMA FailPreserves == ASSUME PlansInv, Fail \/ Observe PROVE PlansInv'
<1>1. UNCHANGED <<panel, file, served, quiet>> /\ job # None /\ job.pc # "secrets"
  BY DEF Fail, Observe
<1>2. job' = None \/ job' = [job EXCEPT !.pc = "observe"]
  BY DEF Fail, Observe
<1>3. QED
  BY <1>1, <1>2, HostFitsKept, AfterApply DEF PlansInv

(* A run that succeeds has a listener for every enabled profile of its     *)
(* job.                                                                    *)
LEMMA ApplyPreserves == ASSUME PlansInv, Apply PROVE PlansInv'
<1>1. UNCHANGED <<panel, file, quiet>> /\ job # None /\ job.pc # "secrets"
      /\ job' = [job EXCEPT !.pc = "observe"] /\ Plannable(job)
      /\ applied' = [gen |-> job.gen, cores |-> Active(job)]
      /\ site' = (IF Site \in Planned(job) THEN Installed(job.settings) ELSE site)
      /\ conf' = [core \in Cores |->
                    IF core \in Planned(job) THEN Compose(core, Plan(job, core)) ELSE conf[core]]
  BY DEF Apply
<1>2. Loaded \/ job.gen # generation
  BY <1>1 DEF PlansInv, JobFits
<1>3. UNCHANGED <<row, secret, file, users, settings, generation, quiet>>
  BY <1>1 DEF panel
<1>4. PlansTyping'
  <2>1. job.gen \in Nat
    BY <1>1 DEF PlansInv, JobFits
  <2>2. QED
    BY <1>1, <1>3, <2>1 DEF PlansInv, PlansTyping
<1>5. JobFits'
  BY <1>1, AfterApply
<1>6. Site \in Active(job) <=> Site \in Desired(job.settings)
  BY DEF Active, Cores, Site
<1>7. site' = Installed(job.settings)
  <2>1. CASE Site \in Planned(job)
    BY <1>1, <2>1
  <2>2. CASE Site \notin Planned(job)
    <3>1. Site \notin Active(job) /\ Site \notin applied.cores
      BY <2>2 DEF Planned
    <3>2. site' = NoSite
      BY <1>1, <2>2, <3>1 DEF PlansInv, HostFits
    <3>3. QED
      BY <1>6, <3>1, <3>2 DEF Installed
  <2>3. QED
    BY <2>1, <2>2
<1>8. ASSUME Loaded, NEW p \in On(row)
      PROVE  \E core \in Cores \cap Active(job) : (Carried(p, core))'
  <2>1. p \in On(job.row) /\ job.row[p] = row[p] /\ job.users = users /\ Fits(job.store)
    BY <1>1, <1>8 DEF Loaded
  <2>2. PICK core : core = Core(job.row, p)
    OBVIOUS
  <2>3. PICK store : store = job.store
    OBVIOUS
  <2>4. core \in Cores /\ row[p].cap \in Offers(core) /\ row[p].core \in {None, core}
    <3>1. core # None
      BY <1>1, <2>1, <2>2 DEF Plannable
    <3>2. QED
      BY <2>1, <2>2, <3>1, CoreOffers
  <2>5. Fragment(p, row[p], users, store) \in Plan(job, core)
    BY <2>1, <2>2, <2>3 DEF Plan
  <2>6. core \in Active(job) /\ core \in Planned(job)
    BY <2>4, <2>5 DEF Active, Planned
  <2>7. ListenerOf(core, Fragment(p, row[p], users, store)) \in conf'[core]
    BY <1>1, <2>4, <2>5, <2>6 DEF Compose
  <2>8. store \in [Needed(row) -> Secrets] /\ (Fits(store))' /\ Needed(row)' = Needed(row)
    <3>1. Fits(store)
      BY <2>1, <2>3
    <3>2. QED
      BY <1>3, <3>1, FitsKept DEF Fits
  <2>9. row' = row /\ users' = users
    BY <1>3
  <2>10. (Carried(p, core))'
    BY <2>4, <2>7, <2>8, <2>9 DEF Carried
  <2>11. core \in Cores \cap Active(job)
    BY <2>4, <2>6
  <2>12. QED
    BY <2>10, <2>11
<1>9. HostFits'
  <2>1. applied'.gen = job.gen /\ applied'.cores = Active(job)
    BY <1>1
  <2>2. job.gen <= generation
    BY <1>1 DEF PlansInv, JobFits
  <2>3. Site \notin applied'.cores => site' = NoSite
    BY <1>6, <1>7, <2>1 DEF Installed
  <2>4. ASSUME job.gen = generation
        PROVE  /\ (site = Installed(settings))'
               /\ \A p \in On(row) : \E core \in Cores \cap Active(job) : (Carried(p, core))'
    <3>1. Loaded
      BY <1>2, <2>4
    <3>2. job.settings = settings /\ settings' = settings
      BY <1>3, <3>1 DEF Loaded
    <3>3. (site = Installed(settings))'
      BY <1>7, <3>2 DEF Installed, Desired
    <3>4. QED
      BY <1>8, <3>1, <3>3
  <2>5. On(row)' = On(row) /\ generation' = generation
    BY <1>3
  <2>6. QED
    BY <2>1, <2>2, <2>3, <2>4, <2>5 DEF HostFits
<1>10. QED
  BY <1>4, <1>5, <1>9 DEF PlansInv

(* PlansInv holds in every reachable state, whatever the forms, the        *)
(* manager, the host and failing runs of the worker do in between.         *)
THEOREM PlansInvariant == PlansSpec => []PlansInv
<1>1. ASSUME PlansInv, [PlansNext]_planVars PROVE PlansInv'
  <2>1. ASSUME NEW p \in Profiles, NEW on \in BOOLEAN, NEW port \in Ports,
               NEW core \in Cores \cup {None}, SaveProfile(p, on, port, core)
        PROVE  PlansInv'
    BY <1>1, <2>1, SaveProfilePreserves
  <2>2. ASSUME NEW n \in Names, NEW v \in Secrets, SaveSecret(n, v) PROVE PlansInv'
    BY <1>1, <2>2, SecretsPreserve
  <2>3. ASSUME NEW n \in Names, NEW v \in Secrets \cup {None}, StoreFile(n, v) PROVE PlansInv'
    BY <1>1, <2>3, StoreFilePreserves
  <2>4. ASSUME NEW n \in Names, DeleteSecret(n) \/ Adopt(n) PROVE PlansInv'
    BY <1>1, <2>4, SecretsPreserve, NoneIsNoPlan DEF NoneIsNoPlan
  <2>5. ASSUME \/ \E u \in Subscribers : SetAccess(u)
               \/ \E new \in [{Site, Node} -> Hosts] : SaveSettings(new)
        PROVE  PlansInv'
    BY <1>1, <2>5, FormsPreserve
  <2>6. ASSUME ChangeHost \/ PublishReport \/ UNCHANGED planVars PROVE PlansInv'
    BY <1>1, <2>6, HostPreserves
  <2>7. ASSUME Load \/ ReadSecrets \/ Apply \/ Fail \/ Observe PROVE PlansInv'
    BY <1>1, <2>7, LoadPreserves, ReadSecretsPreserves, ApplyPreserves, FailPreserves
  <2>8. QED
    BY <1>1, <2>1, <2>2, <2>3, <2>4, <2>5, <2>6, <2>7 DEF PlansNext
<1>2. QED
  BY <1>1, PlansInitially, PTL DEF PlansSpec

-----------------------------------------------------------------------------
(* Revoked users *)

(* Every listener knows users of a set only.                               *)
ServesOnly(who) == \A core \in Cores : \A l \in conf[core] : l.users \subseteq who

(* Cores with listeners are cores that will be planned again, and those of *)
(* a generation serve nobody the generation does not know.                 *)
RevokedInv ==
    /\ \A core \in Cores : conf[core] # {} => core \in applied.cores
    /\ applied.gen = generation => ServesOnly(users)
    /\ job # None => applied.gen <= job.gen
    /\ job # None /\ applied.gen = job.gen => ServesOnly(job.users)

(* Of a generation that is over nothing is asked but what was.             *)
LEMMA FormsKeepRevoked ==
    ASSUME PlansInv, RevokedInv, UNCHANGED <<conf, applied, job>>,
           Commit \/ UNCHANGED <<users, generation>>
    PROVE  RevokedInv'
<1>1. applied.gen \in Nat /\ generation \in Nat /\ applied.gen <= generation
  BY DEF PlansInv, PlansTyping, HostFits
<1>2. applied.gen # generation + 1
  BY <1>1
<1>3. (applied.gen = generation)' => applied.gen = generation /\ users' = users
  BY <1>2 DEF Commit
<1>4. QED
  BY <1>3 DEF RevokedInv, ServesOnly

LEMMA LoadKeepsRevoked ==
    ASSUME PlansInv, RevokedInv, Load
    PROVE  RevokedInv'
<1>1. UNCHANGED <<conf, applied, users, generation>>
  BY DEF Load, served, panel
<1>2. job' # None => job'.gen = generation /\ job'.users = users
  BY DEF Load
<1>3. applied.gen <= generation
  BY DEF PlansInv, HostFits
<1>4. QED
  BY <1>1, <1>2, <1>3 DEF RevokedInv, ServesOnly

LEMMA RunKeepsRevoked ==
    ASSUME PlansInv, RevokedInv, ReadSecrets \/ Fail \/ Observe
    PROVE  RevokedInv'
<1>1. UNCHANGED <<conf, applied, users, generation>> /\ job # None
  BY DEF ReadSecrets, Fail, Observe, served, panel
<1>2. job' # None => job'.gen = job.gen /\ job'.users = job.users
  <2>1. job = [pc |-> job.pc, row |-> job.row, users |-> job.users, settings |-> job.settings,
               gen |-> job.gen, store |-> job.store]
    BY <1>1 DEF PlansInv, JobFits
  <2>2. job' # None =>
            \E pc, store : job' = [job EXCEPT !.store = store, !.pc = pc] \/ job' = [job EXCEPT !.pc = pc]
    BY DEF ReadSecrets, Fail, Observe
  <2>3. QED
    BY <2>1, <2>2
<1>3. QED
  BY <1>1, <1>2 DEF RevokedInv, ServesOnly

(* What is composed of a plan knows the users of the plan.                 *)
LEMMA ComposedUsers ==
    ASSUME NEW want, Plannable(want), NEW core \in Cores, NEW l \in Compose(core, Plan(want, core))
    PROVE  l.users \subseteq want.users
<1>1. PICK f \in Plan(want, core) : l = ListenerOf(core, f)
  BY DEF Compose
<1>2. f.users \subseteq want.users
  BY FragmentUsers
<1>3. PICK p \in On(want.row) :
          Core(want.row, p) = core /\ f = Fragment(p, want.row[p], want.users, want.store)
  BY DEF Plan
<1>4. f.cap \in Offers(core)
  <2>1. Core(want.row, p) # None
    BY <1>3 DEF Plannable
  <2>2. want.row[p].cap \in Offers(core)
    BY <1>3, <2>1, CoreOffers
  <2>3. QED
    BY <1>3, <2>2 DEF Fragment
<1>5. PICK shape, fields : l = Listener(f, KindOf(f.cap), Layer(f.cap), shape, fields)
  BY <1>1, <1>4, OfferedMatches DEF Matches, MatchesWith
<1>6. l.users = f.users
  BY <1>5 DEF Listener
<1>7. QED
  BY <1>2, <1>6

(* A core that is not planned had no listener.                             *)
LEMMA ApplyKeepsRevoked ==
    ASSUME PlansInv, RevokedInv, Apply
    PROVE  RevokedInv'
<1>1. /\ job # None /\ Plannable(job) /\ job' = [job EXCEPT !.pc = "observe"]
      /\ applied' = [gen |-> job.gen, cores |-> Active(job)]
      /\ conf' = [core \in Cores |->
                    IF core \in Planned(job) THEN Compose(core, Plan(job, core)) ELSE conf[core]]
  BY DEF Apply
<1>2. UNCHANGED <<users, generation>>
  BY DEF Apply, panel
<1>3. /\ job.gen \in Nat /\ job.gen <= generation
      /\ job.gen = generation => job.users = users
      /\ job'.gen = job.gen /\ job'.users = job.users
  <2>1. /\ job = [pc |-> job.pc, row |-> job.row, users |-> job.users, settings |-> job.settings,
                  gen |-> job.gen, store |-> job.store]
        /\ job.gen \in Nat /\ job.gen <= generation
        /\ job.gen = generation => job.users = users
    BY <1>1 DEF PlansInv, JobFits, Loaded
  <2>2. job' = [pc |-> "observe", row |-> job.row, users |-> job.users, settings |-> job.settings,
                gen |-> job.gen, store |-> job.store]
    BY <1>1, <2>1
  <2>3. QED
    BY <2>1, <2>2
<1>4. ASSUME NEW core \in Cores
      PROVE  /\ conf'[core] # {} => core \in Active(job)
             /\ \A l \in conf'[core] : l.users \subseteq job.users
  <2>1. CASE core \in Planned(job)
    <3>1. conf'[core] = Compose(core, Plan(job, core))
      BY <1>1, <2>1
    <3>2. conf'[core] # {} => Plan(job, core) # {}
      BY <3>1 DEF Compose
    <3>3. QED
      BY <1>1, <3>1, <3>2, ComposedUsers DEF Active
  <2>2. CASE core \notin Planned(job)
    <3>1. core \notin applied.cores
      BY <2>2 DEF Planned
    <3>2. conf'[core] = {}
      BY <1>1, <2>2, <3>1 DEF RevokedInv
    <3>3. QED
      BY <3>2
  <2>3. QED
    BY <2>1, <2>2
<1>5. ServesOnly(job.users)'
  BY <1>3, <1>4 DEF ServesOnly
<1>6. applied'.gen = job.gen /\ applied'.cores = Active(job)
  BY <1>1
<1>7. (applied.gen = generation => ServesOnly(users))'
  BY <1>2, <1>3, <1>4, <1>6 DEF ServesOnly
<1>8. (\A core \in Cores : conf[core] # {} => core \in applied.cores)'
  BY <1>4, <1>6
<1>9. (applied.gen <= job.gen)'
  BY <1>3, <1>6
<1>10. QED
  BY <1>5, <1>7, <1>8, <1>9 DEF RevokedInv

LEMMA RevokedInvariant == PlansSpec => []RevokedInv
<1>1. PlansInit => RevokedInv
  BY DEF PlansInit, RevokedInv, ServesOnly
<1>2. ASSUME PlansInv, RevokedInv, [PlansNext]_planVars PROVE RevokedInv'
  <2>1. ASSUME \/ \E p \in Profiles, on \in BOOLEAN, port \in Ports, core \in Cores \cup {None} :
                     SaveProfile(p, on, port, core)
               \/ \E n \in Names, v \in Secrets : SaveSecret(n, v)
               \/ \E n \in Names : DeleteSecret(n) \/ Adopt(n)
               \/ \E u \in Subscribers : SetAccess(u)
               \/ \E new \in [{Site, Node} -> Hosts] : SaveSettings(new)
        PROVE  RevokedInv'
    <3>1. CASE \E p \in Profiles, on \in BOOLEAN, port \in Ports, core \in Cores \cup {None} :
                  SaveProfile(p, on, port, core)
      BY <1>2, <3>1, FormsKeepRevoked DEF SaveProfile, served
    <3>2. CASE \/ \E n \in Names, v \in Secrets : SaveSecret(n, v)
               \/ \E n \in Names : DeleteSecret(n) \/ Adopt(n)
      BY <1>2, <3>2, FormsKeepRevoked DEF SaveSecret, DeleteSecret, Adopt, WriteSecret, served
    <3>3. CASE \/ \E u \in Subscribers : SetAccess(u)
               \/ \E new \in [{Site, Node} -> Hosts] : SaveSettings(new)
      BY <1>2, <3>3, FormsKeepRevoked DEF SetAccess, SaveSettings, served
    <3>4. QED
      BY <2>1, <3>1, <3>2, <3>3
  <2>2. ASSUME \/ \E n \in Names, v \in Secrets \cup {None} : StoreFile(n, v)
               \/ ChangeHost \/ PublishReport \/ UNCHANGED planVars
        PROVE  RevokedInv'
    <3>1. UNCHANGED <<conf, applied, job, users, generation>>
      BY <2>2 DEF StoreFile, ChangeHost, PublishReport, planVars, served, panel
    <3>2. QED
      BY <1>2, <3>1, FormsKeepRevoked
  <2>3. CASE Load
    BY <1>2, <2>3, LoadKeepsRevoked
  <2>4. CASE ReadSecrets \/ Fail \/ Observe
    BY <1>2, <2>4, RunKeepsRevoked
  <2>5. CASE Apply
    BY <1>2, <2>5, ApplyKeepsRevoked
  <2>6. QED
    BY <1>2, <2>1, <2>2, <2>3, <2>4, <2>5 DEF PlansNext
<1>3. QED
  BY <1>1, <1>2, PlansInvariant, PTL DEF PlansSpec

(* Where the worker calls the users of a profile synced, no listener of    *)
(* that profile in any core lets in a user without access, but for one     *)
(* that a profile was to leave and could not (observe_user_sync,           *)
(* build_plans).                                                           *)
THEOREM SyncedMeansRevoked == PlansSpec => SyncedRevokes
<1> DEFINE Goal == \A p \in Profiles :
                job # None /\ job.pc = "observe" /\ job' = None /\ Plannable(job) /\ sync'[p] = "synced"
                => \A core \in Cores : \A l \in conf[core] :
                      l.name = p => l.users \subseteq job.users \/ NotYetMoved(p, core)
<1>1. ASSUME PlansInv, RevokedInv, [PlansNext]_planVars PROVE [Goal]_planVars
  <2>1. SUFFICES ASSUME PlansNext, NEW p \in Profiles, job # None, job.pc = "observe", job' = None,
                        Plannable(job), sync'[p] = "synced",
                        NEW core \in Cores, NEW l \in conf[core], l.name = p,
                        ~NotYetMoved(p, core)
                 PROVE  l.users \subseteq job.users
    BY <1>1
  <2>2. CASE core # Core(job.row, p)
    <3>1. applied.gen \in Nat /\ job.gen \in Nat /\ applied.gen <= job.gen /\ ~(applied.gen < job.gen)
      BY <1>1, <2>1, <2>2 DEF NotYetMoved, RevokedInv, PlansInv, PlansTyping, JobFits
    <3>2. applied.gen = job.gen
      BY <3>1
    <3>3. QED
      BY <1>1, <2>1, <3>2 DEF RevokedInv, ServesOnly
  <2>3. CASE core = Core(job.row, p)
    <3>1. Observe
      <4>1. job' # job
        BY <2>1
      <4>2. Load \/ ReadSecrets \/ Apply \/ Fail \/ Observe
        BY <2>1, <4>1, OthersKeepJob DEF PlansNext
      <4>3. QED
        BY <2>1, <4>2 DEF Load, ReadSecrets, Apply, Fail
    <3>2. sync'[p] = IF p \in On(job.row) /\ PerUser(job.row[p].cap)
                     THEN ObserveUsers(Core(job.row, p), Plan(job, Core(job.row, p)),
                                       conf[Core(job.row, p)])
                     ELSE None
      BY <2>1, <3>1 DEF Observe
    <3>3. p \in On(job.row) /\ PerUser(job.row[p].cap)
      BY <2>1, <3>2, NoneIsNoPlan DEF NoneIsNoPlan
    <3>4. Core(job.row, p) # None
      BY <2>1, <3>3 DEF Plannable
    <3>5. QED
      BY <2>1, <2>3, <3>2, <3>3, <3>4, ObservedUsers
  <2>4. QED
    BY <2>2, <2>3
<1>2. QED
  BY <1>1, PlansInvariant, RevokedInvariant, PTL DEF PlansSpec, SyncedRevokes

-----------------------------------------------------------------------------
(* What follows *)

LEMMA NeededBy ==
    ASSUME NEW p \in On(row), NEW n \in ServerReferences(row[p].refs)
    PROVE  n \in Needed(row)
  BY DEF Needed

(* Where the secrets are not odd, a server has what the client got.           *)
LEMMA SecretsAgree ==
    ASSUME PlansInv, NEW p \in On(row), NEW store \in [Needed(row) -> Secrets], Fits(store),
           ~OddSecrets(p), Renderable(row[p], secret),
           NEW g \in (DOMAIN row[p].refs) \ {"public_key"}
    PROVE  store[row[p].refs[g]] = secret[row[p].refs[Counterpart(g)]]
<1> DEFINE refs == row[p].refs
           n == refs[g]
<1>1. n \in ServerReferences(refs)
  BY DEF ServerReferences
<1>2. n \in Needed(row) /\ n \notin quiet
  BY <1>1, NeededBy DEF OddSecrets
<1>3. store[n] = Resolved(row)[n] /\ store[n] # None
  BY <1>2, NoneIsNoPlan DEF Fits, NoneIsNoPlan
<1>4. Resolved(row)[n] \in {file[n], secret[n]} /\ (file[n] # None => Resolved(row)[n] = file[n])
  BY <1>2 DEF Resolved
<1> HIDE DEF n
<1>5. CASE g # "private_key"
  <2>1. n \in SharedReferences(refs)
    BY <1>5 DEF SharedReferences, n
  <2>2. file[n] \in {None, secret[n]}
    BY <2>1 DEF OddSecrets
  <2>3. store[n] = secret[n]
    BY <1>3, <1>4, <2>2
  <2>4. Counterpart(g) = g
    BY <1>5 DEF Counterpart
  <2>5. QED
    BY <2>3, <2>4 DEF n
<1>6. CASE g = "private_key"
  <2>1. file[n] = secret[refs["public_key"]]
    BY <1>6 DEF OddSecrets, n
  <2>2. "public_key" \in DOMAIN refs
    <3>1. Accepted(row[p])
      BY DEF PlansInv, PlansTyping, On
    <3>2. QED
      BY <1>6, <3>1, PairedKeys DEF Accepted, Configured
  <2>3. refs["public_key"] \in ClientReferences(refs)
    BY <2>2 DEF ClientReferences
  <2>4. secret[refs["public_key"]] # None
    BY <2>3 DEF Renderable
  <2>5. QED
    BY <1>3, <1>4, <1>6, <2>1, <2>4 DEF Counterpart, n
<1>7. QED
  BY <1>5, <1>6

(* While the generation of the panel is the applied one, the site answers  *)
(* for the host of the settings and a runtime lets in every proxy that a   *)
(* subscription hands out, for every set of profiles, secrets and users    *)
(* (render_client against the composers of adapters/cores.rs).             *)
THEOREM PromisesAreKept == PlansSpec => []ServedAsPromised
<1>1. ASSUME PlansInv PROVE ServedAsPromised
  <2>1. SUFFICES ASSUME applied.gen = generation
                 PROVE  /\ site = Installed(settings)
                        /\ \A u \in users : \A proxy \in Handed(u) :
                            \/ OddSecrets(proxy.name)
                            \/ WithoutVision(proxy.name)
                            \/ \E core \in Cores \cap applied.cores : \E l \in conf[core] : Accepts(l, proxy)
    BY DEF ServedAsPromised
  <2>2. site = Installed(settings)
    BY <1>1, <2>1 DEF PlansInv, HostFits
  <2>3. ASSUME NEW u \in users, NEW proxy \in Handed(u),
               ~OddSecrets(proxy.name), ~WithoutVision(proxy.name)
        PROVE  \E core \in Cores \cap applied.cores : \E l \in conf[core] : Accepts(l, proxy)
    <3>1. PICK p \in On(row) : proxy = Proxy(p, row[p], u, secret) /\ Renderable(row[p], secret)
      BY <2>3 DEF Handed, Available
    <3>2. proxy.name = p
      BY <3>1 DEF Proxy
    <3>3. PICK core \in Cores \cap applied.cores : Carried(p, core)
      BY <1>1, <2>1 DEF PlansInv, HostFits
    <3>4. PICK store \in [Needed(row) -> Secrets] :
              Fits(store) /\ ListenerOf(core, Fragment(p, row[p], users, store)) \in conf[core]
      BY <3>3 DEF Carried
    <3> DEFINE f == Fragment(p, row[p], users, store)
               l == ListenerOf(core, f)
    <3>5. f.cap = row[p].cap /\ f.name = p
      BY DEF Fragment
    <3>6. row[p] \in ProfileRow /\ Accepted(row[p]) /\ row[p].cap \in Offers(core)
      BY <1>1, <3>3 DEF PlansInv, PlansTyping, Carried, On
    <3>7. l.shape = Shape(row[p].cap)
      <4>1. l.name = p /\ (l.shape = Shape(row[p].cap) \/ (core = "sing-box" /\ l.kind = "vless"))
        BY <3>5, <3>6, ListenerNames
      <4>2. ~(core = "sing-box" /\ l.kind = "vless")
        BY <2>3, <3>2, <3>4, <4>1 DEF WithoutVision
      <4>3. QED
        BY <4>1, <4>2
    <3>8. \A g \in (DOMAIN row[p].refs) \ {"public_key"} :
              store[row[p].refs[g]] = secret[row[p].refs[Counterpart(g)]]
      BY <1>1, <2>3, <3>1, <3>2, <3>4, SecretsAgree
    <3>9. Accepts(l, proxy)
      BY <3>1, <3>6, <3>7, <3>8, ServerAccepts
    <3>10. QED
      BY <3>4, <3>9
  <2>4. QED
    BY <2>2, <2>3
<1>2. QED
  BY <1>1, PlansInvariant, PTL

(* select_runtime shows a runtime that can back the protocol.              *)
LEMMA ShownRuntimeBacks ==
    ASSUME NEW p, ShownRuntime(p) # None, row[p].core = None
    PROVE  ShownRuntime(p) \in Cores /\ CanBack(ShownRuntime(p), row[p].cap)
<1> DEFINE backing == {i \in DOMAIN ById : CanBack(ById[i], row[p].cap)}
           least == CHOOSE i \in backing : \A j \in backing : i <= j
<1>1. DOMAIN ById = {1, 2, 3, 4, 5} /\ \A i \in DOMAIN ById : ById[i] \in Cores
  BY DEF ById, Cores
<1>2. backing # {} /\ ShownRuntime(p) = ById[least]
  BY DEF ShownRuntime
<1>3. \E i \in backing : \A j \in backing : i <= j
  <2>1. backing \subseteq {1, 2, 3, 4, 5}
    BY <1>1
  <2> HIDE DEF backing
  <2>2. CASE 1 \in backing
    BY <2>1, <2>2
  <2>3. CASE 1 \notin backing /\ 2 \in backing
    BY <2>1, <2>3
  <2>4. CASE 1 \notin backing /\ 2 \notin backing /\ 3 \in backing
    BY <2>1, <2>4
  <2>5. CASE 1 \notin backing /\ 2 \notin backing /\ 3 \notin backing /\ 4 \in backing
    BY <2>1, <2>5
  <2>6. CASE 1 \notin backing /\ 2 \notin backing /\ 3 \notin backing /\ 4 \notin backing
    <3>1. backing = {5}
      BY <1>2, <2>1, <2>6
    <3>2. QED
      BY <3>1
  <2>7. QED
    BY <2>2, <2>3, <2>4, <2>5, <2>6
<1>4. least \in backing
  BY <1>3
<1>5. QED
  BY <1>1, <1>2, <1>4

(* A page calls healthy only what runs the generation it shows.            *)
LEMMA HealthyIsCurrent ==
    ASSUME PlansInv, NEW core, StateOn(core) = "applied-healthy"
    PROVE  applied.gen = generation /\ core \notin down
<1>1. ~(generation > applied.gen) /\ RuntimeState(core) = "active-healthy"
  BY DEF StateOn
<1>2. IsActive(core)
  BY <1>1 DEF RuntimeState
<1>3. applied.gen <= generation /\ applied.gen \in Nat /\ generation \in Nat
  BY DEF PlansInv, PlansTyping, HostFits
<1>4. QED
  BY <1>1, <1>2, <1>3 DEF IsActive

(* What the pages call applied and healthy is served, and by the runtime   *)
(* the profile is bound to where there is one (build_resources of          *)
(* inventory.rs).                                                          *)
THEOREM PagesAreTrue == PlansSpec => []PageTellsTruth
<1>1. ASSUME PlansInv PROVE PageTellsTruth
  <2>1. ASSUME NEW p \in Profiles, ProfileState(p) = "applied-healthy"
        PROVE  /\ \E core \in Cores : Serves(core, p)
               /\ AdapterState(row[p].cap) = "available"
               /\ row[p].core # None => Serves(row[p].core, p) /\ row[p].core \notin down
    <3> DEFINE shown == ShownRuntime(p)
    <3>1. row[p].on /\ shown # None /\ Usable(shown) /\ StateOn(shown) = "applied-healthy"
      BY <2>1, Zenon DEF ProfileState
    <3>2. applied.gen = generation /\ shown \notin down
      BY <1>1, <3>1, HealthyIsCurrent
    <3>3. p \in On(row)
      BY <3>1 DEF On
    <3>4. PICK core \in Cores \cap applied.cores : Carried(p, core)
      BY <1>1, <3>2, <3>3 DEF PlansInv, HostFits
    <3>5. Serves(core, p)
      <4>1. PICK store \in [Needed(row) -> Secrets] :
                ListenerOf(core, Fragment(p, row[p], users, store)) \in conf[core]
        BY <3>4 DEF Carried
      <4>2. Fragment(p, row[p], users, store).cap = row[p].cap
            /\ Fragment(p, row[p], users, store).name = p
        BY DEF Fragment
      <4>3. ListenerOf(core, Fragment(p, row[p], users, store)).name = p
        BY <3>4, <4>2, ListenerNames DEF Carried
      <4>4. QED
        BY <3>4, <4>1, <4>3 DEF Serves
    <3>6. row[p].core # None => shown = row[p].core /\ core = row[p].core
      BY <3>4 DEF Carried, ShownRuntime
    <3>7. AdapterState(row[p].cap) = "available"
      <4>1. \E other \in Cores : CanBack(other, row[p].cap)
        <5>1. CASE row[p].core = None
          BY <3>1, <5>1, ShownRuntimeBacks
        <5>2. CASE row[p].core # None
          BY <3>1, <3>4, <3>6, <5>2 DEF CanBack, Carried
        <5>3. QED
          BY <5>1, <5>2
      <4>2. QED
        BY <4>1 DEF AdapterState
    <3>8. QED
      BY <3>2, <3>5, <3>6, <3>7
  <2>2. ASSUME FrontendState(Site) = "applied-healthy"
        PROVE  site = settings[Site] /\ Site \notin down
    <3>1. Site \in Desired(settings) /\ StateOn(Site) = "applied-healthy"
      BY <2>2 DEF FrontendState
    <3>2. applied.gen = generation /\ Site \notin down
      BY <1>1, <3>1, HealthyIsCurrent
    <3>3. site = Installed(settings)
      BY <1>1, <3>2 DEF PlansInv, HostFits
    <3>4. QED
      BY <3>1, <3>2, <3>3 DEF Installed
  <2>3. QED
    BY <2>1, <2>2 DEF PageTellsTruth
<1>2. QED
  BY <1>1, PlansInvariant, PTL
===============================================================================
