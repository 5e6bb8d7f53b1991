----------------------------- MODULE UserLifecycle -----------------------------
(***************************************************************************)
(* Subscription users in stealthhub-core/src/storage.rs and the background *)
(* task of stealthhub-panel/src/user_lifecycle.rs that turns the passing   *)
(* of an expiry deadline into a new desired generation.                    *)
(*                                                                         *)
(* Every operation on users is one SQLite transaction over three things:   *)
(* the row, the row's lifecycle checkpoint and the desired generation.     *)
(* Publishing the request and acknowledging it in the checkpoints are      *)
(* steps of their own, of the request handler or of the checker, and the   *)
(* panel may die before each.  The reconcile worker is reduced to what a   *)
(* user sees of it: it reads a generation with the users allowed at that   *)
(* moment, and later they are what the runtimes authorize.                 *)
(*                                                                         *)
(* Nothing in the program writes traffic_used_bytes, and a quota is        *)
(* positive, so the quota never blocks a user here and is left out.        *)
(***************************************************************************)
EXTENDS Integers, FiniteSets, Absent

CONSTANTS
    Users,       \* values of users.id
    Labels,      \* values of users.username
    Deadlines,   \* values of users.expires_at
    Handlers,    \* concurrent requests of administrators
    MaxTime,     \* bound on the clock
    MaxBack,     \* bound on steps back of the clock
    MaxEdits,    \* bound on operations of administrators
    MaxFaults,   \* bound on lost publications, failed runs and panel restarts
    Lag          \* how old a reading of the clock may be when the transaction
                 \* that uses it begins

Checker == "checker"
Tasks == Handlers \cup {Checker}
Expiries == Deadlines \cup {None}

ASSUME ConstantsAssumption ==
    /\ Deadlines \subseteq Nat
    /\ MaxTime \in Nat /\ MaxBack \in Nat /\ MaxEdits \in Nat /\ MaxFaults \in Nat
    /\ Lag \in Nat
    /\ None \notin Nat
    /\ Checker \notin Handlers

VARIABLES
    now,       \* the clock of the host
    backs,     \* steps back so far
    edits,     \* operations of administrators so far
    faults,    \* failures so far
    user,      \* users: the rows; a deleted id is never given out again
    used,      \* ids given out
    mark,      \* user_lifecycle_state
    gen,       \* reconcile_state.desired_generation
    form,      \* the row an administrator's open form was rendered from
    task,      \* what each handler and the checker have still to do
    reading,   \* the clock as the checker read it for its evaluation, else 0
    repaired,  \* did the startup repair of this panel process succeed?
    request,   \* is there a reconcile.request? The worker reads the latest
               \* generation, whatever the number in it
    worker,    \* the generation the reconcile worker read last, and its users
    appliedGen, \* the applied generation
    granted,   \* per user: identity and label the runtimes authorize
    missed     \* history: users whose access the last generation does not cover

clock == <<now, backs>>
bounds == <<edits, faults>>
table == <<user, used, mark, gen, missed>>
runtime == <<worker, appliedGen, granted>>
vars == <<now, backs, edits, faults, user, used, mark, gen, form, task, reading,
          repaired, request, worker, appliedGen, granted, missed>>

-----------------------------------------------------------------------------
(* The row version updated_at is a reading of the clock; `ident` is the     *)
(* version at which the runtime identity (uuid) was last generated.         *)
Row == [enabled : BOOLEAN, expires : Expiries, label : Labels,
        ident : Nat, ver : Nat]
Mark == [allowed : BOOLEAN, expired : BOOLEAN, source : Nat,
         pending : {None} \cup Nat]
Grant == [ident : Nat, label : Labels]
Task == [at : {"idle", "evaluate", "read", "publish", "ack"}, gen : Nat]
Idle == [at |-> "idle", gen |-> 0]

ASSUME NoneIsNoValue == None \notin Row /\ None \notin Mark

(* UserAccessState::evaluate                                                *)
Expired(row, t) == row.expires # None /\ row.expires <= t
Allowed(row, t) == row.enabled /\ ~Expired(row, t)

(* Utc::now() comes before pool.begin(), in the worker and in every         *)
(* operation; time may pass and other transactions commit in between, and a *)
(* reading from before the clock was set back is later than the clock.      *)
Readings == {t \in 0..now + backs : now - t <= Lag}

(* Mutant: the version is just the time of the change.                      *)
VersionNow(row, t) == t

(* next_user_updated_at: a clock that stands still or went back must not    *)
(* give one version to two contents.                                        *)
NextVersion(row, t) == IF t > row.ver THEN t ELSE row.ver + 1

(* The users load_desired_state_at hands to the worker.                     *)
View(t) == [u \in Users |->
            IF user[u] # None /\ Allowed(user[u], t)
            THEN [ident |-> user[u].ident, label |-> user[u].label] ELSE None]

Nobody == [u \in Users |-> None]

Pending == {mark[u].pending : u \in {v \in Users : mark[v] # None}} \ {None}

(* upsert_user_lifecycle_checkpoint: COALESCE keeps the mark of an earlier  *)
(* generation that is still to be published.                                *)
MarkOf(u, row, t, pending) ==
    [allowed |-> Allowed(row, t), expired |-> Expired(row, t), source |-> row.ver,
     pending |-> IF pending = None /\ mark[u] # None THEN mark[u].pending
                                                     ELSE pending]

Fault == faults < MaxFaults /\ faults' = faults + 1
Edit == edits < MaxEdits /\ edits' = edits + 1

(* Has the last checkpoint seen what the clock did to the user?             *)
Observed(u) == user[u] # None =>
    /\ mark[u] # None
    /\ mark[u].allowed = Allowed(user[u], now)

(* Does an operation with this reading see the access that the clock and    *)
(* the checkpoint agree upon?                                               *)
Judged(u, t) == Observed(u) /\ Allowed(user[u], t) = Allowed(user[u], now)

(* An operation decides by its reading alone whether access changes.  Where *)
(* it asks for no generation, the last one misses a user it did not judge.  *)
Decide(u, t, bump) ==
    missed' = IF bump THEN {} ELSE IF Judged(u, t) THEN missed ELSE missed \cup {u}

Init ==
    /\ now = 0 /\ backs = 0 /\ edits = 0 /\ faults = 0
    /\ used \in SUBSET Users
    /\ \E label \in [used -> Labels], expires \in [used -> Expiries] :
           /\ \A u, v \in used : label[u] = label[v] => u = v
           /\ user = [u \in Users |->
                         IF u \in used
                         THEN [enabled |-> TRUE, expires |-> expires[u],
                               label |-> label[u], ident |-> 0, ver |-> 0]
                         ELSE None]
    /\ mark = [u \in Users |-> None]
    /\ gen = 0
    /\ form = None
    /\ task = [t \in Tasks |-> Idle]
    /\ reading = 0
    /\ repaired = FALSE
    /\ request = FALSE
    /\ worker = [busy |-> FALSE, gen |-> 0, view |-> Nobody]
    /\ appliedGen = 0
    /\ granted = View(now)
    /\ missed = {}

-----------------------------------------------------------------------------
(* Operations of administrators                                             *)

(* queue_latest_reconcile follows the commit of a new generation.           *)
Queue(bump) ==
    \E h \in Handlers :
        /\ task[h].at = "idle"
        /\ task' = IF bump THEN [task EXCEPT ![h].at = "read"] ELSE task

(* The end of every operation: the generation, the checkpoint of the new    *)
(* row and the request.                                                     *)
Save(u, row, t, bump) ==
    LET g == IF bump THEN gen + 1 ELSE gen
    IN /\ gen' = g
       /\ user' = [user EXCEPT ![u] = row]
       /\ mark' = [mark EXCEPT ![u] = MarkOf(u, row, t, IF bump THEN g ELSE None)]
       /\ Decide(u, t, bump)
       /\ Queue(bump)

NewRow(label, expires, t) ==
    [enabled |-> TRUE, expires |-> expires, label |-> label, ident |-> t, ver |-> t]

(* username is UNIQUE.                                                      *)
NameFree(u, label) == \A v \in Users \ {u} : user[v] # None => user[v].label # label

CreateUser(u, label, expires, t) ==
    /\ u \notin used /\ NameFree(u, label)
    /\ expires # None => expires > t
    /\ used' = used \cup {u}
    /\ Save(u, NewRow(label, expires, t), t, TRUE)

(* An edit page or a confirmation page, which stays open after its use; no  *)
(* page is opened when the bound leaves no operation to use it.             *)
OpenForm(u) ==
    /\ user[u] # None /\ edits < MaxEdits
    /\ form' = [id |-> u, row |-> user[u]]
    /\ UNCHANGED <<clock, bounds, table, task, reading, repaired, request, runtime>>

(* expected_updated_at of the form against updated_at of the row.           *)
FormIsCurrent(u) ==
    /\ form # None /\ form.id = u
    /\ user[u] # None /\ user[u].ver = form.row.ver

(* Mutant: a new name of an allowed user does not ask for a generation.     *)
UpdateQuietly(u, label, expires, t) ==
    /\ FormIsCurrent(u) /\ NameFree(u, label)
    /\ label # user[u].label \/ expires # user[u].expires
    /\ LET row == [user[u] EXCEPT !.label = label, !.expires = expires,
                                  !.ver = NextVersion(user[u], t)]
       IN Save(u, row, t, Allowed(user[u], t) # Allowed(row, t))
    /\ UNCHANGED used

UpdateUser(u, label, expires, t) ==
    /\ FormIsCurrent(u) /\ NameFree(u, label)
    /\ label # user[u].label \/ expires # user[u].expires
    /\ LET row == [user[u] EXCEPT !.label = label, !.expires = expires,
                                  !.ver = NextVersion(user[u], t)]
           before == Allowed(user[u], t)
           after == Allowed(row, t)
           renamed == label # user[u].label /\ (before \/ after)
       IN Save(u, row, t, renamed \/ before # after)
    /\ UNCHANGED used

RotateIdentity(u, t) ==
    /\ FormIsCurrent(u)
    /\ LET ver == NextVersion(user[u], t)
       IN Save(u, [user[u] EXCEPT !.ident = ver, !.ver = ver], t, TRUE)
    /\ UNCHANGED used

SetEnabled(u, enabled, t) ==
    /\ user[u] # None
    /\ user[u].enabled # enabled
    /\ LET row == [user[u] EXCEPT !.enabled = enabled, !.ver = NextVersion(user[u], t)]
       IN Save(u, row, t, Allowed(user[u], t) # Allowed(row, t))
    /\ UNCHANGED used

(* Mutant: the new token is saved without a checkpoint of the new version.  *)
ResetTokenUnmarked(u, t) ==
    /\ user[u] # None
    /\ user' = [user EXCEPT ![u].ver = NextVersion(user[u], t)]
    /\ UNCHANGED <<used, mark, gen, missed, task>>

(* The subscription token is the client's bearer token; the runtimes do not *)
(* know it.                                                                 *)
ResetToken(u, t) ==
    /\ user[u] # None
    /\ Save(u, [user[u] EXCEPT !.ver = NextVersion(user[u], t)], t, FALSE)
    /\ UNCHANGED used

(* The checkpoint goes with the row (ON DELETE CASCADE).                    *)
DeleteUser(u, t) ==
    /\ user[u] # None
    /\ user' = [user EXCEPT ![u] = None]
    /\ mark' = [mark EXCEPT ![u] = None]
    /\ gen' = IF Allowed(user[u], t) THEN gen + 1 ELSE gen
    /\ Decide(u, t, Allowed(user[u], t))
    /\ Queue(Allowed(user[u], t))
    /\ UNCHANGED used

(* The handlers of main.rs, one per form                                    *)

(* What the handlers around the transactions leave alone.                   *)
Request == Edit /\ UNCHANGED <<clock, faults, form, reading, repaired, request, runtime>>

CreateUserAction(u, label, expires, t) == CreateUser(u, label, expires, t) /\ Request
EditUserAction(u, label, expires, t) == UpdateUser(u, label, expires, t) /\ Request
RotateIdentityAction(u, t) == RotateIdentity(u, t) /\ Request
ToggleUserAction(u, enabled, t) == SetEnabled(u, enabled, t) /\ Request
ResetTokenAction(u, t) == ResetToken(u, t) /\ Request
DeleteUserAction(u, t) == DeleteUser(u, t) /\ Request

-----------------------------------------------------------------------------
(* The checker                                                              *)

DeadlineCandidates(t) ==
    {u \in Users : /\ user[u] # None /\ mark[u] # None
                   /\ user[u].expires # None
                   /\ mark[u].expired # Expired(user[u], t)}

RepairCandidates(t) ==
    {u \in Users : /\ user[u] # None
                   /\ \/ mark[u] = None
                      \/ mark[u].source # user[u].ver
                      \/ u \in DeadlineCandidates(t)}

Transitions(candidates, t) ==
    {u \in candidates : IF mark[u] = None THEN ~Allowed(user[u], t)
                                          ELSE mark[u].allowed # Allowed(user[u], t)}

(* Mutant: the checkpoints are updated, the generation is not.              *)
EvaluateSilently(candidates, t) ==
    /\ task[Checker].at = "evaluate"
    /\ mark' = [u \in Users |-> IF u \in candidates THEN MarkOf(u, user[u], t, None)
                                                    ELSE mark[u]]
    /\ repaired' = TRUE
    /\ task' = [task EXCEPT ![Checker] = Idle] /\ reading' = 0
    /\ UNCHANGED <<clock, bounds, user, used, gen, missed, form, request, runtime>>

(* Mutant: the crossings get a generation, the checkpoints do not see them. *)
EvaluateUnmarked(candidates, t) ==
    /\ task[Checker].at = "evaluate"
    /\ gen' = IF Transitions(candidates, t) = {} THEN gen ELSE gen + 1
    /\ mark' = [u \in Users |-> IF u \in candidates /\ mark[u] = None
                                THEN MarkOf(u, user[u], t, None) ELSE mark[u]]
    /\ repaired' = TRUE
    /\ task' = [task EXCEPT ![Checker] = Idle] /\ reading' = 0
    /\ UNCHANGED <<clock, bounds, user, used, missed, form, request, runtime>>

(* evaluate_user_lifecycle: the crossings, one generation for all of them,  *)
(* and the outbox moved on to it, in one transaction.                       *)
Evaluate(candidates, t) ==
    LET crossed == Transitions(candidates, t)
        g == IF crossed = {} THEN gen ELSE gen + 1
        moved == [u \in Users |->
                     IF crossed # {} /\ mark[u] # None /\ mark[u].pending # None
                     THEN g ELSE IF mark[u] = None THEN None ELSE mark[u].pending]
        owed == IF crossed # {} THEN {g} ELSE Pending
    IN /\ task[Checker].at = "evaluate"
       /\ gen' = g
       /\ missed' = IF crossed = {} THEN missed ELSE {}
       /\ mark' = [u \in Users |->
                      IF u \in candidates
                      THEN [MarkOf(u, user[u], t, None) EXCEPT !.pending =
                                IF u \in crossed THEN g ELSE moved[u]]
                      ELSE IF mark[u] = None THEN None
                      ELSE [mark[u] EXCEPT !.pending = moved[u]]]
       /\ IF owed = {}
          THEN repaired' = TRUE /\ task' = [task EXCEPT ![Checker] = Idle]
          ELSE /\ \E h \in owed :
                     /\ \A i \in owed : i <= h
                     /\ task' = [task EXCEPT ![Checker] = [at |-> "publish", gen |-> h]]
               /\ UNCHANGED repaired
       /\ reading' = 0
       /\ UNCHANGED <<clock, bounds, user, used, form, request, runtime>>

(* evaluate_and_publish: the clock is read before the transaction begins.   *)
CheckerReads ==
    /\ task[Checker].at = "idle"
    /\ reading' = now
    /\ task' = [task EXCEPT ![Checker].at = "evaluate"]
    /\ UNCHANGED <<clock, bounds, table, form, repaired, request, runtime>>

StartupRepair == ~repaired /\ Evaluate(RepairCandidates(reading), reading)
DeadlineScan == repaired /\ Evaluate(DeadlineCandidates(reading), reading)

-----------------------------------------------------------------------------
(* Publication: publish_and_acknowledge                                     *)

ReadLatest(h) ==
    /\ task[h].at = "read"
    /\ task' = [task EXCEPT ![h] = [at |-> "publish", gen |-> gen]]
    /\ UNCHANGED <<clock, bounds, table, form, reading, repaired, request, runtime>>

Publish(t) ==
    /\ task[t].at = "publish"
    /\ request' = TRUE
    /\ task' = [task EXCEPT ![t].at = "ack"]
    /\ UNCHANGED <<clock, bounds, table, form, reading, repaired, runtime>>

(* The handler only logs the error, the checker evaluates again later.      *)
PublishFails(t) ==
    /\ task[t].at = "publish" /\ Fault
    /\ task' = [task EXCEPT ![t] = Idle]
    /\ UNCHANGED <<clock, edits, table, form, reading, repaired, request, runtime>>

(* Mutant: every mark is cleared, whatever generation was published.        *)
AcknowledgeAll(t) ==
    /\ task[t].at = "ack"
    /\ mark' = [u \in Users |-> IF mark[u] # None THEN [mark[u] EXCEPT !.pending = None]
                                                  ELSE None]
    /\ task' = [task EXCEPT ![t] = Idle]
    /\ repaired' = (repaired \/ t = Checker)
    /\ UNCHANGED <<clock, bounds, user, used, gen, missed, form, reading, request, runtime>>

(* mark_user_lifecycle_reconcile_published                                  *)
Acknowledge(t) ==
    /\ task[t].at = "ack"
    /\ mark' = [u \in Users |->
                   IF mark[u] # None /\ mark[u].pending # None
                        /\ mark[u].pending <= task[t].gen
                   THEN [mark[u] EXCEPT !.pending = None] ELSE mark[u]]
    /\ task' = [task EXCEPT ![t] = Idle]
    /\ repaired' = (repaired \/ t = Checker)
    /\ UNCHANGED <<clock, bounds, user, used, gen, missed, form, reading, request, runtime>>

PanelRestart ==
    /\ Fault
    /\ task' = [t \in Tasks |-> Idle]
    /\ repaired' = FALSE /\ reading' = 0
    /\ UNCHANGED <<clock, edits, table, form, request, runtime>>

-----------------------------------------------------------------------------
(* The reconcile worker, started by the request or by its timer             *)

(* The users whom the worker takes for allowed although a checkpoint of the *)
(* generation it reads saw them blocked: the reading was older than that.   *)
Misread(t) == {u \in Users : mark[u] # None /\ ~mark[u].allowed /\ View(t)[u] # None}

WorkerReads(t) ==
    /\ ~worker.busy
    /\ request \/ gen > appliedGen
    /\ request' = FALSE
    /\ worker' = IF gen > appliedGen THEN [busy |-> TRUE, gen |-> gen, view |-> View(t)]
                                  ELSE [worker EXCEPT !.gen = gen]
    /\ missed' = IF gen > appliedGen THEN Misread(t) ELSE missed
    /\ UNCHANGED <<clock, bounds, user, used, mark, gen, form, task, reading, repaired,
                   appliedGen, granted>>

Ended == [worker EXCEPT !.busy = FALSE, !.view = Nobody]

WorkerApplies ==
    /\ worker.busy
    /\ worker' = Ended
    /\ appliedGen' = worker.gen
    /\ granted' = worker.view
    /\ UNCHANGED <<clock, bounds, table, form, task, reading, repaired, request>>

WorkerFails ==
    /\ worker.busy /\ Fault
    /\ worker' = Ended
    /\ UNCHANGED <<clock, edits, table, form, task, reading, repaired, request, appliedGen,
                   granted>>

-----------------------------------------------------------------------------
Tick ==
    /\ now < MaxTime
    /\ now' = now + 1
    /\ UNCHANGED <<backs, bounds, table, form, task, reading, repaired, request, runtime>>

StepBack ==
    /\ now > 0 /\ backs < MaxBack
    /\ now' = now - 1
    /\ backs' = backs + 1
    /\ UNCHANGED <<bounds, table, form, task, reading, repaired, request, runtime>>

Admin ==
    \E u \in Users, t \in Readings :
        \/ OpenForm(u) \/ RotateIdentityAction(u, t) \/ ResetTokenAction(u, t) \/ DeleteUserAction(u, t)
        \/ \E enabled \in BOOLEAN : ToggleUserAction(u, enabled, t)
        \/ \E label \in Labels, expires \in Expiries :
               CreateUserAction(u, label, expires, t) \/ EditUserAction(u, label, expires, t)

CheckerStep ==
    CheckerReads \/ StartupRepair \/ DeadlineScan \/ Publish(Checker) \/ Acknowledge(Checker)
HandlerStep == \E h \in Handlers : ReadLatest(h) \/ Publish(h) \/ Acknowledge(h)
WorkerStep == (\E t \in Readings : WorkerReads(t)) \/ WorkerApplies
Failure == (\E t \in Tasks : PublishFails(t)) \/ PanelRestart \/ WorkerFails

Next == Admin \/ CheckerStep \/ HandlerStep \/ WorkerStep \/ Failure \/ Tick \/ StepBack

Spec == Init /\ [][Next]_vars

(* The checker wakes every 30 seconds, the worker's timer every 5 minutes.  *)
FairSpec == Spec /\ WF_vars(CheckerStep) /\ WF_vars(WorkerStep)

-----------------------------------------------------------------------------
(* Properties *)

TypeOK ==
    /\ now \in 0..MaxTime /\ backs \in 0..MaxBack
    /\ edits \in 0..MaxEdits /\ faults \in 0..MaxFaults
    /\ user \in [Users -> {None} \cup Row]
    /\ used \in SUBSET Users
    /\ mark \in [Users -> {None} \cup Mark]
    /\ gen \in Nat
    /\ form \in {None} \cup [id : Users, row : Row]
    /\ task \in [Tasks -> Task]
    /\ reading \in 0..MaxTime
    /\ repaired \in BOOLEAN
    /\ request \in BOOLEAN
    /\ worker \in [busy : BOOLEAN, gen : Nat, view : [Users -> {None} \cup Grant]]
    /\ appliedGen \in Nat
    /\ granted \in [Users -> {None} \cup Grant]
    /\ missed \in SUBSET Users
    /\ \A u \in Users : (mark[u] # None => user[u] # None) /\ (user[u] # None => u \in used)

(* One updated_at never stands for two contents of a row, even when the     *)
(* clock repeats itself: a form that passes the optimistic check of         *)
(* update_user_audited was rendered from the row it is about to change.     *)
VersionIdentifiesRow ==
    \A u \in Users : FormIsCurrent(u) => user[u] = form.row

(* After the startup repair the bounded scan of the deadlines misses no row *)
(* that the full repair would find (evaluate_due_user_lifecycle_transitions:*)
(* "Normal mutations maintain their own checkpoints").                      *)
BoundedScanSuffices ==
    repaired => RepairCandidates(now) = DeadlineCandidates(now)

(* A mark leaves the outbox only when its generation needs no other request *)
(* (mark_user_lifecycle_reconcile_published): one is on disk, or the worker *)
(* has read that generation, whoever else publishes and commits meanwhile.  *)
OutboxIsRequested ==
    [][\A u \in Users :
           (/\ mark[u] # None /\ mark'[u] # None
            /\ mark[u].pending # None /\ mark'[u].pending = None) =>
               request \/ worker.gen >= mark[u].pending]_vars

(* The generation covers everything the runtimes depend on: when it is      *)
(* applied, each user whose checkpoint has seen the clock is authorized     *)
(* exactly as the row says, with its current identity and label, or not at  *)
(* all ("A crossing and its generation are committed together"), as long as *)
(* the clock does not go back behind a deadline the worker saw pass.        *)
(* Excepted until the next generation are users whose access an operation   *)
(* without one misjudged, because no scan had seen the clock pass a         *)
(* deadline or its own reading was older than that, and users the worker    *)
(* took with a reading older than the crossing it loaded.                   *)
AppliedIsCurrent ==
    backs = 0 /\ appliedGen = gen => \A u \in Users \ missed : Observed(u) => granted[u] = View(now)[u]

(* While the clock runs forward, a deadline that passes costs at most one   *)
(* generation, however often the checker scans, fails to publish or starts  *)
(* again ("Restart and a repeated tick do not create a generation storm"):  *)
(* every row starts with one deadline, every operation may set another.     *)
NoGenerationStorm ==
    backs = 0 => gen <= Cardinality(Users) + 2 * edits

(* In the end the runtimes authorize exactly the users that are allowed,    *)
(* although no deadline writes a row when it passes, but for those whom the *)
(* last generation misses.                                                  *)
AccessConverges ==
    <>[](backs = 0 => \A u \in Users \ missed : granted[u] = View(now)[u])

(* The lifecycle worker makes every expiry reach the runtimes, whichever    *)
(* operation comes between a deadline and the scan.                         *)
ExpiriesConverge == <>[](backs = 0 => granted = View(now))
================================================================================
