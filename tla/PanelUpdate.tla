----------------------------- MODULE PanelUpdate ------------------------------
(***************************************************************************)
(* The panel updates itself (deploy/panel-update.sh, update.rs): the panel *)
(* writes a policy file and a request, the updater of the root user checks *)
(* out the newest commit, builds and installs it and publishes the commit  *)
(* when the new panel is ready, or else puts binaries, database and        *)
(* configurations back.  Meanwhile administrators edit, the reconciler     *)
(* applies, and machine or updater may go down.                            *)
(*                                                                         *)
(* Commits of the pinned ref are ordered; a smaller one is an ancestor.    *)
(* The control plane is two artifacts that install.sh replaces one after   *)
(* the other: the panel and the helpers.  An edit stands for any change    *)
(* that commits a generation, a crossed deadline included.                 *)
(***************************************************************************)
EXTENDS Integers

CONSTANTS
    Last,       \* commits are 0..Last
    Schema,     \* per commit: the schema its panel migrates profiles to
    Minutes,    \* minutes of the day: those an administrator may schedule an
                \* update for, and those at which a run of the updater asks
                \* whether it is due
    None,       \* nothing: no run, no panel, no status, no schedule
    Limits      \* how often each bounded kind of event may happen: one
                \* budget or another

Commits   == 0..Last
Artifacts == {"panel", "helper"}
Kinds     == {"edit", "push", "request", "failure", "kill"}

(* OnCalendar=*:00/15:00 : the timer fires for the last time of a day at    *)
(* 23:45.                                                                   *)
LastQuarter == 23 * 60 + 45

ASSUME PanelUpdateAssumption ==
    /\ Last \in Nat
    /\ Schema \in [Commits -> Nat]
    /\ \A c, d \in Commits : c <= d => Schema[c] <= Schema[d]
    /\ Minutes \subseteq 0..(24 * 60 - 1) /\ LastQuarter \in Minutes
    /\ None \notin Commits \cup Minutes
    /\ Limits \subseteq [Kinds -> Nat]

VARIABLES
    upstream,  \* the commit of the pinned ref
    head,      \* HEAD of the source checkout
    release,   \* per artifact: what target/release holds
    bin,       \* per artifact: what is installed
    running,   \* the panel that runs
    db,        \* the database: generation, last edit, schema, the time automatic
               \* updates are scheduled for, if they are enabled, and the notice
    conf,      \* the edit that the configurations of the cores are for
    applied,   \* applied.json: a generation and its edit
    marker,    \* panel-last-applied.sha
    status,    \* panel-update-status.env: the newest commit and the state
    policy,    \* SCHEDULE_TIME of panel-update-state.env, None unless AUTO_ENABLED
    request,   \* panel-update-now.request exists
    run,       \* the updater, None when none holds the lock
    torn,      \* history: a run was cut off between the checkout of the previous
               \* commit and its binaries, and nothing was published since
    behind,    \* history: what was put back was older than what was applied, and
               \* nothing was applied since
    left       \* what is left of the budget

installed == <<head, release, bin, running>>
data      == <<db, conf, applied>>
public    == <<marker, status, policy, request>>
history   == <<torn, behind>>
vars == <<upstream, head, release, bin, running, db, conf, applied, marker,
          status, policy, request, run, torn, behind, left>>

Installations == [Artifacts -> Commits]

Databases == [gen : Nat, edit : Int, schema : Nat,
              time : Minutes \cup {None}, notice : BOOLEAN]

(* The places of a run: before the checkout, on the target, on the way back *)
(* before and after the checkout of the previous commit.                    *)
Saving   == {"save binaries", "save database", "save configs"}
Moving   == {"build", "install panel", "install helper", "restart", "wait", "finish"}
Undoing  == {"stop panel", "restore configs", "restore database", "check out previous"}
Returned == {"restore binaries", "restart previous", "report"}
Steps == Saving \cup {"check out"} \cup Moving \cup Undoing \cup Returned

Runs == [pc : Steps, target : Commits, previous : Commits,
         bin : Installations \cup {None}, db : Databases \cup {None}, conf : Int \cup {None}]

(* None is no run.                                                          *)
ASSUME NoneIsNoRun == None \notin Runs

Spend(kind) == left[kind] > 0 /\ left' = [left EXCEPT ![kind] = @ - 1]
All(c) == [a \in Artifacts |-> c]

-----------------------------------------------------------------------------
(* The panel                                                                *)

(* The service starts what is installed on d: it migrates the profiles, and *)
(* ends when they have a newer schema than it knows.                        *)
Starts(b, d)   == d.schema <= Schema[b["panel"]]
Started(b, d)  == IF Starts(b, d) THEN b["panel"] ELSE None
Migrated(b, d) == IF Starts(b, d) THEN [d EXCEPT !.schema = Schema[b["panel"]]] ELSE d

(* Any mutation that commits a generation; what is left of the budget tells *)
(* one edit from another, also when the database goes back.                 *)
Edit ==
    /\ running # None /\ Spend("edit")
    /\ db' = [db EXCEPT !.gen = @ + 1, !.edit = left["edit"]]
    /\ UNCHANGED <<upstream, installed, conf, applied, public, run, history>>

(* panel_update_now_action, request_now                                     *)
AskUpdate ==
    /\ running # None /\ ~request /\ Spend("request")
    /\ request' = TRUE
    /\ UNCHANGED <<upstream, installed, data, marker, status, policy, run, history>>

(* The settings form disables automatic updates or schedules them, at any   *)
(* minute of the day (parse_schedule_time).                                 *)
SetAuto ==
    /\ running # None /\ Spend("request")
    /\ \E time \in (Minutes \cup {None}) \ {db.time} : db' = [db EXCEPT !.time = time]
    /\ UNCHANGED <<upstream, installed, conf, applied, public, run, history>>

(* load_root_status: the newest commit that the updater reported, if any.   *)
Known == IF status = None THEN None ELSE status.latest

(* refresh_state: the policy is written for the updater, and the bar of the *)
(* interface announces a commit that the marker does not have.              *)
RefreshState ==
    /\ running # None
    /\ policy' = db.time
    /\ db' = [db EXCEPT !.notice = db.time # None /\ Known \notin {None, marker}]
    /\ UNCHANGED <<upstream, installed, conf, applied, marker, status, request, run, left, history>>

(* The reconciler applies the generation it finds, if it is a newer one.    *)
Reconcile ==
    /\ db.gen > applied.gen
    /\ applied' = [gen |-> db.gen, edit |-> db.edit]
    /\ conf' = db.edit
    /\ behind' = FALSE
    /\ UNCHANGED <<upstream, installed, db, public, run, left, torn>>

-----------------------------------------------------------------------------
(* The updater                                                              *)

At(pc) == run # None /\ run.pc = pc
Go(pc) == run' = [run EXCEPT !.pc = pc]
Undo   == Spend("failure") /\ Go("stop panel")

(* Mutant: any commit of the ref is a target.                               *)
IsSafeAlways == TRUE

(* is_safe_update_target: only a descendant of the checkout.                *)
IsSafe == head <= upstream

(* Mutant: what was checked out last counts as applied.                     *)
AppliedIsHead == head

(* main: the marker.  (Installations that lack it are not modelled.)        *)
AppliedCommit == marker

(* should_update_now: a request, or a schedule whose time of day has come.  *)
Wanted(now) == request \/ (policy # None /\ policy <= now)

(* main up to the backup: a current panel removes the request, another one  *)
(* is updated when that is wanted.                                          *)
Check(now) ==
    /\ run = None /\ IsSafe
    /\ IF upstream = AppliedCommit
       THEN /\ status' = [state |-> "current", latest |-> upstream]
            /\ request' = FALSE
            /\ run' = None
       ELSE /\ status' = [state |-> "available", latest |-> upstream]
            /\ run' = IF Wanted(now)
                      THEN [pc |-> "save binaries", target |-> upstream,
                            previous |-> head, bin |-> None, db |-> None, conf |-> None]
                      ELSE None
            /\ UNCHANGED request
    /\ UNCHANGED <<upstream, installed, data, marker, policy, left, history>>

(* A backup that fails ends the run before anything is changed.             *)
Abort ==
    /\ run # None /\ run.pc \in Saving
    /\ Spend("failure") /\ run' = None
    /\ UNCHANGED <<upstream, installed, data, public, history>>

(* backup_control_binaries, backup_forward_artifacts                        *)
SaveBinaries ==
    /\ At("save binaries")
    /\ run' = [run EXCEPT !.pc = "save database", !.bin = bin]
    /\ UNCHANGED <<upstream, installed, data, public, left, history>>

(* backup_database; the panel goes on.                                      *)
SaveDatabase ==
    /\ At("save database")
    /\ run' = [run EXCEPT !.pc = "save configs", !.db = db]
    /\ UNCHANGED <<upstream, installed, data, public, left, history>>

(* backup_system_configs                                                    *)
SaveConfigs ==
    /\ At("save configs")
    /\ run' = [run EXCEPT !.pc = "check out", !.conf = conf]
    /\ UNCHANGED <<upstream, installed, data, public, left, history>>

CheckOut ==
    /\ At("check out")
    /\ head' = run.target /\ Go("build")
    /\ UNCHANGED <<upstream, release, bin, running, data, public, left, history>>

(* build_target_control_plane                                               *)
Build ==
    /\ At("build")
    /\ \/ release' = All(run.target) /\ Go("install panel") /\ UNCHANGED left
       \/ Undo /\ UNCHANGED release
    /\ UNCHANGED <<upstream, head, bin, running, data, public, history>>

(* deploy/install.sh                                                        *)
InstallPanel ==
    /\ At("install panel")
    /\ \/ /\ bin' = [bin EXCEPT !["panel"] = release["panel"]]
          /\ Go("install helper") /\ UNCHANGED left
       \/ Undo /\ UNCHANGED bin
    /\ UNCHANGED <<upstream, head, release, running, data, public, history>>

InstallHelper ==
    /\ At("install helper")
    /\ \/ /\ bin' = [bin EXCEPT !["helper"] = release["helper"]]
          /\ Go("restart") /\ UNCHANGED left
       \/ Undo /\ UNCHANGED bin
    /\ UNCHANGED <<upstream, head, release, running, data, public, history>>

Restart ==
    /\ At("restart")
    /\ running' = Started(bin, db) /\ db' = Migrated(bin, db)
    /\ Go("wait")
    /\ UNCHANGED <<upstream, head, release, bin, conf, applied, public, left, history>>

(* verify_and_publish_applied_sha: wait_panel_ready, then the marker.       *)
Publish ==
    /\ At("wait")
    /\ \/ /\ running # None /\ Go("finish")
          /\ marker' = run.target /\ torn' = FALSE /\ UNCHANGED left
       \/ running = None /\ Go("stop panel") /\ UNCHANGED <<marker, torn, left>>
       \/ Undo /\ UNCHANGED <<marker, torn>>
    /\ UNCHANGED <<upstream, installed, data, status, policy, request, behind>>

Finish ==
    /\ At("finish")
    /\ request' = FALSE
    /\ status' = [state |-> "current", latest |-> run.target]
    /\ run' = None
    /\ UNCHANGED <<upstream, installed, data, marker, policy, left, history>>

-----------------------------------------------------------------------------
(* The way back                                                             *)

(* restore_update_backup stops the panel, and nothing else.                 *)
StopPanel ==
    /\ At("stop panel")
    /\ running' = None /\ Go("restore configs")
    /\ UNCHANGED <<upstream, head, release, bin, data, public, left, history>>

RestoreConfigs ==
    /\ At("restore configs")
    /\ conf' = run.conf /\ Go("restore database")
    /\ behind' = (behind \/ run.conf # applied.edit)
    /\ UNCHANGED <<upstream, installed, db, applied, public, left, torn>>

(* Mutant: the database is left to the old panel as the new one migrated it.*)
KeepDatabase ==
    /\ At("restore database") /\ Go("check out previous")
    /\ UNCHANGED <<upstream, installed, data, public, left, history>>

RestoreDatabase ==
    /\ At("restore database")
    /\ db' = run.db /\ Go("check out previous")
    /\ behind' = (behind \/ run.db.gen < applied.gen)
    /\ UNCHANGED <<upstream, installed, conf, applied, public, left, torn>>

CheckOutPrevious ==
    /\ At("check out previous")
    /\ head' = run.previous /\ Go("restore binaries")
    /\ UNCHANGED <<upstream, release, bin, running, data, public, left, history>>

(* restore_control_binaries and restore_forward_artifacts, and the previous *)
(* installer, which finds the same binaries in target/release.              *)
RestoreBinaries ==
    /\ At("restore binaries")
    /\ bin' = run.bin /\ release' = run.bin /\ Go("restart previous")
    /\ UNCHANGED <<upstream, head, running, data, public, left, history>>

(* The previous installer restarts the panel, and so does the updater.      *)
RestartPrevious ==
    /\ At("restart previous")
    /\ running' = Started(bin, db) /\ db' = Migrated(bin, db)
    /\ Go("report")
    /\ UNCHANGED <<upstream, head, release, bin, conf, applied, public, left, history>>

Report ==
    /\ At("report")
    /\ status' = [state |-> "failed", latest |-> run.target]
    /\ run' = None
    /\ UNCHANGED <<upstream, installed, data, marker, policy, request, left, history>>

-----------------------------------------------------------------------------
(* The environment                                                          *)

(* The updater is killed; its lock goes with it.                            *)
Kill ==
    /\ run # None /\ Spend("kill")
    /\ run' = None /\ torn' = (torn \/ At("restore binaries"))
    /\ UNCHANGED <<upstream, installed, data, public, behind>>

(* The machine restarts, and with it the service of the panel.              *)
Reboot ==
    /\ Spend("kill")
    /\ run' = None /\ torn' = (torn \/ At("restore binaries"))
    /\ running' = Started(bin, db) /\ db' = Migrated(bin, db)
    /\ UNCHANGED <<upstream, head, release, bin, conf, applied, public, behind>>

(* The ref moves, usually forward.                                          *)
Push ==
    /\ Spend("push")
    /\ upstream' \in Commits \ {upstream}
    /\ UNCHANGED <<installed, data, public, run, history>>

-----------------------------------------------------------------------------
(* Init: commit 0 is installed and runs.                                    *)
Init ==
    /\ upstream = 0 /\ head = 0
    /\ release = All(0) /\ bin = All(0) /\ running = 0
    /\ db = [gen |-> 0, edit |-> 0, schema |-> Schema[0],
             time |-> LastQuarter, notice |-> FALSE]
    /\ conf = 0 /\ applied = [gen |-> 0, edit |-> 0]
    /\ marker = 0
    /\ status = None
    /\ policy = None /\ request = FALSE
    /\ run = None /\ torn = FALSE /\ behind = FALSE
    /\ left \in Limits

Forward ==
    \/ SaveBinaries \/ SaveDatabase \/ SaveConfigs \/ CheckOut \/ Build
    \/ InstallPanel \/ InstallHelper \/ Restart \/ Publish \/ Finish

Back ==
    \/ StopPanel \/ RestoreConfigs \/ RestoreDatabase \/ CheckOutPrevious
    \/ RestoreBinaries \/ RestartPrevious \/ Report

Next ==
    \/ Edit \/ AskUpdate \/ SetAuto \/ RefreshState \/ Reconcile
    \/ \E now \in Minutes : Check(now)
    \/ Abort \/ Forward \/ Back
    \/ Kill \/ Reboot \/ Push

Spec == Init /\ [][Next]_vars

(* The path unit starts the updater for a request, and the timer starts it  *)
(* every fifteen minutes, at 23:45 for the last time of each day: what is   *)
(* due by then is found due again and again.  A run may be late (AccuracySec *)
(* and the fetch come before the clock is read) and meet a later schedule,  *)
(* but none has to.  The updater and the reconciler's own timer go on, and  *)
(* the panel refreshes its state every two hours.                           *)
FairSpec ==
    /\ Spec
    /\ SF_vars(Check(LastQuarter))
    /\ WF_vars(Forward \/ Back)
    /\ WF_vars(Reconcile)
    /\ WF_vars(RefreshState)

-----------------------------------------------------------------------------
(* Properties *)

(* What the status calls current is what is published, checked out and      *)
(* installed, to the last artifact, also after a run that was cut off and a *)
(* ref that moved back.  (When both happen, and the cut is between the      *)
(* checkout of the previous commit and its binaries, the marker is believed *)
(* whatever is installed.)                                                  *)
CurrentIsInstalled ==
    run = None /\ status # None /\ status.state = "current"
        => /\ status.latest = marker /\ marker = head
           /\ torn \/ bin = All(marker)

(* "A failed update must restore previous source/config/DB/control          *)
(* binaries" (wiki/14-TROUBLESHOOTING-AND-REFERENCE.md:215): the checkout   *)
(* and the binaries it found, and a panel that runs on the database, also   *)
(* when an earlier run was cut off on the way forward or back.  (Not when   *)
(* that was between the checkout of the previous commit and its binaries:   *)
(* the newer panel is then what the next run saves, and the database may be *)
(* one that only it can read.)                                              *)
FailedRunsTheOldPanel ==
    [][(At("report") /\ status'.state = "failed" /\ run' = None) =>
          /\ head = run.previous /\ bin = run.bin
          /\ torn \/ (running = bin["panel"] /\ db.schema = Schema[running])]_vars

(* Once pushes, failures and kills are over and the ref is at its newest    *)
(* commit, a panel that was asked to, or is scheduled to by a quarter to    *)
(* midnight, is updated, runs, and announces nothing, wherever earlier runs *)
(* were cut off.  (The form takes 23:46 to 23:59 as well, but no run is     *)
(* sure to find such a schedule due.  A ref that was moved back is refused, *)
(* or leaves a panel stopped that a killed run had stopped.)  And what an   *)
(* administrator changed meanwhile has reached the cores, unless an update  *)
(* that was undone put back what was older than what the reconciler had     *)
(* applied, since applied.json is in no backup: then the cores wait for a   *)
(* generation beyond that one.                                              *)
UpdateConverges ==
    <>[]/\ (request \/ (policy # None /\ policy <= LastQuarter)) /\ upstream = Last =>
             /\ marker = upstream /\ running = upstream /\ bin = All(upstream)
             /\ ~request /\ ~db.notice
        /\ behind \/ (applied.edit = db.edit /\ conf = db.edit)
===============================================================================
