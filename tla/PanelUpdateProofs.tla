-------------------------- MODULE PanelUpdateProofs ---------------------------
(* What TLAPS proves of PanelUpdate, for every history of commits, every    *)
(* course of schemas and any number of failures, kills and pushes.          *)
EXTENDS PanelUpdate, TLAPS

-----------------------------------------------------------------------------
(* Types *)

TypeOK ==
    /\ upstream \in Commits /\ head \in Commits /\ marker \in Commits
    /\ release \in Installations /\ bin \in Installations
    /\ running \in Commits \cup {None}
    /\ db \in Databases /\ conf \in Int
    /\ applied \in [gen : Nat, edit : Int]
    /\ torn \in BOOLEAN
    /\ left \in [Kinds -> Nat]
    /\ run \in Runs \cup {None}

-----------------------------------------------------------------------------
(* The invariant *)

(* A run goes from the checkout it found to one that is not older, and the  *)
(* marker follows only at its end.                                          *)
RunFits ==
    /\ marker <= head
    /\ run # None =>
          /\ status.state = "available"
          /\ run.previous <= run.target
          /\ head = IF run.pc \in Moving \cup Undoing THEN run.target ELSE run.previous
          /\ IF run.pc = "finish" THEN marker = run.target
                                  ELSE marker <= run.previous /\ marker < run.target

(* A current panel is one whose commit is published and checked out.        *)
CurrentIsPublished ==
    status # None /\ status.state = "current" => status.latest = marker /\ marker = head

(* A run knows what it is about to install and what it has installed.       *)
Installs ==
    run # None =>
        /\ run.pc \in {"install panel", "install helper"} => release = All(run.target)
        /\ run.pc = "install helper" => bin["panel"] = run.target
        /\ run.pc \in {"restart", "wait", "finish"} => bin = All(run.target)
        /\ run.pc = "wait" /\ running # None =>
              running = bin["panel"] /\ db.schema = Schema[running]

(* Published and checked out is installed.                                  *)
PublishedIsInstalled ==
    ~torn =>
        /\ head = marker /\ ~At("restore binaries") => bin = All(marker)
        /\ run # None /\ run.pc \notin {"save binaries", "finish"} /\ run.previous = marker
              => run.bin = All(marker)

(* The backup is of the binaries that were installed, ...                   *)
BackupFits ==
    run # None =>
        /\ run.pc # "save binaries" => run.bin \in Installations
        /\ run.pc \notin {"save binaries", "save database"} => run.db \in Databases
        /\ run.pc \notin Saving => run.conf \in Int
        /\ run.pc \in {"save database", "save configs", "check out",
                       "restart previous", "report"} => bin = run.bin

(* ... never newer ones than what is installed, and has a database that     *)
(* they can read; so has the host, unless an older run was torn.            *)
DatabaseIsReadable ==
    ~torn =>
        /\ db.schema <= Schema[bin["panel"]]
        /\ ~At("restore binaries") => bin["panel"] <= head
        /\ run # None /\ run.pc \notin {"save binaries", "finish"} =>
              run.bin["panel"] <= run.previous /\ run.bin["panel"] <= bin["panel"]
        /\ run # None /\ run.pc \notin {"save binaries", "save database", "finish"} =>
              run.db.schema <= Schema[run.bin["panel"]]
        /\ run # None /\ run.pc \in {"check out previous", "restore binaries", "restart previous"}
              => db.schema <= Schema[run.bin["panel"]]
        /\ At("report") => running = bin["panel"] /\ db.schema = Schema[running]

UpdateInv ==
    /\ TypeOK /\ RunFits /\ CurrentIsPublished /\ Installs
    /\ PublishedIsInstalled /\ BackupFits /\ DatabaseIsReadable

(* A step that none of the facts below depends on.                          *)
Quiet ==
    /\ UNCHANGED <<head, release, bin, running, marker, status, run, torn>>
    /\ db'.schema = db.schema

(* A step to the next place of a run changes nothing else of the run.       *)
LEMMA GoStep ==
    ASSUME run \in Runs, NEW pc \in Steps, Go(pc)
    PROVE  /\ run' \in Runs /\ run'.pc = pc
           /\ run'.target = run.target /\ run'.previous = run.previous
           /\ run'.bin = run.bin /\ run'.db = run.db /\ run'.conf = run.conf
BY DEF Go, Runs

(* A spent event leaves a budget of numbers.                                *)
LEMMA SpendStep ==
    ASSUME left \in [Kinds -> Nat], NEW kind \in Kinds, Spend(kind)
    PROVE  left' \in [Kinds -> Nat]
BY DEF Spend

LEMMA CommitsAreNumbers == \A c \in Commits : c \in Int
BY DEF Commits

(* Order of numbers, stated apart from the structures they are read from.   *)
LEMMA Order == \A a, b, c \in Int : a <= a /\ (a <= b /\ b <= c => a <= c)
OBVIOUS

LEMMA EditedDatabase ==
    ASSUME NEW d \in Databases, NEW e \in Int
    PROVE  [d EXCEPT !.gen = @ + 1, !.edit = e] \in Databases
<1> DEFINE later == [d EXCEPT !.gen = @ + 1]
<1>1. later \in Databases BY DEF Databases
<1> HIDE DEF later
<1>2. [later EXCEPT !.edit = e] \in Databases BY <1>1 DEF Databases
<1> QED BY <1>2 DEF later

LEMMA RunFields ==
    ASSUME run \in Runs
    PROVE  run.pc \in Steps /\ run.target \in Commits /\ run.previous \in Commits
BY DEF Runs

(* Schemas are numbers, and never go back.                                  *)
LEMMA SchemaGrows ==
    /\ \A c \in Commits : Schema[c] \in Nat /\ Schema[c] \in Int
    /\ \A c, d \in Commits : c <= d => Schema[c] <= Schema[d]
BY PanelUpdateAssumption

LEMMA PanelNumbers ==
    /\ \A b \in Installations :
          b["panel"] \in Commits /\ b["panel"] \in Int /\ Schema[b["panel"]] \in Int
    /\ \A d \in Databases : d.schema \in Int
BY SchemaGrows, CommitsAreNumbers DEF Installations, Artifacts, Databases

(* What a started panel leaves.                                             *)
LEMMA StartStep ==
    ASSUME NEW b \in Installations, NEW d \in Databases
    PROVE  /\ Migrated(b, d) \in Databases /\ Started(b, d) \in Commits \cup {None}
           /\ Started(b, d) # None
                 => Started(b, d) = b["panel"] /\ Migrated(b, d).schema = Schema[b["panel"]]
           /\ Migrated(b, d).schema <= Schema[b["panel"]] <=> d.schema <= Schema[b["panel"]]
           /\ d.schema <= Schema[b["panel"]]
                 => Started(b, d) = b["panel"] /\ Migrated(b, d).schema = Schema[b["panel"]]
<1>1. b["panel"] \in Commits /\ Schema[b["panel"]] \in Nat
    BY SchemaGrows DEF Installations, Artifacts
<1>2. CASE Starts(b, d)
    <2> DEFINE s == Schema[b["panel"]]
    <2>1. Started(b, d) = b["panel"] /\ Migrated(b, d) = [d EXCEPT !.schema = s]
        BY <1>2 DEF Started, Migrated
    <2>2. s \in Nat BY <1>1
    <2> HIDE DEF s
    <2>3. Migrated(b, d) \in Databases /\ Migrated(b, d).schema = s
        BY <2>1, <2>2 DEF Databases
    <2>4. d.schema <= s BY <1>2 DEF s, Starts
    <2> QED BY <1>1, <2>1, <2>2, <2>3, <2>4 DEF s
<1>3. CASE ~Starts(b, d)
    BY <1>1, <1>3, PanelUpdateAssumption DEF Starts, Started, Migrated, Databases
<1> QED BY <1>2, <1>3

LEMMA QuietStep ==
    ASSUME TypeOK, [Edit \/ AskUpdate \/ SetAuto \/ RefreshState \/ Reconcile \/ Push]_vars
    PROVE  Quiet
<1> USE DEF Quiet, TypeOK, installed, public, history
<1>1. CASE Edit                 BY <1>1 DEF Edit, Databases
<1>2. CASE AskUpdate            BY <1>2 DEF AskUpdate, data
<1>3. CASE SetAuto              BY <1>3 DEF SetAuto, Databases
<1>4. CASE RefreshState         BY <1>4 DEF RefreshState, Databases
<1>5. CASE Reconcile            BY <1>5 DEF Reconcile
<1>6. CASE Push                 BY <1>6 DEF Push, data
<1>7. CASE UNCHANGED vars       BY <1>7 DEF vars, data
<1> QED BY <1>1, <1>2, <1>3, <1>4, <1>5, <1>6, <1>7

LEMMA TypeStep == ASSUME TypeOK, BackupFits, [Next]_vars PROVE TypeOK'
<1> USE DEF TypeOK, installed, data, public, history
<1>1. CASE Edit
    <2>1. left' \in [Kinds -> Nat] BY <1>1, SpendStep DEF Edit, Kinds
    <2>2. left["edit"] \in Int BY DEF Kinds
    <2>3. db' = [db EXCEPT !.gen = @ + 1, !.edit = left["edit"]] BY <1>1 DEF Edit
    <2>4. db' \in Databases BY <2>2, <2>3, EditedDatabase
    <2> QED BY <1>1, <2>1, <2>4 DEF Edit
<1>2. CASE AskUpdate
    BY <1>2, SpendStep DEF AskUpdate, Kinds
<1>3. CASE SetAuto
    <2>1. left' \in [Kinds -> Nat] BY <1>3, SpendStep DEF SetAuto, Kinds
    <2>2. db' \in Databases BY <1>3 DEF SetAuto, Databases
    <2> QED BY <1>3, <2>1, <2>2 DEF SetAuto
<1>4. CASE RefreshState
    <2>1. db' \in Databases BY <1>4 DEF RefreshState, Databases
    <2> QED BY <1>4, <2>1 DEF RefreshState
<1>5. CASE Reconcile
    BY <1>5 DEF Reconcile, Databases
<1>6. ASSUME NEW now \in Minutes, Check(now) PROVE TypeOK'
    <2> DEFINE new == [pc |-> "save binaries", target |-> upstream, previous |-> head,
                       bin |-> None, db |-> None, conf |-> None]
    <2>1. new \in Runs BY DEF Runs, Steps, Saving
    <2>2. run' \in {new, None} BY <1>6 DEF Check
    <2> QED BY <1>6, <2>1, <2>2 DEF Check
<1>7. CASE Abort
    <2>1. left' \in [Kinds -> Nat] BY <1>7, SpendStep DEF Abort, Kinds
    <2> QED BY <1>7, <2>1 DEF Abort
<1>8. CASE SaveBinaries
    <2>1. run' \in Runs BY <1>8 DEF SaveBinaries, At, Runs, Steps, Saving
    <2> QED BY <1>8, <2>1 DEF SaveBinaries
<1>9. CASE SaveDatabase
    <2>1. run' \in Runs BY <1>9 DEF SaveDatabase, At, Runs, Steps, Saving
    <2> QED BY <1>9, <2>1 DEF SaveDatabase
<1>10. CASE SaveConfigs
    <2>1. run' \in Runs BY <1>10 DEF SaveConfigs, At, Runs, Steps, Saving
    <2> QED BY <1>10, <2>1 DEF SaveConfigs
<1>11. CASE CheckOut
    <2>1. run' \in Runs /\ run.target \in Commits
        BY <1>11, GoStep DEF CheckOut, At, Runs, Steps, Moving
    <2> QED BY <1>11, <2>1 DEF CheckOut
<1>12. CASE Build
    <2>1. run \in Runs BY <1>12 DEF Build, At
    <2>2. run' \in Runs BY <1>12, <2>1, GoStep DEF Build, Undo, Steps, Moving, Undoing
    <2>3. release' \in Installations
        BY <1>12, <2>1 DEF Build, Runs, All, Installations
    <2>4. left' \in [Kinds -> Nat] BY <1>12, SpendStep DEF Build, Undo, Kinds
    <2> QED BY <1>12, <2>2, <2>3, <2>4 DEF Build
<1>13. CASE InstallPanel
    <2>1. run' \in Runs BY <1>13, GoStep DEF InstallPanel, At, Undo, Steps, Moving, Undoing
    <2>2. bin' \in Installations
        BY <1>13 DEF InstallPanel, Installations, Artifacts
    <2>3. left' \in [Kinds -> Nat] BY <1>13, SpendStep DEF InstallPanel, Undo, Kinds
    <2> QED BY <1>13, <2>1, <2>2, <2>3 DEF InstallPanel
<1>14. CASE InstallHelper
    <2>1. run' \in Runs BY <1>14, GoStep DEF InstallHelper, At, Undo, Steps, Moving, Undoing
    <2>2. bin' \in Installations
        BY <1>14 DEF InstallHelper, Installations, Artifacts
    <2>3. left' \in [Kinds -> Nat] BY <1>14, SpendStep DEF InstallHelper, Undo, Kinds
    <2> QED BY <1>14, <2>1, <2>2, <2>3 DEF InstallHelper
<1>15. CASE Restart
    <2>1. run' \in Runs BY <1>15, GoStep DEF Restart, At, Steps, Moving
    <2> QED BY <1>15, <2>1, StartStep DEF Restart
<1>16. CASE Publish
    <2>1. run' \in Runs /\ run.target \in Commits
        BY <1>16, GoStep DEF Publish, At, Undo, Steps, Moving, Undoing, Runs
    <2>2. left' \in [Kinds -> Nat] BY <1>16, SpendStep DEF Publish, Undo, Kinds
    <2>3. marker' \in Commits /\ torn' \in BOOLEAN BY <1>16, <2>1 DEF Publish
    <2> QED BY <1>16, <2>1, <2>2, <2>3 DEF Publish
<1>17. CASE Finish
    BY <1>17 DEF Finish
<1>18. CASE StopPanel
    <2>1. run' \in Runs BY <1>18, GoStep DEF StopPanel, At, Steps, Undoing
    <2> QED BY <1>18, <2>1 DEF StopPanel
<1>19. CASE RestoreConfigs
    <2>1. run' \in Runs BY <1>19, GoStep DEF RestoreConfigs, At, Steps, Undoing
    <2> QED BY <1>19, <2>1 DEF RestoreConfigs, BackupFits, At, Saving
<1>20. CASE RestoreDatabase
    <2>1. run' \in Runs BY <1>20, GoStep DEF RestoreDatabase, At, Steps, Undoing
    <2> QED BY <1>20, <2>1 DEF RestoreDatabase, BackupFits, At
<1>21. CASE CheckOutPrevious
    <2>1. run' \in Runs /\ run.previous \in Commits
        BY <1>21, GoStep DEF CheckOutPrevious, At, Runs, Steps, Returned
    <2> QED BY <1>21, <2>1 DEF CheckOutPrevious
<1>22. CASE RestoreBinaries
    <2>1. run' \in Runs BY <1>22, GoStep DEF RestoreBinaries, At, Steps, Returned
    <2> QED BY <1>22, <2>1 DEF RestoreBinaries, BackupFits, At
<1>23. CASE RestartPrevious
    <2>1. run' \in Runs BY <1>23, GoStep DEF RestartPrevious, At, Steps, Returned
    <2> QED BY <1>23, <2>1, StartStep DEF RestartPrevious
<1>24. CASE Report
    BY <1>24 DEF Report
<1>25. CASE Kill
    <2>1. left' \in [Kinds -> Nat] BY <1>25, SpendStep DEF Kill, Kinds
    <2>2. torn' \in BOOLEAN BY <1>25 DEF Kill, At
    <2> QED BY <1>25, <2>1, <2>2 DEF Kill
<1>26. CASE Reboot
    <2>1. left' \in [Kinds -> Nat] BY <1>26, SpendStep DEF Reboot, Kinds
    <2>2. torn' \in BOOLEAN BY <1>26 DEF Reboot, At
    <2> QED BY <1>26, <2>1, <2>2, StartStep DEF Reboot
<1>27. CASE Push
    <2>1. left' \in [Kinds -> Nat] BY <1>27, SpendStep DEF Push, Kinds
    <2> QED BY <1>27, <2>1 DEF Push
<1>28. CASE UNCHANGED vars
    BY <1>28 DEF vars
<1> QED BY <1>1, <1>2, <1>3, <1>4, <1>5, <1>6, <1>7, <1>8, <1>9, <1>10, <1>11, <1>12, <1>13,
          <1>14, <1>15, <1>16, <1>17, <1>18, <1>19, <1>20, <1>21, <1>22, <1>23, <1>24, <1>25,
          <1>26, <1>27, <1>28 DEF Next, Forward, Back

LEMMA QuietKeeps ==
    ASSUME UpdateInv, Quiet
    PROVE  /\ RunFits' /\ CurrentIsPublished' /\ Installs'
           /\ PublishedIsInstalled' /\ BackupFits' /\ DatabaseIsReadable'
<1> USE DEF UpdateInv, Quiet, At
<1>1. RunFits'              BY DEF RunFits
<1>2. CurrentIsPublished'   BY DEF CurrentIsPublished
<1>3. Installs'             BY DEF Installs, All
<1>4. PublishedIsInstalled' BY DEF PublishedIsInstalled, All
<1>5. BackupFits'           BY DEF BackupFits
<1>6. DatabaseIsReadable'   BY DEF DatabaseIsReadable
<1> QED BY <1>1, <1>2, <1>3, <1>4, <1>5, <1>6

LEMMA RunStep ==
    ASSUME UpdateInv, [Next]_vars
    PROVE  RunFits'
<1> USE CommitsAreNumbers DEF UpdateInv, TypeOK, RunFits, installed, public
<1>1. ASSUME NEW now \in Minutes, Check(now) PROVE RunFits'
    <2>1. run = None /\ head <= upstream /\ UNCHANGED <<head, marker>>
        BY <1>1 DEF Check, IsSafe
    <2>2. CASE upstream = marker
        BY <1>1, <2>1, <2>2 DEF Check, AppliedCommit
    <2>3. CASE upstream # marker
        <3> DEFINE new == [pc |-> "save binaries", target |-> upstream, previous |-> head,
                           bin |-> None, db |-> None, conf |-> None]
        <3>1. run' \in {new, None} /\ status' = [state |-> "available", latest |-> upstream]
            BY <1>1, <2>3 DEF Check, AppliedCommit
        <3>2. new.pc = "save binaries" /\ new.target = upstream /\ new.previous = head
            OBVIOUS
        <3>3. status'.state = "available" BY <3>1
        <3>4. marker <= head /\ marker < upstream BY <2>1, <2>3
        <3>5. new.pc \notin Moving \cup Undoing BY <3>2 DEF Moving, Undoing
        <3> HIDE DEF new
        <3> QED BY <2>1, <3>1, <3>2, <3>3, <3>4, <3>5
    <2> QED BY <2>2, <2>3
<1>2. CASE Abort \/ Kill \/ Reboot
    BY <1>2 DEF Abort, Kill, Reboot
<1>3. CASE SaveBinaries \/ SaveDatabase \/ SaveConfigs
    BY <1>3 DEF SaveBinaries, SaveDatabase, SaveConfigs, At, Runs, Moving, Undoing
<1>4. CASE CheckOut
    <2>1. run # None /\ run \in Runs /\ run.pc = "check out" BY <1>4 DEF CheckOut, At
    <2>2. run'.pc = "build" /\ run'.target = run.target /\ run'.previous = run.previous
        BY <1>4, <2>1 DEF CheckOut, Go, Runs
    <2>3. run.target \in Commits /\ run.previous \in Commits BY <2>1, RunFields
    <2>4. marker <= run.previous /\ marker < run.target /\ run.previous <= run.target
        BY <2>1
    <2>5. marker <= run.target BY <2>3, <2>4
    <2>6. head' = run.target /\ UNCHANGED <<marker, status>> BY <1>4 DEF CheckOut
    <2>7. run'.pc \in Moving /\ run'.pc # "finish" BY <2>2 DEF Moving
    <2>8. status.state = "available" BY <2>1
    <2> HIDE DEF TypeOK
    <2> QED BY <2>2, <2>4, <2>5, <2>6, <2>7, <2>8
<1>5. CASE Build \/ InstallPanel \/ InstallHelper \/ Restart
    BY <1>5 DEF Build, InstallPanel, InstallHelper, Restart, Undo, At, Go, Runs, Moving, Undoing
<1>6. CASE Publish
    <2>1. run # None /\ run \in Runs /\ run.pc = "wait" BY <1>6 DEF Publish, At
    <2>2. CASE marker' = run.target /\ Go("finish")
        <3>1. run'.pc = "finish" /\ run'.target = run.target /\ run'.previous = run.previous
            BY <2>1, <2>2, GoStep DEF Steps, Moving
        <3>2. run.target \in Commits /\ run.previous <= run.target /\ head = run.target
            BY <2>1, RunFields DEF Moving
        <3>3. run'.pc \in Moving BY <3>1 DEF Moving
        <3>4. marker' = run.target /\ UNCHANGED <<head, status>> BY <1>6, <2>2 DEF Publish
        <3>5. status.state = "available" BY <2>1
        <3>6. marker' <= head' BY <3>2, <3>4
        <3> HIDE DEF TypeOK
        <3> QED BY <3>1, <3>2, <3>3, <3>4, <3>5, <3>6
    <2>3. CASE UNCHANGED marker /\ Go("stop panel")
        <3>1. run'.pc = "stop panel" /\ run'.target = run.target /\ run'.previous = run.previous
            BY <2>1, <2>3, GoStep DEF Steps, Undoing
        <3>2. UNCHANGED <<head, marker, status>> BY <1>6, <2>3 DEF Publish
        <3>3. run.pc \in Moving /\ run'.pc \in Undoing /\ run'.pc # "finish"
            BY <2>1, <3>1 DEF Moving, Undoing
        <3> HIDE DEF TypeOK
        <3> QED BY <2>1, <3>1, <3>2, <3>3
    <2> QED BY <1>6, <2>2, <2>3 DEF Publish, Undo
<1>7. CASE Finish \/ Report
    BY <1>7 DEF Finish, Report, At, Runs, Moving, Undoing
<1>8. CASE StopPanel \/ RestoreConfigs \/ RestoreDatabase
    BY <1>8 DEF StopPanel, RestoreConfigs, RestoreDatabase, At, Go, Runs, Moving, Undoing
<1>9. CASE CheckOutPrevious
    BY <1>9 DEF CheckOutPrevious, At, Go, Runs, Moving, Undoing
<1>10. CASE RestoreBinaries \/ RestartPrevious
    BY <1>10 DEF RestoreBinaries, RestartPrevious, At, Go, Runs, Moving, Undoing
<1>11. CASE [Edit \/ AskUpdate \/ SetAuto \/ RefreshState \/ Reconcile \/ Push]_vars
    BY <1>11, QuietStep, QuietKeeps
<1> QED BY <1>1, <1>2, <1>3, <1>4, <1>5, <1>6, <1>7, <1>8, <1>9, <1>10, <1>11 DEF Next, Forward, Back

LEMMA PublishedStep ==
    ASSUME UpdateInv, [Next]_vars
    PROVE  CurrentIsPublished'
<1> USE DEF UpdateInv, CurrentIsPublished, RunFits, installed, public
<1>1. ASSUME NEW now \in Minutes, Check(now) PROVE CurrentIsPublished'
    <2>1. head <= upstream /\ marker <= head /\ UNCHANGED <<head, marker>>
        BY <1>1 DEF Check, IsSafe
    <2>2. CASE upstream = marker
        <3>1. status' = [state |-> "current", latest |-> upstream]
            BY <1>1, <2>2 DEF Check, AppliedCommit
        <3>2. marker = head BY <2>1, <2>2 DEF TypeOK, Commits
        <3> QED BY <2>1, <2>2, <3>1, <3>2
    <2>3. CASE upstream # marker
        <3>1. status' = [state |-> "available", latest |-> upstream]
            BY <1>1, <2>3 DEF Check, AppliedCommit
        <3> QED BY <3>1
    <2> QED BY <2>2, <2>3
<1>2. CASE Abort \/ Kill \/ Reboot
    BY <1>2 DEF Abort, Kill, Reboot
<1>3. CASE SaveBinaries \/ SaveDatabase \/ SaveConfigs
    BY <1>3 DEF SaveBinaries, SaveDatabase, SaveConfigs
<1>4. CASE CheckOut \/ Build \/ InstallPanel \/ InstallHelper \/ Restart \/ Publish
    BY <1>4 DEF CheckOut, Build, InstallPanel, InstallHelper, Restart, Publish, At
<1>5. CASE Finish
    BY <1>5 DEF Finish, At, Moving
<1>6. CASE StopPanel \/ RestoreConfigs \/ RestoreDatabase \/ CheckOutPrevious
    BY <1>6 DEF StopPanel, RestoreConfigs, RestoreDatabase, CheckOutPrevious, At
<1>7. CASE RestoreBinaries \/ RestartPrevious \/ Report
    <2>1. CASE Report
        <3>1. status' = [state |-> "failed", latest |-> run.target] BY <2>1 DEF Report
        <3> QED BY <3>1
    <2>2. CASE RestoreBinaries \/ RestartPrevious
        BY <2>2 DEF RestoreBinaries, RestartPrevious
    <2> QED BY <1>7, <2>1, <2>2
<1>8. CASE [Edit \/ AskUpdate \/ SetAuto \/ RefreshState \/ Reconcile \/ Push]_vars
    BY <1>8, QuietStep, QuietKeeps
<1> QED BY <1>1, <1>2, <1>3, <1>4, <1>5, <1>6, <1>7, <1>8 DEF Next, Forward, Back

(* A run is about a commit that is not yet published.                       *)
LEMMA TargetIsNew ==
    ASSUME TypeOK, RunFits, run # None, run.pc # "finish"
    PROVE  marker # run.target
<1>1. run.target \in Int /\ marker \in Int
    BY RunFields, CommitsAreNumbers DEF TypeOK
<1>2. marker < run.target BY DEF RunFits
<1> QED BY <1>1, <1>2

(* A failure leads to the way back.                                         *)
LEMMA UndoStep ==
    ASSUME run \in Runs, Undo
    PROVE  /\ run' \in Runs /\ run'.pc = "stop panel"
           /\ run'.target = run.target /\ run'.previous = run.previous
           /\ run'.bin = run.bin /\ run'.db = run.db /\ run'.conf = run.conf
BY GoStep DEF Undo, Steps, Undoing

LEMMA InstallsStep ==
    ASSUME UpdateInv, [Next]_vars
    PROVE  Installs'
<1> USE DEF UpdateInv, Installs, installed
<1>1. ASSUME NEW now \in Minutes, Check(now) PROVE Installs'
    <2> DEFINE new == [pc |-> "save binaries", target |-> upstream, previous |-> head,
                       bin |-> None, db |-> None, conf |-> None]
    <2>1. run' \in {new, None} BY <1>1 DEF Check
    <2>2. new.pc = "save binaries" OBVIOUS
    <2> HIDE DEF new
    <2> QED BY <2>1, <2>2
<1>2. CASE Abort \/ Finish \/ Report \/ Kill \/ Reboot
    BY <1>2 DEF Abort, Finish, Report, Kill, Reboot
<1>3. CASE SaveBinaries \/ SaveDatabase \/ SaveConfigs
    BY <1>3 DEF SaveBinaries, SaveDatabase, SaveConfigs, At, TypeOK, Runs
<1>4. CASE CheckOut
    <2>1. run # None /\ run \in Runs BY <1>4 DEF CheckOut, At, TypeOK
    <2>2. run'.pc = "build" BY <1>4, <2>1, GoStep DEF CheckOut, Steps, Moving
    <2> QED BY <2>2
<1>5. CASE Build
    <2>1. run # None /\ run \in Runs BY <1>5 DEF Build, At, TypeOK
    <2>2. CASE release' = All(run.target) /\ Go("install panel")
        <3>1. run'.pc = "install panel" /\ run'.target = run.target
            BY <2>1, <2>2, GoStep DEF Steps, Moving
        <3> QED BY <2>2, <3>1 DEF All
    <2>3. CASE Undo
        <3>1. run'.pc = "stop panel" BY <2>1, <2>3, UndoStep
        <3> QED BY <3>1
    <2> QED BY <1>5, <2>2, <2>3 DEF Build
<1>6. CASE InstallPanel
    <2>1. /\ run # None /\ run \in Runs /\ release = All(run.target) /\ release' = release
          /\ bin \in Installations
        BY <1>6 DEF InstallPanel, At, TypeOK
    <2>2. CASE bin' = [bin EXCEPT !["panel"] = release["panel"]] /\ Go("install helper")
        <3>1. bin'["panel"] = run.target
            BY <2>1, <2>2 DEF Installations, Artifacts, All
        <3>2. run'.pc = "install helper" /\ run'.target = run.target
            BY <2>1, <2>2, GoStep DEF Steps, Moving
        <3> QED BY <2>1, <3>1, <3>2 DEF All
    <2>3. CASE Undo
        <3>1. run'.pc = "stop panel" BY <2>1, <2>3, UndoStep
        <3> QED BY <3>1
    <2> QED BY <1>6, <2>2, <2>3 DEF InstallPanel
<1>7. CASE InstallHelper
    <2>1. /\ run # None /\ run \in Runs /\ release = All(run.target) /\ bin["panel"] = run.target
          /\ bin \in Installations
        BY <1>7 DEF InstallHelper, At, TypeOK
    <2>2. CASE bin' = [bin EXCEPT !["helper"] = release["helper"]] /\ Go("restart")
        <3>1. bin' = All(run.target)
            BY <2>1, <2>2 DEF Installations, Artifacts, All
        <3>2. run'.pc = "restart" /\ run'.target = run.target
            BY <2>1, <2>2, GoStep DEF Steps, Moving
        <3> QED BY <3>1, <3>2 DEF All
    <2>3. CASE Undo
        <3>1. run'.pc = "stop panel" BY <2>1, <2>3, UndoStep
        <3> QED BY <3>1
    <2> QED BY <1>7, <2>2, <2>3 DEF InstallHelper
<1>8. CASE Restart
    <2>1. /\ run # None /\ run \in Runs /\ bin = All(run.target) /\ bin' = bin
          /\ bin \in Installations /\ db \in Databases
        BY <1>8 DEF Restart, At, TypeOK
    <2>2. run'.pc = "wait" /\ run'.target = run.target
        BY <1>8, <2>1, GoStep DEF Restart, Steps, Moving
    <2>3. running' # None => running' = bin["panel"] /\ db'.schema = Schema[bin["panel"]]
        BY <1>8, <2>1, StartStep DEF Restart
    <2> QED BY <2>1, <2>2, <2>3 DEF All
<1>9. CASE Publish
    <2>1. run # None /\ run \in Runs /\ bin = All(run.target) /\ bin' = bin
        BY <1>9 DEF Publish, At, TypeOK
    <2>2. run'.pc \in {"finish", "stop panel"} /\ run'.target = run.target
        BY <1>9, <2>1, GoStep DEF Publish, Undo, Steps, Moving, Undoing
    <2> QED BY <2>1, <2>2 DEF All
<1>10. CASE StopPanel \/ RestoreConfigs \/ RestoreDatabase
    <2>1. run # None /\ run \in Runs
        BY <1>10 DEF StopPanel, RestoreConfigs, RestoreDatabase, At, TypeOK
    <2>2. run'.pc \in {"restore configs", "restore database", "check out previous"}
        BY <1>10, <2>1, GoStep DEF StopPanel, RestoreConfigs, RestoreDatabase, Steps, Undoing
    <2> QED BY <2>2
<1>11. CASE CheckOutPrevious \/ RestoreBinaries \/ RestartPrevious
    <2>1. run # None /\ run \in Runs
        BY <1>11 DEF CheckOutPrevious, RestoreBinaries, RestartPrevious, At, TypeOK
    <2>2. run'.pc \in Returned
        BY <1>11, <2>1, GoStep DEF CheckOutPrevious, RestoreBinaries, RestartPrevious, Steps, Returned
    <2> QED BY <2>2 DEF Returned
<1>12. CASE [Edit \/ AskUpdate \/ SetAuto \/ RefreshState \/ Reconcile \/ Push]_vars
    BY <1>12, QuietStep, QuietKeeps
<1> QED BY <1>1, <1>2, <1>3, <1>4, <1>5, <1>6, <1>7, <1>8, <1>9, <1>10, <1>11, <1>12
        DEF Next, Forward, Back

LEMMA InstalledStep ==
    ASSUME UpdateInv, [Next]_vars
    PROVE  PublishedIsInstalled'
<1> USE DEF UpdateInv, PublishedIsInstalled, installed, public, history, At
<1>1. ASSUME NEW now \in Minutes, Check(now) PROVE PublishedIsInstalled'
    <2> DEFINE new == [pc |-> "save binaries", target |-> upstream, previous |-> head,
                       bin |-> None, db |-> None, conf |-> None]
    <2>1. /\ run = None /\ run' \in {new, None}
          /\ UNCHANGED <<head, bin, marker, torn>>
        BY <1>1 DEF Check
    <2>2. new.pc = "save binaries" OBVIOUS
    <2> HIDE DEF new
    <2> QED BY <2>1, <2>2 DEF All
<1>2. CASE Abort \/ Finish \/ Report \/ Kill \/ Reboot
    <2>1. /\ UNCHANGED <<head, bin, marker>> /\ run' = None
          /\ torn' \/ (~torn /\ ~At("restore binaries"))
        <3>1. CASE Abort \/ Finish \/ Report
            <4>1. UNCHANGED <<head, bin, marker, torn>> /\ run' = None
                BY <3>1 DEF Abort, Finish, Report
            <4>2. ~At("restore binaries") BY <3>1 DEF Abort, Finish, Report, Saving
            <4> QED BY <4>1, <4>2 DEF TypeOK
        <3>2. CASE Kill \/ Reboot
            <4>1. /\ UNCHANGED <<head, bin, marker>> /\ run' = None
                  /\ torn' = (torn \/ At("restore binaries"))
                BY <3>2 DEF Kill, Reboot
            <4> QED BY <4>1 DEF TypeOK
        <3> QED BY <1>2, <3>1, <3>2
    <2> QED BY <2>1 DEF All
<1>3. CASE SaveBinaries
    <2>1. run # None /\ run \in Runs /\ UNCHANGED <<head, bin, marker, torn>>
        BY <1>3 DEF SaveBinaries, TypeOK
    <2>2. run'.previous = run.previous /\ run'.bin = bin /\ run'.pc = "save database"
        BY <1>3, <2>1 DEF SaveBinaries, Runs
    <2>3. head = run.previous
        BY <1>3 DEF SaveBinaries, RunFits, Moving, Undoing
    <2>4. run.pc = "save binaries" BY <1>3 DEF SaveBinaries
    <2> QED BY <2>1, <2>2, <2>3, <2>4 DEF All
<1>4. CASE SaveDatabase \/ SaveConfigs
    <2>1. run # None /\ run \in Runs /\ UNCHANGED <<head, bin, marker, torn>>
        BY <1>4 DEF SaveDatabase, SaveConfigs, TypeOK
    <2>2. run'.previous = run.previous /\ run'.bin = run.bin /\ run'.pc \in {"save configs", "check out"}
        BY <1>4, <2>1 DEF SaveDatabase, SaveConfigs, Runs
    <2>3. run.pc \in {"save database", "save configs"} BY <1>4 DEF SaveDatabase, SaveConfigs
    <2> QED BY <2>1, <2>2, <2>3 DEF All
<1>5. CASE CheckOut
    <2>1. run # None /\ run \in Runs /\ run.pc = "check out" /\ UNCHANGED <<bin, marker, torn>>
        BY <1>5 DEF CheckOut, TypeOK
    <2>2. run'.previous = run.previous /\ run'.bin = run.bin /\ run'.pc = "build"
        BY <1>5, <2>1, GoStep DEF CheckOut, Steps, Moving
    <2>3. head' = run.target BY <1>5 DEF CheckOut
    <2>4. marker # run.target
        BY <2>1, TargetIsNew
    <2> QED BY <2>1, <2>2, <2>3, <2>4 DEF All
<1>6. CASE Build \/ InstallPanel \/ InstallHelper \/ Restart \/ StopPanel \/ RestoreConfigs \/ RestoreDatabase
    <2>1. /\ run # None /\ run \in Runs /\ UNCHANGED <<head, marker, torn>>
          /\ run.pc \in (Moving \cup Undoing) \ {"wait", "finish"}
        BY <1>6 DEF Build, InstallPanel, InstallHelper, Restart, StopPanel, RestoreConfigs,
                    RestoreDatabase, TypeOK, Moving, Undoing
    <2>2. /\ run'.previous = run.previous /\ run'.bin = run.bin
          /\ run'.pc \notin {"save binaries", "finish"}
        <3>1. CASE Undo
            BY <2>1, <3>1, UndoStep
        <3>2. ASSUME NEW pc \in (Moving \cup Undoing) \ {"finish"}, Go(pc)
              PROVE  /\ run'.previous = run.previous /\ run'.bin = run.bin
                     /\ run'.pc \notin {"save binaries", "finish"}
            BY <2>1, <3>2, GoStep DEF Steps, Moving, Undoing
        <3>3. Undo \/ \E pc \in (Moving \cup Undoing) \ {"finish"} : Go(pc)
            BY <1>6 DEF Build, InstallPanel, InstallHelper, Restart, StopPanel,
               RestoreConfigs, RestoreDatabase, Moving, Undoing
        <3> QED BY <3>1, <3>2, <3>3
    <2>3. head = run.target /\ run.pc \notin {"save binaries", "finish"}
        BY <2>1 DEF RunFits, Moving, Undoing
    <2>4. head # marker BY <2>1, <2>3, TargetIsNew
    <2> QED BY <2>1, <2>2, <2>3, <2>4 DEF All
<1>7. CASE Publish
    <2>1. /\ run # None /\ run \in Runs /\ run.pc = "wait" /\ bin = All(run.target)
          /\ UNCHANGED <<head, bin>>
        BY <1>7 DEF Publish, TypeOK, Installs
    <2>2. CASE Go("finish") /\ marker' = run.target
        BY <2>1, <2>2, GoStep DEF Steps, Moving, All
    <2>3. CASE Go("stop panel") /\ UNCHANGED <<marker, torn>>
        <3>1. /\ run'.previous = run.previous /\ run'.bin = run.bin /\ run'.pc = "stop panel"
            BY <2>1, <2>3, GoStep DEF Steps, Undoing
        <3> QED BY <2>1, <2>3, <3>1 DEF All
    <2> QED BY <1>7, <2>2, <2>3 DEF Publish, Undo
<1>8. CASE CheckOutPrevious
    <2>1. /\ run # None /\ run \in Runs /\ run.pc = "check out previous"
          /\ UNCHANGED <<bin, marker, torn>>
        BY <1>8 DEF CheckOutPrevious, TypeOK
    <2>2. run'.previous = run.previous /\ run'.bin = run.bin /\ run'.pc = "restore binaries"
        BY <1>8, <2>1, GoStep DEF CheckOutPrevious, Steps, Returned
    <2>3. run' # None BY <1>8, <2>1, GoStep, NoneIsNoRun DEF CheckOutPrevious, Steps, Returned
    <2> QED BY <2>1, <2>2, <2>3 DEF All
<1>9. CASE RestoreBinaries
    <2>1. /\ run # None /\ run \in Runs /\ run.pc = "restore binaries" /\ bin' = run.bin
          /\ UNCHANGED <<head, marker, torn>>
        BY <1>9 DEF RestoreBinaries, TypeOK
    <2>2. run'.previous = run.previous /\ run'.bin = run.bin /\ run'.pc = "restart previous"
        BY <1>9, <2>1, GoStep DEF RestoreBinaries, Steps, Returned
    <2>3. head = run.previous BY <2>1 DEF RunFits, Moving, Undoing
    <2> QED BY <2>1, <2>2, <2>3 DEF All
<1>10. CASE RestartPrevious
    <2>1. /\ run # None /\ run \in Runs /\ run.pc = "restart previous"
          /\ UNCHANGED <<head, bin, marker, torn>>
        BY <1>10 DEF RestartPrevious, TypeOK
    <2>2. run'.previous = run.previous /\ run'.bin = run.bin /\ run'.pc = "report"
        BY <1>10, <2>1, GoStep DEF RestartPrevious, Steps, Returned
    <2> QED BY <2>1, <2>2 DEF All
<1>11. CASE [Edit \/ AskUpdate \/ SetAuto \/ RefreshState \/ Reconcile \/ Push]_vars
    BY <1>11, QuietStep, QuietKeeps
<1> QED BY <1>1, <1>2, <1>3, <1>4, <1>5, <1>6, <1>7, <1>8, <1>9, <1>10, <1>11 DEF Next, Forward, Back

LEMMA BackupStep ==
    ASSUME UpdateInv, [Next]_vars
    PROVE  BackupFits'
<1> USE DEF UpdateInv, BackupFits, installed, At
<1>1. ASSUME NEW now \in Minutes, Check(now) PROVE BackupFits'
    <2> DEFINE new == [pc |-> "save binaries", target |-> upstream, previous |-> head,
                       bin |-> None, db |-> None, conf |-> None]
    <2>1. run' \in {new, None} BY <1>1 DEF Check
    <2>2. new.pc = "save binaries" OBVIOUS
    <2> HIDE DEF new
    <2> QED BY <2>1, <2>2 DEF Saving
<1>2. CASE Abort \/ Finish \/ Report \/ Kill \/ Reboot
    BY <1>2 DEF Abort, Finish, Report, Kill, Reboot
<1>3. CASE SaveBinaries
    <2>1. run # None /\ run \in Runs /\ bin' = bin /\ bin \in Installations
        BY <1>3 DEF SaveBinaries, TypeOK
    <2>2. run'.bin = bin /\ run'.pc = "save database"
        BY <1>3, <2>1 DEF SaveBinaries, Runs
    <2> QED BY <2>1, <2>2 DEF Saving
<1>4. CASE SaveDatabase
    <2>1. /\ run # None /\ run \in Runs /\ run.pc = "save database" /\ bin' = bin
          /\ db \in Databases
        BY <1>4 DEF SaveDatabase, TypeOK
    <2>2. run'.bin = run.bin /\ run'.db = db /\ run'.pc = "save configs"
        BY <1>4, <2>1 DEF SaveDatabase, Runs
    <2> QED BY <2>1, <2>2 DEF Saving
<1>5. CASE SaveConfigs
    <2>1. /\ run # None /\ run \in Runs /\ run.pc = "save configs" /\ bin' = bin
          /\ conf \in Int
        BY <1>5 DEF SaveConfigs, TypeOK
    <2>2. run'.bin = run.bin /\ run'.db = run.db /\ run'.conf = conf /\ run'.pc = "check out"
        BY <1>5, <2>1 DEF SaveConfigs, Runs
    <2> QED BY <2>1, <2>2 DEF Saving
<1>6. ASSUME Forward \/ Back, run # None, run.pc \notin Saving,
             run.pc \notin {"restore binaries", "restart previous"}, run' # None
      PROVE  BackupFits'
    <2>1. run \in Runs BY <1>6 DEF TypeOK
    <2>2. CASE Undo
        BY <1>6, <2>1, <2>2, UndoStep DEF Saving
    <2>3. ASSUME NEW pc \in Moving \cup Undoing \cup {"restore binaries"}, Go(pc)
          PROVE  BackupFits'
        <3>1. run'.bin = run.bin /\ run'.db = run.db /\ run'.conf = run.conf /\ run'.pc = pc
            BY <2>1, <2>3, GoStep DEF Steps, Returned
        <3>2. pc \notin Saving \cup {"check out", "restart previous", "report"}
            BY <2>3 DEF Saving, Moving, Undoing
        <3> QED BY <1>6, <3>1, <3>2 DEF Saving
    <2>4. Undo \/ \E pc \in Moving \cup Undoing \cup {"restore binaries"} : Go(pc)
        BY <1>6 DEF Forward, Back, SaveBinaries, SaveDatabase, SaveConfigs, CheckOut, Build,
           InstallPanel, InstallHelper, Restart, Publish, Finish, StopPanel, RestoreConfigs,
           RestoreDatabase, CheckOutPrevious, RestoreBinaries, RestartPrevious, Report,
           Saving, Moving, Undoing
    <2> QED BY <2>2, <2>3, <2>4
<1>7. CASE RestoreBinaries \/ RestartPrevious
    <2>1. /\ run # None /\ run \in Runs /\ run.pc \in {"restore binaries", "restart previous"}
          /\ bin' = run.bin
        BY <1>7 DEF RestoreBinaries, RestartPrevious, TypeOK
    <2>2. /\ run'.bin = run.bin /\ run'.db = run.db /\ run'.conf = run.conf
          /\ run'.pc \in {"restart previous", "report"}
        BY <1>7, <2>1, GoStep DEF RestoreBinaries, RestartPrevious, Steps, Returned
    <2> QED BY <2>1, <2>2 DEF Saving
<1>8. CASE [Edit \/ AskUpdate \/ SetAuto \/ RefreshState \/ Reconcile \/ Push]_vars
    BY <1>8, QuietStep, QuietKeeps
<1>9. CASE (Forward \/ Back) /\ run' = None
    BY <1>9
<1>10. Forward \/ Back => run # None
    BY DEF Forward, Back, SaveBinaries, SaveDatabase, SaveConfigs, CheckOut, Build,
           InstallPanel, InstallHelper, Restart, Publish, Finish, StopPanel, RestoreConfigs,
           RestoreDatabase, CheckOutPrevious, RestoreBinaries, RestartPrevious, Report
<1>11. CASE (Forward \/ Back) /\ run.pc \in Saving
    BY <1>3, <1>4, <1>5, <1>11 DEF Forward, Back, CheckOut, Build,
           InstallPanel, InstallHelper, Restart, Publish, Finish, StopPanel, RestoreConfigs,
           RestoreDatabase, CheckOutPrevious, RestoreBinaries, RestartPrevious, Report, Saving
<1>12. CASE (Forward \/ Back) /\ run.pc \in {"restore binaries", "restart previous"}
    BY <1>7, <1>12 DEF Forward, Back, SaveBinaries, SaveDatabase, SaveConfigs, CheckOut, Build,
           InstallPanel, InstallHelper, Restart, Publish, Finish, StopPanel, RestoreConfigs,
           RestoreDatabase, CheckOutPrevious, RestoreBinaries, RestartPrevious, Report
<1> QED BY <1>1, <1>2, <1>6, <1>8, <1>9, <1>10, <1>11, <1>12 DEF Next

LEMMA ReadableStep ==
    ASSUME UpdateInv, [Next]_vars
    PROVE  DatabaseIsReadable'
<1> USE DEF UpdateInv, DatabaseIsReadable, installed, data, history, At
<1>1. ASSUME NEW now \in Minutes, Check(now) PROVE DatabaseIsReadable'
    <2> DEFINE new == [pc |-> "save binaries", target |-> upstream, previous |-> head,
                       bin |-> None, db |-> None, conf |-> None]
    <2>1. run = None /\ run' \in {new, None} /\ UNCHANGED <<head, bin, db, torn>>
        BY <1>1 DEF Check
    <2>2. new.pc = "save binaries" OBVIOUS
    <2> HIDE DEF new
    <2> QED BY <2>1, <2>2
<1>2. CASE Abort \/ Finish \/ Report \/ Kill \/ Reboot
    <2>1. UNCHANGED <<head, bin>> /\ run' = None
        BY <1>2 DEF Abort, Finish, Report, Kill, Reboot
    <2>2. torn' \/ (~torn /\ ~At("restore binaries"))
        <3>1. CASE Abort \/ Finish \/ Report
            BY <3>1 DEF Abort, Finish, Report, Saving, TypeOK
        <3>2. CASE Kill \/ Reboot
            <4>1. torn' = (torn \/ At("restore binaries")) BY <3>2 DEF Kill, Reboot
            <4> QED BY <4>1 DEF TypeOK
        <3> QED BY <1>2, <3>1, <3>2
    <2>3. db.schema <= Schema[bin["panel"]] => db'.schema <= Schema[bin["panel"]]
        <3>1. CASE UNCHANGED db BY <3>1
        <3>2. CASE Reboot BY <3>2, StartStep DEF Reboot, TypeOK
        <3> QED BY <1>2, <3>1, <3>2 DEF Abort, Finish, Report, Kill
    <2> QED BY <2>1, <2>2, <2>3
<1>3. CASE SaveBinaries
    <2>1. run # None /\ run \in Runs /\ UNCHANGED <<head, bin, db, torn>>
        BY <1>3 DEF SaveBinaries, TypeOK
    <2>2. run'.previous = run.previous /\ run'.bin = bin /\ run'.pc = "save database"
        BY <1>3, <2>1 DEF SaveBinaries, Runs
    <2>3. head = run.previous /\ run.pc = "save binaries"
        BY <1>3 DEF SaveBinaries, RunFits, Moving, Undoing
    <2>4. bin["panel"] \in Int BY PanelNumbers DEF TypeOK
    <2>5. run'.bin["panel"] <= bin["panel"] BY <2>2, <2>4, Order
    <2>6. ~torn /\ ~At("restore binaries") => bin["panel"] <= run.previous
        BY <2>3
    <2> HIDE DEF UpdateInv
    <2> QED BY <2>1, <2>2, <2>3, <2>5, <2>6 DEF UpdateInv
<1>4. CASE SaveDatabase \/ SaveConfigs
    <2>1. /\ run # None /\ run \in Runs /\ UNCHANGED <<head, bin, db, torn>> /\ bin = run.bin
          /\ run.pc \in {"save database", "save configs"}
        BY <1>4 DEF SaveDatabase, SaveConfigs, TypeOK, BackupFits
    <2>2. /\ run'.previous = run.previous /\ run'.bin = run.bin
          /\ run'.pc \in {"save configs", "check out"}
          /\ run'.db = db \/ (run.pc = "save configs" /\ run'.db = run.db)
        BY <1>4, <2>1 DEF SaveDatabase, SaveConfigs, Runs
    <2> QED BY <2>1, <2>2
<1>5. CASE CheckOut
    <2>1. /\ run # None /\ run \in Runs /\ run.pc = "check out" /\ head' = run.target
          /\ UNCHANGED <<bin, db, torn>>
        BY <1>5 DEF CheckOut, TypeOK
    <2>2. /\ run'.previous = run.previous /\ run'.bin = run.bin /\ run'.db = run.db
          /\ run'.pc = "build"
        BY <1>5, <2>1, GoStep DEF CheckOut, Steps, Moving
    <2>3. head = run.previous /\ head <= run.target BY <2>1 DEF RunFits, Moving, Undoing
    <2>4. bin["panel"] \in Int /\ head \in Int /\ run.target \in Int
        BY <2>1, PanelNumbers, RunFields, CommitsAreNumbers DEF TypeOK
    <2>5. bin["panel"] <= head => bin["panel"] <= run.target
        BY <2>3, <2>4, Order
    <2> QED BY <2>1, <2>2, <2>3, <2>5
<1>6. ASSUME run # None, run \in Runs, UNCHANGED <<head, torn>>, bin'["panel"] = bin["panel"],
             run.pc \in Moving \cup Undoing, run.pc \notin {"finish", "check out previous"},
             \/ UNCHANGED db
             \/ db' = Migrated(bin, db),
             \/ Undo
             \/ \E pc \in (Moving \cup Undoing) \ {"finish", "check out previous"} : Go(pc)
      PROVE  DatabaseIsReadable'
    <2>1. /\ run'.previous = run.previous /\ run'.bin = run.bin /\ run'.db = run.db
          /\ run'.pc \in (Moving \cup Undoing) \ {"finish", "check out previous"}
        <3>1. CASE Undo
            BY <1>6, <3>1, UndoStep DEF Undoing
        <3>2. ASSUME NEW pc \in (Moving \cup Undoing) \ {"finish", "check out previous"}, Go(pc)
              PROVE  /\ run'.previous = run.previous /\ run'.bin = run.bin /\ run'.db = run.db
                     /\ run'.pc = pc
            BY <1>6, <3>2, GoStep DEF Steps
        <3> QED BY <1>6, <3>1, <3>2
    <2>2. db.schema <= Schema[bin["panel"]] => db'.schema <= Schema[bin["panel"]]
        BY <1>6, StartStep DEF TypeOK
    <2>3. /\ run'.pc \notin {"save binaries", "save database", "finish", "check out previous",
                             "restore binaries", "restart previous", "report"}
          /\ run.pc \notin {"save binaries", "save database", "finish", "restore binaries"}
        BY <1>6, <2>1 DEF Moving, Undoing
    <2> QED BY <1>6, <2>1, <2>2, <2>3
<1>7. CASE Build \/ StopPanel \/ RestoreConfigs
    BY <1>6, <1>7 DEF Build, StopPanel, RestoreConfigs, TypeOK, Moving, Undoing
<1>8. CASE InstallPanel
    <2>1. /\ run # None /\ run \in Runs /\ run.pc = "install panel" /\ release = All(run.target)
          /\ UNCHANGED <<head, db, torn>> /\ bin \in Installations /\ db \in Databases
        BY <1>8 DEF InstallPanel, TypeOK, Installs
    <2>2. CASE UNCHANGED bin /\ Undo
        BY <1>6, <2>1, <2>2 DEF Moving
    <2>3. CASE bin' = [bin EXCEPT !["panel"] = release["panel"]] /\ Go("install helper")
        <3>1. bin'["panel"] = run.target BY <2>1, <2>3 DEF Installations, Artifacts, All
        <3>2. /\ run'.previous = run.previous /\ run'.bin = run.bin /\ run'.db = run.db
              /\ run'.pc = "install helper"
            BY <2>1, <2>3, GoStep DEF Steps, Moving
        <3>3. head = run.target /\ run.previous <= run.target
            BY <2>1 DEF RunFits, Moving
        <3>4. run.bin \in Installations BY <2>1 DEF BackupFits
        <3>5. /\ bin["panel"] \in Commits /\ run.bin["panel"] \in Int
              /\ Schema[bin["panel"]] \in Int /\ db.schema \in Int
            BY <2>1, <3>4, PanelNumbers
        <3>6. run.target \in Commits /\ run.target \in Int /\ run.previous \in Int
            BY <2>1, RunFields, CommitsAreNumbers
        <3>7. Schema[run.target] \in Int BY <3>6, SchemaGrows
        <3>8. bin["panel"] <= run.target => Schema[bin["panel"]] <= Schema[run.target]
            BY <3>5, <3>6, SchemaGrows
        <3>9. ~torn => db'.schema <= Schema[bin'["panel"]]
            <4>1. ~torn => db.schema <= Schema[bin["panel"]] /\ bin["panel"] <= head
                BY <2>1
            <4> QED BY <2>1, <3>1, <3>3, <3>5, <3>7, <3>8, <4>1, Order
        <3>10. ~torn => run.bin["panel"] <= run.previous /\ run.bin["panel"] <= run.target
            <4>1. ~torn => run.bin["panel"] <= run.previous BY <2>1
            <4> QED BY <3>3, <3>5, <3>6, <4>1, Order
        <3>11. bin'["panel"] <= head' BY <2>1, <3>1, <3>3, <3>6, Order
        <3>12. ~torn => run.db.schema <= Schema[run.bin["panel"]] BY <2>1
        <3> HIDE DEF UpdateInv
        <3> QED BY <2>1, <3>1, <3>2, <3>9, <3>10, <3>11, <3>12
    <2> QED BY <1>8, <2>2, <2>3 DEF InstallPanel
<1>9. CASE InstallHelper
    <2>1. bin'["panel"] = bin["panel"] BY <1>9 DEF InstallHelper, TypeOK, Installations, Artifacts
    <2> QED BY <1>6, <1>9, <2>1 DEF InstallHelper, TypeOK, Moving
<1>10. CASE Restart
    BY <1>6, <1>10 DEF Restart, TypeOK, Moving
<1>11. CASE Publish
    <2>1. /\ run # None /\ run \in Runs /\ run.pc = "wait" /\ bin = All(run.target)
          /\ UNCHANGED <<head, bin, running, db>>
        BY <1>11 DEF Publish, TypeOK, Installs
    <2>2. CASE running # None /\ Go("finish")
        <3>1. running = bin["panel"] /\ db.schema = Schema[bin["panel"]]
            BY <2>1, <2>2 DEF Installs
        <3>2. bin["panel"] = run.target /\ head = run.target
            BY <2>1 DEF All, Artifacts, RunFits, Moving
        <3>3. bin["panel"] \in Int /\ Schema[bin["panel"]] \in Int
            BY PanelNumbers DEF TypeOK
        <3>4. run'.pc = "finish" BY <2>1, <2>2, GoStep DEF Steps, Moving
        <3> QED BY <2>1, <3>1, <3>2, <3>3, <3>4
    <2>3. CASE (Go("stop panel") \/ Undo) /\ UNCHANGED torn
        BY <1>6, <2>1, <2>3 DEF Moving, Undoing
    <2> QED BY <1>11, <2>2, <2>3 DEF Publish
<1>12. CASE RestoreDatabase
    <2>1. /\ run # None /\ run \in Runs /\ run.pc = "restore database" /\ db' = run.db
          /\ UNCHANGED <<head, bin, torn>>
        BY <1>12 DEF RestoreDatabase, TypeOK
    <2>2. /\ run'.previous = run.previous /\ run'.bin = run.bin /\ run'.db = run.db
          /\ run'.pc = "check out previous"
        BY <1>12, <2>1, GoStep DEF RestoreDatabase, Steps, Undoing
    <2>3. run.bin \in Installations /\ run.db \in Databases BY <2>1 DEF BackupFits
    <2>4. /\ run.bin["panel"] \in Commits /\ bin["panel"] \in Commits /\ run.db.schema \in Int
          /\ Schema[run.bin["panel"]] \in Int /\ Schema[bin["panel"]] \in Int
        BY <2>3, PanelNumbers DEF TypeOK
    <2>5. run.bin["panel"] <= bin["panel"] => Schema[run.bin["panel"]] <= Schema[bin["panel"]]
        BY <2>4, SchemaGrows
    <2>6. ~torn => /\ run.bin["panel"] <= run.previous /\ run.bin["panel"] <= bin["panel"]
                   /\ run.db.schema <= Schema[run.bin["panel"]] /\ bin["panel"] <= head
        BY <2>1
    <2>7. ~torn => run.db.schema <= Schema[bin["panel"]]
        <3>1. ~torn => Schema[run.bin["panel"]] <= Schema[bin["panel"]] BY <2>5, <2>6
        <3>2. ~torn => run.db.schema <= Schema[run.bin["panel"]] BY <2>6
        <3> HIDE DEF UpdateInv, DatabaseIsReadable
        <3> QED BY <2>4, <3>1, <3>2, Order
    <2> HIDE DEF UpdateInv
    <2> QED BY <2>1, <2>2, <2>6, <2>7
<1>13. CASE CheckOutPrevious
    <2>1. /\ run # None /\ run \in Runs /\ run.pc = "check out previous"
          /\ UNCHANGED <<bin, db, torn>>
        BY <1>13 DEF CheckOutPrevious, TypeOK
    <2>2. /\ run'.previous = run.previous /\ run'.bin = run.bin /\ run'.db = run.db
          /\ run'.pc = "restore binaries" /\ run' # None
        BY <1>13, <2>1, GoStep, NoneIsNoRun DEF CheckOutPrevious, Steps, Returned
    <2> QED BY <2>1, <2>2
<1>14. CASE RestoreBinaries
    <2>1. /\ run # None /\ run \in Runs /\ run.pc = "restore binaries" /\ bin' = run.bin
          /\ UNCHANGED <<head, db, torn>>
        BY <1>14 DEF RestoreBinaries, TypeOK
    <2>2. /\ run'.previous = run.previous /\ run'.bin = run.bin /\ run'.db = run.db
          /\ run'.pc = "restart previous"
        BY <1>14, <2>1, GoStep DEF RestoreBinaries, Steps, Returned
    <2>3. head = run.previous BY <2>1 DEF RunFits, Moving, Undoing
    <2>4. run.bin["panel"] \in Int BY <2>1, PanelNumbers DEF BackupFits
    <2>5. ~torn => run.bin["panel"] <= run.previous /\ db.schema <= Schema[run.bin["panel"]]
                   /\ run.db.schema <= Schema[run.bin["panel"]]
        BY <2>1
    <2>6. run.bin["panel"] <= run.bin["panel"] BY <2>4, Order
    <2> HIDE DEF UpdateInv
    <2> QED BY <2>1, <2>2, <2>3, <2>5, <2>6
<1>15. CASE RestartPrevious
    <2>1. /\ run # None /\ run \in Runs /\ run.pc = "restart previous" /\ bin = run.bin
          /\ UNCHANGED <<head, bin, torn>>
          /\ running' = Started(bin, db) /\ db' = Migrated(bin, db)
        BY <1>15 DEF RestartPrevious, TypeOK, BackupFits
    <2>2. /\ run'.previous = run.previous /\ run'.bin = run.bin /\ run'.db = run.db
          /\ run'.pc = "report"
        BY <1>15, <2>1, GoStep DEF RestartPrevious, Steps, Returned
    <2>3. db.schema <= Schema[bin["panel"]]
             => /\ running' = bin["panel"] /\ db'.schema = Schema[bin["panel"]]
                /\ db'.schema <= Schema[bin["panel"]]
        BY <2>1, StartStep DEF TypeOK
    <2> QED BY <2>1, <2>2, <2>3
<1>16. CASE [Edit \/ AskUpdate \/ SetAuto \/ RefreshState \/ Reconcile \/ Push]_vars
    BY <1>16, QuietStep, QuietKeeps
<1> QED BY <1>1, <1>2, <1>3, <1>4, <1>5, <1>7, <1>8, <1>9, <1>10, <1>11, <1>12, <1>13, <1>14,
          <1>15, <1>16 DEF Next, Forward, Back

LEMMA UpdateInitially == Init => UpdateInv
<1> SUFFICES ASSUME Init PROVE UpdateInv OBVIOUS
<1>1. 0 \in Commits BY PanelUpdateAssumption DEF Commits
<1>2. All(0) \in Installations /\ All(0)["panel"] = 0
    BY <1>1 DEF All, Installations, Artifacts
<1>3. Schema[0] \in Nat BY <1>1, SchemaGrows
<1>4. db \in Databases /\ db.schema = Schema[0]
    BY <1>3, PanelUpdateAssumption DEF Init, Databases
<1>5. TypeOK
    <2>1. conf \in Int /\ applied \in [gen : Nat, edit : Int] BY DEF Init
    <2>2. left \in [Kinds -> Nat] BY PanelUpdateAssumption DEF Init
    <2> QED BY <1>1, <1>2, <1>4, <2>1, <2>2 DEF Init, TypeOK
<1> QED
    BY <1>2, <1>3, <1>4, <1>5
    DEF Init, UpdateInv, RunFits, CurrentIsPublished, Installs, PublishedIsInstalled,
        BackupFits, DatabaseIsReadable, At

LEMMA UpdateInvariant == Spec => []UpdateInv
<1>1. ASSUME UpdateInv, [Next]_vars PROVE UpdateInv'
    BY <1>1, TypeStep, RunStep, PublishedStep, InstallsStep, InstalledStep, BackupStep, ReadableStep
    DEF UpdateInv
<1> QED BY <1>1, UpdateInitially, PTL DEF Spec

-----------------------------------------------------------------------------
(* Theorems *)

(* What write_status calls current is published, checked out and installed, *)
(* for every schedule of pushes, failures and kills.                        *)
THEOREM CurrentIsTrue == Spec => []CurrentIsInstalled
<1>1. ASSUME UpdateInv PROVE CurrentIsInstalled
    BY <1>1 DEF UpdateInv, CurrentIsPublished, PublishedIsInstalled, CurrentIsInstalled, At
<1> QED BY <1>1, UpdateInvariant, PTL

(* restore_update_backup, restore_control_binaries and the restart give the *)
(* previous panel back, on a database that it reads.                        *)
THEOREM FailureGoesBack == Spec => FailedRunsTheOldPanel
<1>1. ASSUME UpdateInv, At("report")
      PROVE  /\ head = run.previous /\ bin = run.bin
             /\ torn \/ (running = bin["panel"] /\ db.schema = Schema[running])
    BY <1>1 DEF UpdateInv, RunFits, BackupFits, DatabaseIsReadable, At, Moving, Undoing
<1>2. ASSUME UpdateInv
      PROVE  [(At("report") /\ status'.state = "failed" /\ run' = None) =>
                 /\ head = run.previous /\ bin = run.bin
                 /\ torn \/ (running = bin["panel"] /\ db.schema = Schema[running])]_vars
    BY <1>1, <1>2
<1> QED BY <1>2, UpdateInvariant, PTL DEF FailedRunsTheOldPanel
===============================================================================
