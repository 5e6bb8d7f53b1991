------------------------------ MODULE Startup ------------------------------
(* The start of the panel on a database of any earlier build: the schema,   *)
(* the versioned migrations, the default rows and the one-time changes of   *)
(* the routing policy; and the creation of the first administrator.         *)
(*                                                                          *)
(* The command line tool runs the same functions on the same database       *)
(* (open_initialized_pool), at any time and without knowing of the panel.   *)
(* One action is one transaction, or one statement outside of any. Default  *)
(* profiles and their adapters are in module Profiles.                      *)
EXTENDS Naturals, FiniteSets

CONSTANTS
    Requests,       \* submissions of the setup form
    OldPolicies,    \* policies of earlier builds and of operators
    Pasts,          \* what earlier builds may have left
    Limits,         \* budget of each kind of event
    None

Kinds == {"crash", "tool", "edit", "setup"}

VARIABLES
    db,             \* the database
    pc,             \* where the panel and the tool are
    missing,        \* columns that a starter did not see
    request,        \* per submission of the setup form, what it has read
    token,          \* the environment holds a setup token
    kept,           \* history: rows that a start must leave alone
    excepted,       \* history: what the code cannot promise any more
    left

vars == <<db, pc, missing, request, token, kept, excepted, left>>

Starters == {"panel", "tool"}

(* Pools: one that earlier builds shipped, the two shipped today that refer *)
(* to each other, and one of the operator. A pool is what it refers to.     *)
Pools    == {"LEGACY", "SMART", "FAST", "OWN"}
Rules    == {"catch-all", "own"}
Sets     == {"custom-direct", "legacy", "own"}
Targets  == Pools \cup {"DIRECT"}
Policy   == [pool : [Pools -> (SUBSET Pools) \cup {None}],
             rule : [Rules -> Targets \cup {None}]]
RuleSet  == [target : Targets, payload : {"shipped", "operator"}]
Value    == {"shipped", "operator", None}
Keys     == {"client-routing", "smart-auto", "daily"}

Tables == {"users", "reconcile_state", "admins", "admin_sessions", "settings",
           "secret_values", "protocol_profiles"}
Columns == {"display_name", "managed_resource_id"}

Spend(kind) == left[kind] > 0 /\ left' = [left EXCEPT ![kind] = @ - 1]
Go(s, step) == pc' = [pc EXCEPT ![s] = step]

-----------------------------------------------------------------------------
(* Policies *)

(* Migrations were released in the order of their numbers, so a build had   *)
(* a prefix of them. Builds from 3 on shipped a policy, builds from 4 on a  *)
(* DNS policy; from 8 on a database says what was changed in it.            *)
OldKeys(version) ==
    IF version < 8 THEN {{}}
    ELSE {{"client-routing"}, {"client-routing", "smart-auto"}, Keys}


Present(p) == {i \in Pools : p.pool[i] # None}

(* ClientPolicy::validate *)
Valid(p) ==
    /\ \A i \in Present(p) : p.pool[i] \subseteq Present(p)
    /\ \A S \in (SUBSET Present(p)) \ {{}} : \E i \in S : p.pool[i] \cap S = {}
    /\ \A r \in Rules : p.rule[r] \in Present(p) \cup {"DIRECT", None}

(* default_client_policy *)
Shipped ==
    [pool |-> [i \in Pools |-> CASE i = "SMART" -> {"FAST"}
                                 [] i = "FAST" -> {}
                                 [] OTHER -> None],
     rule |-> [r \in Rules |-> IF r = "catch-all" THEN "SMART" ELSE None]]

CustomDirect == [target |-> "DIRECT", payload |-> "shipped"]

ASSUME ConstantsAssumption ==
    /\ OldPolicies \subseteq Policy
    /\ \A p \in OldPolicies : Valid(p)
    /\ \A p \in Pasts : /\ p.version \in 0..12 /\ p.admins \in 0..1
                        /\ p.policy \in OldPolicies
                        /\ p.keys \in OldKeys(p.version)
    /\ Limits \in [Kinds -> 0..9]
    /\ None \notin Targets \cup {"shipped", "operator"}
    /\ \A x \in (SUBSET Pools) \cup RuleSet : x # None

-----------------------------------------------------------------------------
(* The schema *)

(* CREATE TABLE IF NOT EXISTS and the singleton of reconcile_state, one     *)
(* statement each, none of which does anything a second time.               *)
CreateTables(s) ==
    /\ pc[s] = "tables"
    /\ db' = [db EXCEPT !.schema = @ \cup Tables \cup
                 (IF "protocol_profiles" \in @ THEN {} ELSE Columns)]
    /\ Go(s, "columns")
    /\ UNCHANGED <<missing, request, token, kept, excepted, left>>

ReadColumns(s) ==
    /\ pc[s] = "columns"
    /\ missing' = [missing EXCEPT ![s] = Columns \ db.schema]
    /\ Go(s, "alter")
    /\ UNCHANGED <<db, request, token, kept, excepted, left>>

(* ALTER TABLE of a column that somebody else added meanwhile is an error,  *)
(* which ends the process.                                                  *)
AddColumn(s) ==
    /\ pc[s] = "alter"
    /\ IF missing[s] = {}
       THEN Go(s, "migrate") /\ UNCHANGED <<db, missing>>
       ELSE \E c \in missing[s] :
               /\ missing' = [missing EXCEPT ![s] = @ \ {c}]
               /\ db' = [db EXCEPT !.schema = @ \cup {c}]
               /\ IF c \in db.schema THEN Go(s, "down") ELSE UNCHANGED pc
    /\ UNCHANGED <<request, token, kept, excepted, left>>

(* What each versioned migration creates, and what it alters or counts.     *)
AddAdapterState  == [version |-> 1, needs |-> {}, makes |-> {"adapter_state"}]
AddUserSync      == [version |-> 7, needs |-> {}, makes |-> {"runtime_user_sync"}]
AddDnsPolicy     == [version |-> 4, needs |-> {}, makes |-> {"client_dns_policy"}]
AddClientPolicy  == [version |-> 3, needs |-> {},
                     makes |-> {"client_transport_pools", "client_routing_rules", "routing_rule_sets"}]
MakePolicyEditable == [version |-> 5, needs |-> {"client_transport_pools", "client_routing_rules"},
                     makes |-> {"client_transport_pools.timeout_ms"}]
NormalizeRules   == [version |-> 6, needs |-> {},
                     makes |-> {"routing_rule_entries", "routing_rule_sources"}]
AddRuntimeIds    == [version |-> 2, needs |-> {"reconcile_state"},
                     makes |-> {"active_runtime_ids_json"}]
AddBootstrapState == [version |-> 8, needs |-> {"settings", "routing_rule_sets"},
                     makes |-> {"bootstrap_state"}]
AddAudit         == [version |-> 9, needs |-> {}, makes |-> {"audit_events"}]
MakeAuditAppendOnly == [version |-> 10, needs |-> {"audit_events"},
                     makes |-> {"audit_events_reject_update"}]
AddUserLifecycle == [version |-> 11, needs |-> {"users"}, makes |-> {"user_lifecycle_state"}]
AddTelemetry     == [version |-> 12, needs |-> {}, makes |-> {"runtime_telemetry_samples"}]

(* Mutant: the columns of a table are added before the table.               *)
EditableBeforePolicy ==
    <<AddAdapterState, AddUserSync, AddDnsPolicy, MakePolicyEditable, AddClientPolicy,
      NormalizeRules, AddRuntimeIds, AddBootstrapState, AddAudit, MakeAuditAppendOnly,
      AddUserLifecycle, AddTelemetry>>

(* The order of the code, which is not that of the numbers.                 *)
Migrations ==
    <<AddAdapterState, AddUserSync, AddDnsPolicy, AddClientPolicy, MakePolicyEditable,
      NormalizeRules, AddRuntimeIds, AddBootstrapState, AddAudit, MakeAuditAppendOnly,
      AddUserLifecycle, AddTelemetry>>

Pending(recorded) == {i \in 1..12 : Migrations[i].version \notin recorded}
Made(is)          == UNION {Migrations[i].makes : i \in is}

(* A migration fails when an object it alters is missing or one that it     *)
(* creates is there.                                                        *)
MigrationsSucceed(schema, recorded) ==
    \A i \in Pending(recorded) :
        LET before == schema \cup Made({k \in Pending(recorded) : k < i})
        IN  Migrations[i].needs \subseteq before /\ Migrations[i].makes \cap before = {}

(* Any row of an administrator, a user, a profile, a setting or a rule set. *)
ExistingInstall ==
    db.rows \/ db.admins > 0 \/ db.setting # None \/ \E t \in Sets : db.set[t] # None

(* Mutant: a new installation is taken for an existing one.                 *)
MarksEveryInstall == IF 8 \in db.recorded THEN db.keys ELSE {"client-routing"}

(* What an existing installation has is its own: no defaults for it.        *)
KeysOfExisting ==
    IF 8 \in db.recorded THEN db.keys ELSE {k \in {"client-routing"} : ExistingInstall}

(* One transaction for all of them. *)
RunMigrations(s) ==
    /\ pc[s] = "migrate"
    /\ IF MigrationsSucceed(db.schema, db.recorded)
       THEN /\ Go(s, "settings")
            /\ db' = [db EXCEPT !.schema = @ \cup Made(Pending(db.recorded)),
                                !.recorded = 1..12,
                                !.keys = KeysOfExisting]
       ELSE Go(s, "down") /\ UNCHANGED db
    /\ UNCHANGED <<missing, request, token, kept, excepted, left>>

-----------------------------------------------------------------------------
(* Default rows and one-time changes *)

(* upsert_setting_if_missing *)
EnsureSettings(s) ==
    /\ pc[s] = "settings"
    /\ db' = [db EXCEPT !.setting = IF @ = None THEN "shipped" ELSE @]
    /\ Go(s, "adapters")
    /\ UNCHANGED <<missing, request, token, kept, excepted, left>>

(* States of adapters that this build does not know stay as they are.       *)
MigrateAdapterStates(s) ==
    /\ pc[s] = "adapters"
    /\ db' = [db EXCEPT !.adapter["known"] = IF @ = 1 THEN 2 ELSE @]
    /\ Go(s, "seed")
    /\ UNCHANGED <<missing, request, token, kept, excepted, left>>

(* bootstrap_complete: read outside of every transaction.                   *)
Check(s, step, key, done, todo) ==
    /\ pc[s] = step
    /\ Go(s, IF key \in db.keys THEN done ELSE todo)
    /\ UNCHANGED <<db, missing, request, token, kept, excepted, left>>

CheckSeeded(s)    == Check(s, "seed", "client-routing", "smart?", "sets")
CheckSmartAuto(s) == Check(s, "smart?", "smart-auto", "daily?", "smart")
CheckDaily(s)     == Check(s, "daily?", "daily", "admins", "daily")

(* A row of the defaults is inserted unless there is one. The other starter *)
(* may have finished, and an operator deleted it.                           *)
Seed(s, step, next) ==
    /\ pc[s] = step
    /\ Go(s, next)
    /\ excepted' = [excepted EXCEPT !.overlap = @ \/ "client-routing" \in db.keys]
    /\ UNCHANGED <<missing, request, token, kept, left>>

Default(t, defaults) == [i \in DOMAIN t |-> IF t[i] = None THEN defaults[i] ELSE t[i]]

SeedRuleSets(s) ==
    /\ Seed(s, "sets", "policy")
    /\ db' = [db EXCEPT !.set["custom-direct"] = IF @ = None THEN CustomDirect ELSE @]

SeedClientPolicy(s) ==
    /\ Seed(s, "policy", "dns")
    /\ db' = [db EXCEPT !.pool = Default(@, Shipped.pool), !.rule = Default(@, Shipped.rule)]

SeedDnsPolicy(s) ==
    /\ Seed(s, "dns", "mark")
    /\ db' = [db EXCEPT !.dns = IF @ = None THEN "shipped" ELSE @]

(* mark_bootstrap_complete *)
MarkSeeded(s) ==
    /\ pc[s] = "mark"
    /\ db' = [db EXCEPT !.keys = @ \cup {"client-routing"}]
    /\ Go(s, "smart?")
    /\ UNCHANGED <<missing, request, token, kept, excepted, left>>

Replaced(t) == IF t = "LEGACY" THEN "SMART" ELSE t

(* References to a pool of an earlier build lead to SMART-AUTO.             *)
MovedPool(x) == IF x = None THEN None ELSE {Replaced(m) : m \in x}
MovedSet(x)  == IF x = None THEN None ELSE [x EXCEPT !.target = Replaced(@)]

WithoutLegacy(d) ==
    [d EXCEPT !.pool = [i \in Pools |-> MovedPool(@[i])],
              !.rule = [r \in Rules |-> Replaced(@[r])],
              !.set  = [t \in Sets |-> MovedSet(@[t])]]

(* Pools that are, or were, shipped are replaced, those of operators stay.  *)
SmartAutoPolicy(d) ==
    [WithoutLegacy(d) EXCEPT
        !.pool = [i \in Pools |-> IF i = "OWN" THEN @[i] ELSE Shipped.pool[i]],
        !.rule = [r \in Rules |-> IF r = "own" THEN @[r] ELSE Shipped.rule[r]]]

(* custom-direct keeps what it lists and goes DIRECT.                       *)
DailyRouting(d) ==
    [WithoutLegacy(d) EXCEPT
        !.pool["LEGACY"] = None,
        !.set["legacy"]  = None,
        !.set["custom-direct"] = IF @ = None THEN CustomDirect
                                 ELSE [@ EXCEPT !.target = "DIRECT"]]

(* The key is inserted in the transaction of the change. It is a primary    *)
(* key: whoever comes second is rolled back, and ends.                      *)
OneTime(s, step, next, key, new) ==
    /\ pc[s] = step
    /\ IF key \in db.keys
       THEN Go(s, "down") /\ UNCHANGED db
       ELSE Go(s, next) /\ db' = [new EXCEPT !.keys = @ \cup {key}]
    /\ UNCHANGED <<missing, request, token, kept, excepted, left>>

(* Mutant: the key is checked before the transaction only.                  *)
SmartAutoTwice(s) ==
    /\ pc[s] = "smart"
    /\ Go(s, "daily?")
    /\ db' = [SmartAutoPolicy(db) EXCEPT !.keys = @ \cup {"smart-auto"}]
    /\ UNCHANGED <<missing, request, token, kept, excepted, left>>

EnsureSmartAuto(s) == OneTime(s, "smart", "daily?", "smart-auto", SmartAutoPolicy(db))

EnsureDaily(s) == OneTime(s, "daily", "admins", "daily", DailyRouting(db))

(* Without an administrator, a token is needed to set one up. The tool does *)
(* its work and ends.                                                       *)
CountAdmins(s) ==
    /\ pc[s] = "admins"
    /\ Go(s, IF s = "panel" /\ (db.admins > 0 \/ token) THEN "up" ELSE "down")
    /\ UNCHANGED <<db, missing, request, token, kept, excepted, left>>

-----------------------------------------------------------------------------
(* Life of the processes *)

(* systemd restarts the panel.                                              *)
StartPanel ==
    /\ pc["panel"] = "down"
    /\ Go("panel", "tables")
    /\ UNCHANGED <<db, missing, request, token, kept, excepted, left>>

RunTool ==
    /\ pc["tool"] = "down" /\ Spend("tool")
    /\ Go("tool", "tables")
    /\ UNCHANGED <<db, missing, request, token, kept, excepted>>

(* What a start must leave alone once the one-time changes are made: all.   *)
Everything(d) == [pool |-> d.pool, rule |-> d.rule, set |-> d.set,
                  dns |-> d.dns, setting |-> d.setting, unknown |-> d.adapter["unknown"]]

(* A kill, or a host that goes down.                                        *)
Crash(s) ==
    /\ pc[s] # "down" /\ Spend("crash")
    /\ Go(s, "down")
    /\ missing' = [missing EXCEPT ![s] = {}]
    /\ request' = IF s = "panel" THEN [r \in Requests |-> "idle"] ELSE request
    /\ kept' = IF pc[s] = "up" THEN Everything(db) ELSE kept
    /\ UNCHANGED <<db, token, excepted>>

(* save_client_policy: all rows anew (module Routing has the forms).        *)
SavePolicy ==
    /\ pc["panel"] = "up" /\ Spend("edit")
    /\ \E p \in OldPolicies :
          /\ db' = [db EXCEPT !.pool = p.pool, !.rule = p.rule]
          /\ kept' = Everything(db')
    /\ UNCHANGED <<pc, missing, request, token, excepted>>

(* The form updates a row and fails when there is none.                     *)
SaveDnsPolicy ==
    /\ pc["panel"] = "up" /\ db.dns # None /\ Spend("edit")
    /\ db' = [db EXCEPT !.dns = "operator"]
    /\ kept' = Everything(db')
    /\ UNCHANGED <<pc, missing, request, token, excepted>>

(* The payload of custom-direct is the operator's, its target fixed.        *)
SaveCustomDirect ==
    /\ pc["panel"] = "up" /\ db.set["custom-direct"] # None /\ Spend("edit")
    /\ db' = [db EXCEPT !.set["custom-direct"].payload = "operator"]
    /\ kept' = Everything(db')
    /\ UNCHANGED <<pc, missing, request, token, excepted>>

DeleteRuleSet ==
    /\ pc["panel"] = "up" /\ Spend("edit")
    /\ \E t \in Sets \ {"custom-direct"} :
          /\ db.set[t] # None
          /\ db' = [db EXCEPT !.set[t] = None]
          /\ kept' = Everything(db')
    /\ UNCHANGED <<pc, missing, request, token, excepted>>

(* setup_admin_action counts the administrators, checks the token and       *)
(* hashes the password, all before the transaction.                         *)
SubmitSetup(r) ==
    /\ pc["panel"] = "up" /\ request[r] = "idle"
    /\ db.admins = 0 /\ token /\ Spend("setup")
    /\ request' = [request EXCEPT ![r] = "hashing"]
    /\ UNCHANGED <<db, pc, missing, token, kept, excepted>>

(* Mutant: the count of the handler is trusted.                             *)
CreateAdmin(r) ==
    /\ request[r] = "hashing"
    /\ db' = [db EXCEPT !.admins = @ + 1]
    /\ request' = [request EXCEPT ![r] = "idle"]
    /\ UNCHANGED <<pc, missing, token, kept, excepted, left>>

(* INSERT ... WHERE NOT EXISTS, one statement.                              *)
CreateFirstAdmin(r) ==
    /\ request[r] = "hashing"
    /\ db' = [db EXCEPT !.admins = IF @ = 0 THEN 1 ELSE @]
    /\ request' = [request EXCEPT ![r] = "idle"]
    /\ UNCHANGED <<pc, missing, token, kept, excepted, left>>

-----------------------------------------------------------------------------
(* Databases a start may find *)

NoPolicy == [pool |-> [i \in Pools |-> None], rule |-> [r \in Rules |-> None]]
NoSets   == [t \in Sets |-> None]
OldSets(policy) ==
    {[NoSets EXCEPT !["custom-direct"] = c, !["own"] = o, !["legacy"] = o] :
        c \in {None, [target |-> "DIRECT", payload |-> "operator"]},
        o \in [target : {"DIRECT", "LEGACY"} \cap ({"DIRECT"} \cup Present(policy)),
               payload : {"operator"}]}

NewDatabase ==
    [schema |-> {}, recorded |-> {}, keys |-> {}, rows |-> FALSE,
     admins |-> 0, setting |-> None, dns |-> None, adapter |-> [a \in {"known", "unknown"} |-> 0],
     pool |-> NoPolicy.pool, rule |-> NoPolicy.rule, set |-> NoSets]

(* Before the columns, and with the migrations 1 to version.                *)
OldDatabases(past) ==
    LET version == past.version
        p == IF version < 3 THEN NoPolicy ELSE past.policy
    IN  {[schema |-> Tables \cup (IF version = 0 THEN {} ELSE Columns)
                            \cup Made({i \in 1..12 : Migrations[i].version <= version}),
          recorded |-> 1..version, keys |-> past.keys, rows |-> TRUE,
          admins |-> past.admins, setting |-> "operator",
          dns |-> IF version < 4 THEN None ELSE "operator",
          adapter |-> [a \in {"known", "unknown"} |-> IF version = 0 THEN 0 ELSE 1],
          pool |-> p.pool, rule |-> p.rule, set |-> sets] :
            sets \in IF version < 3 THEN {NoSets} ELSE OldSets(p)}

(* What the one-time changes must leave of a database: rows of operators,   *)
(* with their references to a pool that goes.                               *)
OwnRows(d) ==
    LET n == IF "daily" \in d.keys THEN d ELSE DailyRouting(d)
    IN  [pool |-> [i \in {"OWN"} |-> n.pool[i]], rule |-> [r \in {"own"} |-> n.rule[r]],
         set  |-> [t \in {"own"} \cup {c \in {"custom-direct"} : d.set[c] # None} |-> n.set[t]],
         dns |-> d.dns, setting |-> d.setting, unknown |-> d.adapter["unknown"]]

Init ==
    /\ db \in {NewDatabase} \cup UNION {OldDatabases(p) : p \in Pasts}
    /\ pc = [s \in Starters |-> "down"]
    /\ missing = [s \in Starters |-> {}]
    /\ request = [r \in Requests |-> "idle"]
    /\ token \in IF db.admins > 0 THEN {FALSE} ELSE BOOLEAN
    /\ kept = OwnRows(db)
    /\ excepted = [overlap |-> FALSE,
                   noDns   |-> db.rows /\ db.dns = None,
                   meddled |-> /\ "smart-auto" \in db.keys /\ "daily" \notin db.keys
                               /\ ~Valid(DailyRouting(db))]
    /\ left = Limits

Step(s) ==
    \/ CreateTables(s) \/ ReadColumns(s) \/ AddColumn(s) \/ RunMigrations(s)
    \/ EnsureSettings(s) \/ MigrateAdapterStates(s)
    \/ CheckSeeded(s) \/ SeedRuleSets(s) \/ SeedClientPolicy(s) \/ SeedDnsPolicy(s)
    \/ MarkSeeded(s)
    \/ CheckSmartAuto(s) \/ EnsureSmartAuto(s) \/ CheckDaily(s) \/ EnsureDaily(s)
    \/ CountAdmins(s)

Next ==
    \/ \E s \in Starters : Step(s) \/ Crash(s)
    \/ StartPanel \/ RunTool
    \/ SavePolicy \/ SaveDnsPolicy \/ SaveCustomDirect \/ DeleteRuleSet
    \/ \E r \in Requests : SubmitSetup(r) \/ CreateFirstAdmin(r)

Spec == Init /\ [][Next]_vars /\ WF_vars(StartPanel \/ Step("panel"))

-----------------------------------------------------------------------------
(* Properties *)

TypeOK ==
    /\ db.recorded \subseteq 1..12 /\ db.keys \subseteq Keys
    /\ [pool |-> db.pool, rule |-> db.rule] \in Policy
    /\ db.set \in [Sets -> RuleSet \cup {None}]
    /\ db.dns \in Value /\ db.setting \in Value
    /\ db.admins \in Nat
    /\ request \in [Requests -> {"idle", "hashing"}]
    /\ token \in BOOLEAN

(* A panel that answers has what a subscription needs: a policy that        *)
(* validates without the pools of earlier builds, a DNS row, custom-direct  *)
(* going DIRECT, and an administrator or a way to set one up; whatever      *)
(* build left the database, and wherever earlier starts were cut off.       *)
(* Excepted: a database from before the DNS policy, which never gets one,   *)
(* and one that was changed between the two one-time changes so that        *)
(* SMART-AUTO, put in place of the pools that go, is missing or leads back  *)
(* to itself.                                                               *)
UpIsUsable ==
    pc["panel"] = "up" =>
        /\ Valid(db) \/ excepted.meddled
        /\ db.dns # None \/ excepted.noDns
        /\ db.set["custom-direct"] # None => db.set["custom-direct"].target = "DIRECT"
        /\ db.admins > 0 \/ token

(* Starts of the panel, and of the tool beside it, leave the rows of an     *)
(* operator alone: those of before the upgrade, except for references to    *)
(* pools that went, and later everything that was saved or deleted.         *)
RestartsKeepRows ==
    pc["panel"] = "up" /\ ~excepted.overlap =>
        /\ \A i \in DOMAIN kept.pool : db.pool[i] = kept.pool[i]
        /\ \A r \in DOMAIN kept.rule : db.rule[r] = kept.rule[r]
        /\ \A t \in DOMAIN kept.set : db.set[t] = kept.set[t]
        /\ kept.dns # None => db.dns = kept.dns
        /\ kept.setting # None => db.setting = kept.setting
        /\ db.adapter["unknown"] = kept.unknown

(* Setup forms that pass the check together do not create two owners.       *)
OneOwner == db.admins <= 1

(* From every earlier database, the panel comes up again after each crash,  *)
(* unless nobody could administer it.                                       *)
StartConverges == []<>(pc["panel"] = "up" \/ (db.admins = 0 /\ ~token))

============================================================================
