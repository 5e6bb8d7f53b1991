------------------------------ MODULE Profiles ------------------------------
(***************************************************************************)
(* The protocol profiles of the panel, with the secrets and the settings   *)
(* that belong to the same desired state: the forms of the web interface   *)
(* (stealthhub-panel/src/main.rs), the candidate's validation              *)
(* (profile_lifecycle.rs), the transactions of storage.rs, and what a      *)
(* start of the panel writes, the bootstrap of default profiles and the    *)
(* migration of adapter configurations, under a build that an update may   *)
(* have replaced.                                                          *)
(*                                                                         *)
(* A profile's row keeps its display name, whether it is enabled, its      *)
(* listener port, its configuration (named by the one secret it refers to, *)
(* all that the validation looks up in it) and its schema version.  The    *)
(* transport of a profile is that of its protocol.  Server, core           *)
(* preference and managed resource change with the configuration.          *)
(***************************************************************************)
EXTENDS Integers

CONSTANTS
    Profiles,   \* stable IDs
    Sessions,   \* browser tabs of administrators
    Secrets,    \* names of secrets
    Ports,      \* listener ports
    Titles,     \* display names
    Domains,    \* values of subscription_domain and node_domain
    None,       \* no row, no page, nobody
    Network,    \* per profile: tcp or udp, from the manifest of its adapter
    Builds,     \* builds of the panel are 1..Builds; build b brings batch b
    Defaults,   \* per batch: the default profiles it inserts
    Factory,    \* per profile: the title, port and secret it is shipped with
    Lacks,      \* per build: profiles whose adapter it does not ship
    Schema,     \* per build: the schema version of its adapters
    Limits      \* how often each bounded kind of event may happen, several budgets

Kinds == {"page", "request", "event", "clock"}

ASSUME ProfilesAssumption ==
    /\ None \notin Sessions /\ Domains # {}
    /\ Builds \in Nat \ {0}
    /\ Defaults \in [1..Builds -> SUBSET Profiles]
    /\ Lacks \in [1..Builds -> SUBSET Profiles]
    /\ Factory \in [Profiles -> [title : Titles, port : Ports, cfg : Secrets]]
    /\ Schema \in [1..Builds -> Nat]
    /\ Limits \subseteq [Kinds -> Nat]

VARIABLES
    row,        \* protocol_profiles: per name its row, or None
    rev,        \* per name: updated_at of the row, or of the last one of that name
    clock,      \* the wall clock at the last write
    secret,     \* secret_values: per name a version, 0 when absent
    domain,     \* the runtime keys of settings
    generation, \* desired_generation of reconcile_state
    refs,       \* profiles that pools, policies or rule sets name
    marks,      \* batches whose key is in bootstrap_state
    build,      \* the build that is installed
    boot,       \* the panel: down, the steps of its start, up
    lock,       \* the holder of the semaphore profile_mutations
    page,       \* per tab: the profile, row and revision it shows
    req,        \* per tab: the handler that works on its form
    left,       \* what is left of Limits
    blind,      \* history: pairs of a profile and one its check had to skip
    stood       \* history: profiles written at a time not later than the write before

times   == <<rev, clock, stood>>
store   == <<row, times, secret, domain, generation>>
browser == <<page, req, lock>>
start   == <<marks, build, boot>>
vars == <<row, rev, clock, secret, domain, generation, refs, marks, build,
          boot, lock, page, req, left, blind, stood>>

-----------------------------------------------------------------------------
(* Data *)

Versions == {Schema[b] : b \in 1..Builds}
Row  == [title : Titles, on : BOOLEAN, port : Ports, cfg : Secrets, ver : Versions]
Page == [p : Profiles, row : Row, rev : Nat]

ASSUME NoneIsNoRow == None \notin Row

Verbs == {"create", "update", "enable", "delete"}
Handler == [pc : {"idle", "listeners", "secrets", "commit"}, verb : Verbs,
            p : Profiles, row : Row \cup {None}, rev : Nat]
Phases == {"down", "bootstrap", "migrate", "up"}

Shipped(p, on, b) ==
    [title |-> Factory[p].title, on |-> on, port |-> Factory[p].port,
     cfg |-> Factory[p].cfg, ver |-> Schema[b]]

Exists(p)    == row[p] # None
Missing(p)   == p \in Lacks[build]
Spend(kind)  == left[kind] > 0 /\ left' = [left EXCEPT ![kind] = @ - 1]
Bump(change) == generation' = IF change THEN generation + 1 ELSE generation

(* profile_configuration_changed: what the validation of a form looks at.   *)
ConfigurationChanged(old, new) == old.port # new.port \/ old.cfg # new.cfg

(* Mutant: an edit of a profile that stays enabled is not counted.          *)
OnlySwitchCounts(old, new) == old.on # new.on

(* runtime_changed of update_protocol_profile_inner: `enabled` differs, or  *)
(* the profile stays enabled and its configuration differs.                 *)
RuntimeChanged(old, new) ==
    old.on # new.on \/ (new.on /\ ConfigurationChanged(old, new))

(* Two enabled profiles on one port of one transport.                       *)
Clash(p, port, q) ==
    p # q /\ Exists(q) /\ row[q].on /\ row[q].port = port /\ Network[p] = Network[q]

(* validate_profile_candidate: an enabled candidate conflicts with no other *)
(* enabled profile whose adapter is known; the others are skipped.          *)
ListenerFree(p, new) ==
    new.on => \A q \in Profiles : Clash(p, new.port, q) => Missing(q)

Skipped(p, new) == IF new.on THEN {<<p, q>> : q \in {q \in Profiles : Clash(p, new.port, q)}}
                   ELSE {}

-----------------------------------------------------------------------------
(* Init: an installation of any build, its batches done, that a later       *)
(* build may have left a profile to, some of the profiles enabled.          *)
Brought(b) == UNION {Defaults[c] : c \in 1..b}

Init ==
    /\ build \in 1..Builds /\ marks = 1..build /\ boot = "up"
    /\ \E on \in SUBSET (Brought(build) \cup Lacks[build]), kept \in SUBSET Lacks[build] :
          row = [p \in Profiles |->
                   IF p \in Lacks[build]
                   THEN IF p \in kept THEN Shipped(p, p \in on, Builds) ELSE None
                   ELSE IF p \in Brought(build) THEN Shipped(p, p \in on, build) ELSE None]
    /\ \A p, q \in Profiles :
          p # q /\ Exists(p) /\ Exists(q) /\ row[p].on /\ row[q].on
             => Network[p] # Network[q]
    /\ rev = [p \in Profiles |-> 0] /\ clock = 0
    /\ secret = [n \in Secrets |-> 1]
    /\ domain = CHOOSE d \in Domains : TRUE
    /\ generation = 0
    /\ refs = {}
    /\ lock = None
    /\ page = [s \in Sessions |-> None]
    /\ req = [s \in Sessions |-> None]
    /\ left \in Limits
    /\ blind = {}
    /\ stood = {}

-----------------------------------------------------------------------------
(* Forms: load a page, submit it, validate, commit *)

Idle(s) == boot = "up" /\ req[s] = None

(* GET of a profile's page or of its delete page: the row and its revision. *)
Open(s, p) ==
    /\ Idle(s) /\ Exists(p) /\ Spend("page")
    /\ page' = [page EXCEPT ![s] = [p |-> p, row |-> row[p], rev |-> rev[p]]]
    /\ UNCHANGED <<store, refs, start, lock, req, blind>>

(* Mutant: the handlers share no semaphore.                                 *)
UnlockedMutation(s, pc, verb, p, new, revision) ==
    /\ Idle(s) /\ Spend("request")
    /\ lock' = s
    /\ req' = [req EXCEPT ![s] =
                 [pc |-> pc, verb |-> verb, p |-> p, row |-> new, rev |-> revision]]
    /\ UNCHANGED <<store, refs, start, page, blind>>

(* Every handler first takes the semaphore and holds it to its end.         *)
Mutation(s, pc, verb, p, new, revision) ==
    /\ Idle(s) /\ lock = None /\ Spend("request")
    /\ lock' = s
    /\ req' = [req EXCEPT ![s] =
                 [pc |-> pc, verb |-> verb, p |-> p, row |-> new, rev |-> revision]]
    /\ UNCHANGED <<store, refs, start, page, blind>>

(* create_protocol_action: the name is free and the adapter is known.       *)
SubmitCreate(s, p, new) ==
    /\ ~Exists(p) /\ ~Missing(p)
    /\ new.ver = Schema[build]
    /\ Mutation(s, "listeners", "create", p, new, 0)

(* update_protocol_action: the form posts every field of the page with its  *)
(* revision; the handler loads the profile again and builds the candidate   *)
(* upon it.  Without its adapter only a display name or a disabling passes. *)
SubmitUpdate(s, new) ==
    /\ page[s] # None
    /\ LET p == page[s].p
           old == row[p]
           candidate == [new EXCEPT !.ver = old.ver,
                                    !.cfg = IF Missing(p) THEN old.cfg ELSE @]
           check == ConfigurationChanged(old, candidate) \/ (~old.on /\ candidate.on)
       IN /\ Exists(p)
          /\ ~(Missing(p) /\ check)
          /\ Mutation(s, IF check THEN "listeners" ELSE "commit", "update", p,
                      candidate, page[s].rev)

(* set_protocol_enabled_action: all other fields are the stored ones.       *)
SubmitEnabled(s, on) ==
    /\ page[s] # None
    /\ LET p == page[s].p
           old == row[p]
           check == on /\ ~old.on
       IN /\ Exists(p)
          /\ ~(Missing(p) /\ check)
          /\ Mutation(s, IF check THEN "listeners" ELSE "commit", "enable", p,
                      [old EXCEPT !.on = on], page[s].rev)

SubmitDelete(s) ==
    /\ page[s] # None
    /\ Mutation(s, "commit", "delete", page[s].p, None, page[s].rev)

Working(s, pc) == boot = "up" /\ req[s] # None /\ req[s].pc = pc
Answer(s) == req' = [req EXCEPT ![s] = None] /\ lock' = None
Continue(s, pc) == req' = [req EXCEPT ![s].pc = pc] /\ UNCHANGED lock

(* validate_profile_for_publish reads the profiles ...                      *)
CheckListeners(s) ==
    /\ Working(s, "listeners")
    /\ IF ListenerFree(req[s].p, req[s].row)
       THEN Continue(s, "secrets") /\ blind' = blind \cup Skipped(req[s].p, req[s].row)
       ELSE Answer(s) /\ UNCHANGED blind
    /\ UNCHANGED <<store, refs, start, page, left>>

(* ... and then the names of the secrets, under no common transaction.      *)
CheckSecrets(s) ==
    /\ Working(s, "secrets")
    /\ IF secret[req[s].row.cfg] # 0 THEN Continue(s, "commit") ELSE Answer(s)
    /\ UNCHANGED <<store, refs, start, page, left, blind>>

(* The rest of the validation, the schema and an installed core that has    *)
(* the capability, may refuse any candidate.                                *)
Refuse(s) ==
    /\ Working(s, "secrets")
    /\ Answer(s)
    /\ UNCHANGED <<store, refs, start, page, left, blind>>

(* Utc::now(), the wall clock as it is: it has moved on since the last      *)
(* write, or it stood still or was set back.  next_user_updated_at, which   *)
(* keeps the versions of users apart, has no counterpart for profiles.      *)
Reading(t) ==
    /\ clock' = t
    /\ \/ t > clock /\ UNCHANGED left
       \/ t <= clock /\ Spend("clock")

Stamp(ps, t) ==
    /\ Reading(t)
    /\ rev' = [p \in Profiles |-> IF p \in ps THEN t ELSE rev[p]]
    /\ stood' = stood \cup {p \in ps : t <= rev[p]}

Write(p, value) ==
    /\ row' = [row EXCEPT ![p] = value]
    /\ \E t \in 0..clock + 1 : Stamp({p}, t)

Unwritten == UNCHANGED <<row, times, generation, left>>

(* create_protocol_profile_inner: the name is UNIQUE.                       *)
CommitCreate(s) ==
    LET r == req[s] IN
    /\ Working(s, "commit") /\ r.verb = "create"
    /\ IF Exists(r.p)
       THEN Unwritten
       ELSE /\ Write(r.p, r.row)
            /\ Bump(r.row.on)
    /\ Answer(s)
    /\ UNCHANGED <<secret, domain, refs, start, page, blind>>

(* Mutant: the revision of the form is not compared.                        *)
NameSuffices(r) == Exists(r.p)

(* The row is there and has the revision the form was loaded with.          *)
Current(r) == Exists(r.p) /\ r.rev = rev[r.p]

(* update_protocol_profile_inner: the expected revision is compared inside  *)
(* the transaction; an identical row is neither written nor audited.        *)
CommitUpdate(s) ==
    LET r == req[s] IN
    /\ Working(s, "commit") /\ r.verb \in {"update", "enable"}
    /\ IF Current(r) /\ r.row # row[r.p]
       THEN Write(r.p, r.row) /\ Bump(RuntimeChanged(row[r.p], r.row))
       ELSE Unwritten
    /\ Answer(s)
    /\ UNCHANGED <<secret, domain, refs, start, page, blind>>

(* delete_protocol_profile_audited: revision and references are looked up   *)
(* inside the transaction.                                                  *)
CommitDelete(s) ==
    LET r == req[s] IN
    /\ Working(s, "commit") /\ r.verb = "delete"
    /\ IF Current(r) /\ r.p \notin refs
       THEN /\ row' = [row EXCEPT ![r.p] = None]
            /\ Bump(row[r.p].on)
            /\ UNCHANGED <<times, left>>
       ELSE Unwritten
    /\ Answer(s)
    /\ UNCHANGED <<secret, domain, refs, start, page, blind>>

-----------------------------------------------------------------------------
(* Secrets, settings, routing *)

(* upsert_secret_inner: a new value, a generation in any case.              *)
UpsertSecret(n) ==
    /\ secret' = [secret EXCEPT ![n] = @ + 1]
    /\ Bump(TRUE)

(* delete_secret_inner asks no profile whether it refers to the secret.     *)
RemoveSecret(n) ==
    /\ secret[n] # 0
    /\ secret' = [secret EXCEPT ![n] = 0]
    /\ Bump(TRUE)

(* upsert_settings_with_runtime_keys_inner: only a changed domain counts.   *)
UpsertSettings(d) ==
    /\ domain' = d
    /\ Bump(d # domain)

(* The handlers: they take no semaphore, and every refusal (a server-only   *)
(* reference, a bad name or host, no such secret) leaves all as it is.      *)
SaveSecret(n) ==
    /\ boot = "up" /\ Spend("event")
    /\ UpsertSecret(n)
    /\ UNCHANGED <<row, times, domain, refs, start, browser, blind>>

DeleteSecret(n) ==
    /\ boot = "up" /\ Spend("event")
    /\ RemoveSecret(n)
    /\ UNCHANGED <<row, times, domain, refs, start, browser, blind>>

SaveSettings(d) ==
    /\ boot = "up" /\ Spend("event")
    /\ UpsertSettings(d)
    /\ UNCHANGED <<row, times, secret, refs, start, browser, blind>>

(* A routing form begins or ceases to name a profile (module Routing).      *)
Route(p) ==
    /\ boot = "up" /\ Spend("event")
    /\ refs' = IF p \in refs THEN refs \ {p} ELSE refs \cup {p}
    /\ UNCHANGED <<store, start, browser, blind>>

-----------------------------------------------------------------------------
(* The life of the panel's process *)

Stopped == req' = [s \in Sessions |-> None] /\ lock' = None

(* It is stopped or dies: the handlers are gone, the browser tabs are not.  *)
Stop ==
    /\ boot # "down"
    /\ IF boot = "up" THEN Spend("event") ELSE UNCHANGED left
    /\ boot' = "down" /\ Stopped
    /\ UNCHANGED <<store, refs, marks, build, page, blind>>

(* The panel updater installs another build, or puts one back.              *)
Replace(b) ==
    /\ boot = "down" /\ b # build
    /\ build' = b
    /\ UNCHANGED <<store, refs, marks, boot, browser, left, blind>>

Start ==
    /\ boot = "down"
    /\ boot' = "bootstrap"
    /\ UNCHANGED <<store, refs, marks, build, browser, left, blind>>

(* ensure_default_protocol_profiles: the first batch without its key, each  *)
(* profile by a statement of its own; names that exist are kept.            *)
Due == {b \in 1..build : b \notin marks}

FirstDue(b) == b \in Due /\ \A c \in Due : b <= c
Wanted(b)   == {p \in Defaults[b] : ~Exists(p)}

InsertDefault(p) ==
    /\ boot = "bootstrap"
    /\ \E b \in Due : FirstDue(b) /\ p \in Wanted(b)
    /\ Write(p, Shipped(p, FALSE, build))
    /\ UNCHANGED <<secret, domain, generation, refs, start, browser, blind>>

(* mark_bootstrap_complete, after the last of the batch.                    *)
MarkBatch ==
    /\ boot = "bootstrap"
    /\ \E b \in Due : FirstDue(b) /\ Wanted(b) = {} /\ marks' = marks \cup {b}
    /\ UNCHANGED <<store, refs, build, boot, browser, left, blind>>

Bootstrapped ==
    /\ boot = "bootstrap" /\ Due = {}
    /\ boot' = "migrate"
    /\ UNCHANGED <<store, refs, marks, build, browser, left, blind>>

(* migrate_protocol_adapter_configs, one transaction: rows of an absent     *)
(* adapter are kept as they are, a row of a newer schema ends the start.    *)
Newer == {p \in Profiles : Exists(p) /\ ~Missing(p) /\ row[p].ver > Schema[build]}
Older == {p \in Profiles : Exists(p) /\ ~Missing(p) /\ row[p].ver < Schema[build]}
Migrate ==
    /\ boot = "migrate"
    /\ IF Newer # {}
       THEN boot' = "down" /\ UNCHANGED <<row, times, left>>
       ELSE /\ boot' = "up"
            /\ row' = [p \in Profiles |->
                          IF p \in Older THEN [row[p] EXCEPT !.ver = Schema[build]]
                          ELSE row[p]]
            /\ IF Older = {} THEN UNCHANGED <<times, left>>
               ELSE \E t \in 0..clock + 1 : Stamp(Older, t)
    /\ UNCHANGED <<secret, domain, generation, refs, marks, build, browser, blind>>

-----------------------------------------------------------------------------
Submit(s) ==
    \/ \E p \in Profiles, new \in Row : SubmitCreate(s, p, new)
    \/ \E new \in Row : SubmitUpdate(s, new)
    \/ \E on \in BOOLEAN : SubmitEnabled(s, on)
    \/ SubmitDelete(s)

Handle(s) ==
    \/ CheckListeners(s) \/ CheckSecrets(s) \/ Refuse(s)
    \/ CommitCreate(s) \/ CommitUpdate(s) \/ CommitDelete(s)

Administer ==
    \/ \E n \in Secrets : SaveSecret(n) \/ DeleteSecret(n)
    \/ \E d \in Domains : SaveSettings(d)
    \/ \E p \in Profiles : Route(p)

Life ==
    \/ Stop \/ Start \/ MarkBatch \/ Bootstrapped \/ Migrate
    \/ \E b \in 1..Builds : Replace(b)
    \/ \E p \in Profiles : InsertDefault(p)

Next ==
    \/ \E s \in Sessions, p \in Profiles : Open(s, p)
    \/ \E s \in Sessions : Submit(s) \/ Handle(s)
    \/ Administer
    \/ Life

Spec == Init /\ [][Next]_vars

-----------------------------------------------------------------------------
(* Properties *)

(* Every variable keeps its type.                                           *)
TypeOK ==
    /\ row \in [Profiles -> Row \cup {None}]
    /\ rev \in [Profiles -> Nat] /\ clock \in Nat
    /\ secret \in [Secrets -> Nat] /\ domain \in Domains /\ generation \in Nat
    /\ refs \subseteq Profiles
    /\ marks \subseteq 1..Builds /\ build \in 1..Builds /\ boot \in Phases
    /\ lock \in Sessions \cup {None}
    /\ page \in [Sessions -> Page \cup {None}]
    /\ req \in [Sessions -> Handler \cup {None}]
    /\ left \in [Kinds -> Nat]
    /\ blind \subseteq Profiles \X Profiles
    /\ stood \subseteq Profiles

(* Whatever forms are worked on at once, no two enabled profiles listen on  *)
(* one port of one transport: the check of profile_lifecycle.rs and the     *)
(* commit are apart, and the semaphore alone keeps them together.  Excepted *)
(* is a profile the check had to skip, the build lacking its adapter.       *)
NoListenerConflict ==
    \A p, q \in Profiles :
        Exists(p) /\ row[p].on /\ Clash(p, row[p].port, q)
            => <<p, q>> \in blind \/ <<q, p>> \in blind

(* "An old tab cannot overwrite a newer change"                             *)
(* (wiki/05-PROTOCOL-PROFILES-AND-RUNTIMES.md:41): a save or a deletion     *)
(* replaces the row its page showed, through saves of others, deletions     *)
(* with a new profile of the name, and migrations at a restart.  Excepted   *)
(* is a profile that was written at a time not later than the write before, *)
(* one of that name that was deleted included: nothing compares the two     *)
(* (storage.rs:2718), and an old tab may then overwrite a newer change.     *)
Committing(s) ==
    req[s] # None /\ req[s].pc = "commit" /\ req[s].verb # "create" /\ row' # row
SavesReplaceWhatWasSeen ==
    [][\A s \in Sessions : Committing(s) /\ req'[s] = None
          => row[page[s].p] = page[s].row \/ page[s].p \in stood]_vars

(* The desired state that the worker loads: enabled profiles without their  *)
(* display names, the domains and the secrets.                              *)
Published == {p \in Profiles : Exists(p) /\ row[p].on}
Runtime ==
    <<[p \in Published |-> [row[p] EXCEPT !.title = CHOOSE t \in Titles : TRUE]],
      domain, secret>>

(* The rules of wiki/05-PROTOCOL-PROFILES-AND-RUNTIMES.md:51-60: a running  *)
(* panel commits one generation with every change of the desired state and  *)
(* none with a display name, a disabled profile or a repeated click.        *)
GenerationTellsRuntime ==
    [][boot = "up" =>
          generation' = generation + (IF Runtime' = Runtime THEN 0 ELSE 1)]_vars
=============================================================================
